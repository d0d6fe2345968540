# Formal models of the SGPIO test tool

The repository holds a Windows program (`src/src/`) that drives a USB HID
bridge, the bridge's firmware for a Nuvoton M031/M032
(`src/demo_code/M031BSP_USB_HID_SGPIO/SampleCode/Template/`): a generator and a
monitor of the SGPIO bus, behind a command dispatcher, on a super-loop with
interrupts and a PDMA; and the board's USB bootloader (`SampleCode/ISP_HID`). This directory holds TLA+ modules of the parts whose
correctness depends on orders of events, configurations that model-check them,
and proofs of their main properties for all values of the constants.

Running them: `tlc -config SgpioMonitor.cfg MCSgpioMonitor`,
`tlapm SgpioMonitorProofs.tla`. `PROJECT.json` lists the runs, which source
lines each definition stands for, for each property a plausible mistake that
breaks it (the operators named `Bug...`), and the hazards.

In this text FW is the firmware directory above.

## 1. The system

| Component | State | Operations | Beside it | Module |
|---|---|---|---|---|
| Command dispatcher `FW/hid_tool_api.c` | two flags, two 64-byte buffers, reset requested / countdown / reason; the application's checksum in flash | `HidTool_Process` in the loop: take a report, handle it, re-arm EP3, respond, count down, reset | the USB interrupt: `HidTool_OnOutReady`, `HidTool_ResetState` | `HidTool`, abstractly `BridgeDevice` |
| USB endpoints `FW/hid_transfer.c` | EP2 and EP3 armed or not, their buffers | EP2/EP3 handlers, bus reset, `HID_Init` | the host | in `HidTool` |
| SGPIO monitor `FW/m031_bridge_sgpio_monitor.c` | state, ticks of arming and capture, result, timer, PDMA channel | Config, Arm, Stop, GetStatus, Process | the SLOAD interrupt, TIMER2, the PDMA | `SgpioMonitor` |
| SGPIO generator `FW/m031_bridge_sgpio.c` | settings, waveform, frame under way, first frame | Config, Apply, Off, GetStatus, Process | TIMER0 and the PDMA | `SgpioOutput`, abstractly `SgpioSource` |
| Frame format (both files) | none: `BuildWaveform`, `Decode` | pure functions | | `SgpioWaveform` |
| Software timers `FW/timer_service.c` | 16 timers, a ring of 16 expired ones | Create, Start, Stop, ChangePeriod, Tick1ms, Dispatch | the 1 ms interrupt | `TimerService`, abstractly `EventQueue` |
| Super-loop `FW/main.c` | | calls all of the above | | `Loop` of each module |
| Host transport `src/hid/hid_bridge_client.cpp` | handle, 8-bit sequence | Connect, Disconnect, Transact, ReadFrame, with timeouts for write and read | HID driver, EP2 and EP3, a device that goes | `HidClient`, abstractly `BridgeCall` |
| Typed commands `src/core/bridge_service.cpp` | none | pack payloads, check lengths | | their outcomes in `BridgeGui` |
| Tabs, main window `src/ui`, `src/main_frame.cpp` | connected, enabled, armed, polling, buttons, status chip | button handlers, poll timer, error boxes, tab change, LoadIni, close | the firmware's state, late requests, resets | `BridgeGui` |
| Pin registry `src/core/pin_usage_registry.cpp` | active owners, claims | SetActive, AnyActiveExcept, AnyPinOccupied | | in `BridgeGui` |
| Bootloader `SampleCode/ISP_HID` | flash, start address, lengths, command under way, receive buffer | boot decision, update, continuation, resend, run | USB interrupt, host, power loss, a flash that refuses commands | `IapBoot`, abstractly `AppSlot` |
| Settings `src/config`, `src/core/app_state.cpp` | an INI file | Load, Save | | not modelled |
| HID scan, descriptors, log, text, layout, vendor libraries, M261 tree | | | | not modelled |

How they interact. The host writes one 64-byte report to EP3. Its interrupt sets
`EP3Ready`; the loop copies the report, calls the handler for its command -- which
calls the generator or the monitor -- builds a response with the same command and
sequence byte, arms EP3 again and gives the response to EP2. The same loop calls
the two `Process` functions and the timers' dispatch. The peripherals go on by
themselves: the PDMA reads the generator's waveform and writes the monitor's
samples, timers pace them, and interrupts change the shared variables between any
two instructions of the loop. After `ENTER_IAP` the firmware resets into the
bootloader, which starts the application again only with a right checksum.

Hard behaviours, each in `PROJECT.json` under `hazards` with its line:

- a USB bus reset between any two accesses of the dispatcher, the countdown's
  read-modify-write included;
- the delayed reset: after its response, cancelled by a bus reset, with the
  checksum erased before;
- the SLOAD edge at any instant of Arm, Stop, Process and GetStatus, and the
  capture's end racing its timeout;
- the waveform rebuilt while the PDMA may read it, and the first frame's L0;
- a decoder that must recognise frames it sees from the middle or in part;
- the ring of timer events at its limit, timers restarted while they run;
- elapsed times over a tick that wraps;
- on the host: lost, late and stale responses, a cancelled read that may still
  take a report, a sequence byte that wraps and starts again with each connection;
- two requests of which one fails, a request that takes effect after its call has
  failed, and with it two views of one state; message boxes under which the
  poll timer or the whole window goes on;
- a power failure between any two words of an update, packets taken back across
  a page, an interrupt that overwrites the packet being programmed, flash commands
  that are refused and whose result nobody looks at.

## 2. Modules

In every module an action is a stretch of code that no other actor can tell
apart; where one can, the code is cut, `pc` names the next piece, and the comments
beside its values give the source lines. Interrupt handlers are atomic: they preempt the
loop and are not preempted by it. `PROJECT.json` maps every definition to its
lines.

**HidTool.** `Poll` .. `CopyOut` .. `LoadCmd` .. `LoadSeq` .. `LoadLen` .. `Dispatch` (.. `EraseChecksum`,
`RequestReset`) .. `FinishResponse`, `SetProcessReady`, `RearmOut` are the first
half of `HidTool_Process`; `CheckReply`, `LoadIn`, `ArmIn`, `CheckResetRequested`,
`StartCountdown` are `HidTool_SetInReport`; `TestCountdown`, `FetchCountdown`,
`StoreCountdown`, `CheckExpired`, `ResetMcu` the countdown. `OnOutReady`
and `ResetState` are the interrupt, `HostIn` is the host fetching a response,
`Restart` the boot and `Reflash` (external) an ISP session. A report is
its magic, command, sequence and length; payloads are abstracted to their length,
and `HandlerStatus` gives the statuses the SGPIO handlers may answer. The erase
of the checksum page succeeds, is refused, or is reported failed and may still
have happened. A bus reset in the middle of a copy or of the response's
construction leaves a buffer of which one part is zero (`LateReport`, `LateReply`, `EarlyReply`):
the part written before it, or, in EP2, the part copied after it. Nothing reads such a buffer
before the copy is over, so the bus reset may be placed behind it. History variables: the request taken,
how far a reset request has got, whether a bus reset cancelled it, how many responses were given,
whether the erase was reported failed, whether the response in EP2 is `torn` so.

**BridgeProtocol / BridgeDevice.** BridgeProtocol has the reports, the statuses each request may
be answered with (`Verdicts`) and the response itself. BridgeDevice is the firmware as its host
can know it: a request `held`, its answer `given` to the endpoint and `offered` there, each one
report or none; it may lose or zero them at a bus reset, and restarts only when `due`. The mapping in HidTool
follows the request through EP3's buffer, `fromPc` and the loaded header (`Held`) and the
answer through `toPc` to EP2 (`Given`). Each freedom of BridgeDevice is one the code uses: TLC finds `DeviceSpec` violated
when any of them is taken away -- what a bus reset may leave of a request (`Remains`: it may also come between the loads of magic, command, sequence
and length, so that a request without its magic byte keeps its command or its sequence) or of an answer
(`ReplyRemains`), an answer dropped on its way, an
answer fetched twice (`Offer`), a restart put off by a second request for it (`Postpone`).

**SgpioMonitor.** The loop's calls `Config`, `ArmRefused`/`ArmStart`/`ArmPrepare`/`ArmEnable`,
`StopTimer`/`StopRouting`/`StopRest`, `GetStatus`/`CopyResult`/`OverrideState`/`Reply`
and `Process` (`CheckState`, `CheckElapsed`, `Expire`, `CheckDone`,
`CheckOverdue`, `Decode`); beside them `StartCapture` (the interrupt), `Sample`
(the PDMA, external) and `Tick`. What a decoding finds is any combination of
flags the decoder can produce for that number of samples; the decoder itself is in
SgpioWaveform. `waited` and `triggeredAt` record true elapsed times, against
which the code's modular ones are judged.

**SgpioSource / SgpioOutput.** SgpioSource says what the line sees: frames of one
content each, from start to end unless cut, L0 low until a first frame is whole.
SgpioOutput is the code: `Config`, `Apply` in its parts, `SgpioOff`, `GetStatus`,
`Process` (`Finish`, `SendNext`), with `TransferWord` (the PDMA, external)
and `Tick`. The refinement maps on, busy, content, sent and whole to enabled,
frameActive, waveform, pos and 1 - firstFrame.

**SgpioWaveform.** `Clocks` and `Words` are `BuildWaveform`. A behaviour chooses a
frame and the clock the monitor triggers on, and `Sample` takes the words on the
line one by one: where SCLOCK rises, a clock is seen, as in the loop at the head of
`Decode`. The rest of `Decode` is the operator of that name, on the clocks seen;
every state has the decoding of a capture that ended there.
The averages of clock times, and with them the CLOCK_RANGE flag, are left out.

**EventQueue / TimerService.** `Interrupt` and `CountTimer` (one timer at a time,
the loop standing still) with `Enqueue` are the tick; `Create`, `ChangePeriod`,
`StopTimer`, `StartTimer`/`StartClear`/`StartActivate` the application's calls,
made from the loop or from a callback; `Dequeue` and `DispatchFlag` the dispatch.
The ring's contents, from head to tail, are the EventQueue.

**BridgeCall / HidClient.** BridgeCall is what a caller may rely on: a request is
processed at most once, an answer tells what was done with it, and a failed
call promises nothing. HidClient is the code: `Connect`, `Disconnect`, `Transact`
(`NotConnected`), `WriteDone`/`WriteFails` (`IoWriteWithTimeout`), `ReadReport` and
`ReadFails` (`ReadFrame` over `IoReadWithTimeout`); beside it the driver, the
device's `AcceptOut`, `ProcessRequest`, `SetInReport`, which are BridgeDevice's `Accept`, `Answer` and `Offer` for
reports known by their calls, `FetchEarly`, the first of two fetches of one answer, and `DeviceGone`, after which the firmware may have kept
what it held (a bus reset) or not. A
report is known by the number of its call and by where it is; reports keep their
order, so a queue is the set of those at one place. A cancelled read
that the driver has not completed may swallow one report (`orphans`); `early` are the copies in the ring of reports that will come again; that it may also
write into a buffer its caller has left is a matter of memory, not of this model.
Malformed frames and the search for the device's path are left out. `LagBound`
guards `Transact`: fewer than `SeqMod` (256) calls of this connection since the oldest
report still on its way. In the code that is a matter of time: each of 256 calls
would have to time out before one report is delivered.

**BridgeGui.** The tabs' flags are sets of owners (`connected`, `on`, `buttons`), the
registry's `active` another, and `running` is what the firmware does. Each handler is
one action up to an error box; an error box of the output tab (`box`) lets the
poll timer go on, one of a failed Connect, which has no owner window, the whole
main window. A call is `Answered`, `Unseen` (processed, its answer lost) or `Missed`
(not processed, or later: `LateRequest`), as BridgeCall has it; an answer is taken for its
own, so the one exception HidClient shows, a stale answer after a
reconnection, is left out here. GET_INFO and PING change none of the state and are not
actions; ConnectDone covers GET_INFO failing, which has no consequence. `behind`
is history: the owners whose operation in the firmware may have been changed
without their tab having been told.

**AppSlot / IapBoot.** AppSlot sees the application's flash as one place for an image: an image is started only
when it is whole (`Start`), a running one can only be erased (`Spoil`), and what comes into the empty place is
the image the host offered last (`Install`), unless the flash refused a command. The mapping in IapBoot takes
`image` from the words (`Whole`), `runs` from the mode, `offer` from the host's packet, `faulty` from `missed`.

In IapBoot, `Boot` is the decision of `main`: vectors and checksum (`Verified`) start the application.
`TakeUpdate`, `TakeData`, `TakeResend`, `TakeOther` are `ParseCmd`'s
branches, `ErasePage`, `ProgramWord`, `ResendErase`, `RestoreWord`, `EraseNext` its flash operations
one by one, `Send` the EP3 interrupt, which takes the next packet whatever the loop does, `Reply`
and `ClearReady` the end of a turn, `PowerFails` a reset between any two of these. In each flash operation
the controller may refuse a command: `FMC_Proc` stops there and returns -1, `ParseCmd` ignores it, and the words left
out are in the history variable `missed` (`Miss`). A word the resend cannot read keeps what its buffer had (`ReadBack`).
`EnterIap` is the application's erase of its checksum page, which may fail; the application runs on, until
`LeaveApp`, its delayed reset, which HidTool shows may not come. Packets
are CMD_UPDATE_APROM of a whole application, padded by the host's tool,
its continuations, CMD_RESEND_PACKET, CMD_RUN_* and CMD_CONNECT. A packet's
header and parameters are read in one step. The host's tool is not in the
repository: `Host` sends anything at any time, and `orderly` marks the behaviours in
which it waited for each answer. That only words of one image pass the check is assumed of the
checksum (a CRC), and a word is programmed or not when power fails. Left out: the sums in the answers, which only
the tool looks at (and which would show it a refused command), data flash, configuration words, ERASE_ALL, partial updates,
and the boot mailbox, which no code in `src` writes.

**MC... modules** hold the values of the constants for TLC.

## 3. Model checking

| Run | Configuration | What it checks | Result |
|---|---|---|---|
| dispatcher | `HidTool.cfg` | types, `OutBufferStable`, `OneReplyPerRequest`, `ReplyTruthful`, `ResetFollowsReply`, `BusResetCancels`, `ErasedMeansLeaving`; `DeviceSpec`; `OutRearmed`, `ResetHappens` | holds |
| reset_reason | `HidToolInfo.cfg` | `GetInfoReportsReset`, as the README says of GET_INFO | violated |
| monitor | `SgpioMonitor.cfg` | `CleanArm`, `DecodeAlone`, `ReportCoherent`, `TimeoutIsDue`; `Settles` | holds |
| monitor_timeout_race | `SgpioMonitorRace.cfg` | `NoTriggerMeansNoEdge`, as the README says of No trigger | violated |
| output | `SgpioOutput.cfg` | `IdleLine`; `SourceSpec`, `KeepsSending` | holds |
| frame_format | `SgpioWaveform.cfg` | `FrameFits`, `WholeFrameDecodes`, `CleanDecodeIsTrue` | holds |
| frame_layout_in_readme | `SgpioWaveformReadme.cfg` | `ReadmeLayout` | violated |
| timers | `TimerService.cfg` | types, `PendingIsDue`; `QueueSpec`; `EventRuns`, `PendingRuns`, `TimerExpires` | holds |
| hid_client | `HidClient.cfg` | `AnswerIsOwn`, `AnswerComing`; `CallSpec`; `CallEnds` | holds |
| gui | `BridgeGui.cfg` | `OutputBelief`, `MonitorBelief`, `ButtonsSafe`, `ConnectedIsReal`; `StartsExclusive`; `PollingEnds` | holds |
| gui_owners_in_self_check | `BridgeGuiDocs.cfg` | `OwnersExclusive`, as SELF_CHECK.md says of the pin owners | violated |
| bootloader | `IapBoot.cfg` | `ErasedAhead`, `DeliveredIsWritten`; `SlotSpec` | holds |

The type invariants and inductive invariants that no run lists were checked while
they were written and are now proved (section 4).

**Bounds.** `MaxPackets = 3` and `MaxBusResets = 1`: a request, one that follows it
before its response is fetched, and one after a cancelled reset; between requests
the dispatcher keeps only the flags, the buffers and the countdown, all small.
`Delay = 2`, `WordMax = 3` stand for 20000 and 2^32 - 1: the countdown can be
read, written and zeroed at 2, 1 and 0, and 0 - 1 wraps to a value above the delay.
`SampleMax = 3`: none, some, all but one and all samples. `TickMod` (8, 6) is just
above the assumption's bound, so that the wrap falls into every interval. `MaxLag`
is the number of ticks in one turn of the loop: 2 lets one fall before and
one after any test; in the timers it also says that the loop is not starved. The
monitor's timeouts and the generator's intervals lie below, inside and above their clamps.
`FrameLen = 3` (129 and less in the code): first, middle and last word. The
SgpioWaveform runs use the real sizes: slot counts 0, 4, 5, 8, 9, 16, 255 (9 has the longest padding),
three raw settings and four mask settings, every start and every end of a
capture, and all expected counts. Timers: two, in a ring of three places: two events wait in it, so that
their order shows, a third is dropped, and it wraps with every three; `WordMax = 2`, periods 0 (every tick) and 2, the
largest value the counter can hold.

HidClient: `SeqMod = 2` makes the byte wrap within three calls, `RingSize = 1` lets the
driver's ring overflow, three connections (or Disconnects) and one loss of the device put calls
on both sides of each. BridgeGui is finite but for the error boxes of Connect; two
of them (`MaxErrors = 2`) can be closed in an order other than they were opened, with a connection
made between. IapBoot: four words in two pages, a first packet of one word
and later ones of two, so that a packet crosses into the second page and the last
one is cut by the end of the image; two images, so that a mixture can arise;
`MaxTroubles = 2` resends and refused commands together between two resets, so that one packet is taken back twice,
two packets are, or one that was refused is taken back. The images are symmetric: no definition tells
them apart, and the run checks safety only.

**Deadlock** is checked everywhere except in the frame format, where a capture
ends, and in HidClient, where a run's calls and connections are used up.

**Fairness.** The super-loop never blocks: no handler waits, and every action of it
that is enabled is taken at last (`WF_vars(Loop)`, `WF_vars(MainLoop)`). The hardware
timer ticks (`WF` of `Tick` or `Interrupt`) and an interrupt handler returns (`CountTimer`).
Where the generator's PDMA must end a frame its transfers are fair, for a
running timer requests them. Nothing is assumed of the host, of the bus or of an
external SGPIO source: an edge or a clock need never come, which is what the
monitor's timeouts are for. On the host the calling
thread goes on and its waits time out (`WF_vars(CallStep)` in HidClient; nothing is assumed of the
driver or the device). In BridgeGui a capture ends by itself, which is
SgpioMonitor's `Settles`, and Windows delivers WM_TIMER when the thread has nothing else to
do. The bootloader has no fairness: its promises are safety.
`ResetHappens` uses that `MaxPackets` makes the host
stop: each response restarts the countdown, so a host that polls
faster than 20000 turns of the loop postpones the reset.

**What the violated runs show.**

- *reset_reason*: the reset reason is kept in a variable that the reset itself
  initialises (`hid_tool_api.c:29`), so GET_INFO after a commanded reset always reports
  none, whereas `README.md:261` has it "read the bridge name/version and reset
  reason".
- *monitor_timeout_race*: `Process` decides on the timeout before it disables the
  trigger's interrupt (`m031_bridge_sgpio_monitor.c:619-624`). An edge in between starts a capture
  that is at once recorded as a timeout without trigger; `README.md:302` says
  that means no edge arrived in time.
- *frame_layout_in_readme*: `README.md:197-201` gives L0..L3 four clocks of their
  own before the slot data; the code sends them on SLOAD during the first four
  slot bits (`m031_bridge_sgpio.c:305-315`).
- *gui_owners_in_self_check*: `SELF_CHECK.md:67` has "Confirm Output and Monitor pin owners
  cannot be active simultaneously in the GUI." Enable and Arm ask the registry
  first; Get Status (`sgpio_monitor_tab.cpp:526`, `sgpio_tab.cpp:875`) takes over what the
  firmware says and claims the pins without asking. An Arm whose answer is lost, Enable on
  the output tab and Get Status on the monitor's make both active. Without
  a lost answer or a reset they never run together (`StartsExclusive`).

**Seen while modelling, allowed by the properties.**

- A bus reset after the EP3 interrupt and before the loop's poll clears
  `EP3Ready`, and no code arms EP3 again: the bridge takes no further request until
  it is restarted. `OutRearmed` therefore excepts bus resets.
- A response is copied into EP2 while EP2 may still be armed for the one before, which the host has not
  fetched: the host may fetch the new one in the middle of this and, since EP2 is then armed, once more
  (found when `DeviceSpec` failed without it). Its caller takes the first copy; the second waits in the ring, and no later call
  takes it for its own (`AnswerIsOwn`). That a fetch may see half of each response is left out: a fetch in the middle of the copy takes the new one.
  So are torn answers in HidClient, where a device's answer is whole.
- A bus reset inside the few instructions between the countdown's read and the
  reset (`ResetWindow`) does not cancel the reset.
- A bus reset between the loads of the header, or while the packet is copied, can leave a request without its magic
  byte but with its command, sequence or length: it is answered BAD_MAGIC with what is left of them.
- A bus reset while the response is copied into EP2 leaves its end zero; a status so zeroed
  reads OK. `ReplyTruthful` excepts such a response (`torn`); the bridge has been reset under its host then.
- After `ENTER_IAP` erased the checksum, a bus reset can cancel the reset: the
  application goes on running but will not be started again. (HidTool's `ErasedMeansLeaving`, IapBoot's `EnterIap`.)
- `ParseCmd` ignores refused flash commands: the packet is answered and counted as if it had been
  written, and a resend takes back words that never were. Words of an older image, left
  in the flash or in the resend's buffer, may then complete that image again (`faulty` in AppSlot); the sums in the answers would tell the host.
- A monitor that sees a source cut a frame and start another can decode the
  mixture; `CleanDecodeIsTrue` is about captures of one frame.
- A queue timer may call back after it was stopped, if its event was already in
  the ring; a flag timer does not.
- `DispatchQueue` goes on until the ring is empty: callbacks that take a tick or longer
  could keep the loop in it for ever. `MaxLag` excludes that.
- `Connect` sets the sequence to 1 again (`hid_bridge_client.cpp:170`): an answer of the
  earlier connection still in EP2 is taken for the answer to a new call with the same
  command and number. `AnswerIsOwn` excepts calls up to `base`.
- The error box of a failed Connect has no owner window: a Connect that succeeds
  beside it is shown as Disconnected once the box is closed.
- A poll that fails forgets a running capture, and a manual Get Status that finds it again
  does not restart polling.
- CMD_RESEND_PACKET within the application's last page erases the page behind it.
- `README.md:150` says that ENTER_IAP erases the checksum word; the flash erases the whole page.

## 4. Proofs

TLAPS checks these for every value of the constants allowed by the ASSUME of each module.

| Module | Theorems |
|---|---|
| `HidToolProofs` | `TypeCorrect`, `Safety` (`IInv`), and from it `OutBufferIsStable`, `AtMostOneReply`, `RepliesAreTruthful`, `BusResetReallyCancels`, `ErasedIsLeaving`, `ResetAfterReply`, `Refinement`: the dispatcher implements BridgeDevice |
| `SgpioMonitorProofs` | `TypeCorrect`, `Safety` (`MonitorInv`), `ArmingIsClean`, `DecodeIsAlone`, `ReportsAreCoherent`, `TimeoutsAreDue` |
| `SgpioOutputProofs` | `TypeCorrect`, `LineIsIdle`, `Refinement`: the generator implements SgpioSource |
| `SgpioWaveformProofs` | `BufferSuffices`, `WaveformInvariant`, `FramesFit`, `CleanDecodes`, `WholeFramesDecode` |
| `TimerServiceProofs` | `TypeCorrect`, `Safety` (`TimerInv`), `FlagsAreDue`, `Refinement`: the ring implements EventQueue |
| `HidClientProofs` | `TypeCorrect`, `Safety` (`ClientInv`), `AnswersOwn`, `AnswersComing`, `KeepsPromise`: the transport implements BridgeCall |
| `BridgeGuiProofs` | `TypeCorrect`, `OutputKnown`, `MonitorKnown`, `ButtonsRight`, `ConnectedRight`, `StartsAlone` |
| `IapBootProofs` | `ErasesAhead`, `DeliveriesAreWritten`, `Refinement`: the bootloader implements AppSlot |

*Dispatcher.* `IInv` says what each point of the loop knows although a bus reset
may have come since: the packet in hand is the one taken or all zeros
(`RequestInv`), a waiting response is true and the first (`ReplyInv`), a countdown
runs only for a request whose response was given (`ResetInv`). None of the
properties is inductive without them: `ResetFollowsReply`, for one, needs that
nothing is scheduled before the response is given. For `Refinement`, `DeviceInv` adds that the status
chosen is a verdict on the request held (or on what a bus reset left of it), that a response waits only where it can be offered next,
and that one still on its way promises the reset that was accepted; each step of the loop
or the interrupt is then a step of BridgeDevice or none (`StepRefines`). `LateParts` says of a packet cut by a bus reset
that it is whole or has no magic byte, so that only BAD_MAGIC can come of it. Number of packets, of bus
resets, delay and word size are arbitrary.

*Monitor.* `WiringInv` says how interrupt, timer and PDMA stand in each state and
at each point; `ResultInv` that the stored result agrees with the live state;
`ClockInv` that the tick is the arming's tick plus the time waited, modulo TickMod,
which turns the code's modular difference into a true one as long as
`TimeoutMax + 2 * MaxLag < TickMod`.

*Generator.* `OutputInv` ties an active frame to a running timer and the PDMA's
position. With it each step of the code is one step of SgpioSource or none.

*Frame format.* The length of each part of a frame is computed, the sum rounded up to 16 clocks, and
shown to give at most 129 words for every slot count, mask and raw setting:
the bounds check of `AppendLevel` never drops a word (`BufferSuffices`). `IsFrame` is the level
of SLOAD and SDATA at each clock of a frame, which `FrameProfile` reads off its parts. For the decoder,
`FiveLow` shows that a run of exactly five low SLOAD clocks ends at the restart marker of a
frame seen from its start, or where the padding begins; from the latter only high clocks follow,
which the test for late SLOAD bits flags (`CleanFromStart`). So a decoding without errors has the data
clocks in its hands, and no more of them than the frame has, or the padding would again be
flagged; hence `CleanDecodes`, whatever the expected count. In a whole frame of 4, 8 or 16 slots only the padding
passes the test for padding (`PaddingFound`), which gives `WholeFramesDecode`. `WaveformInv` ties both to the behaviours: the
capture holds the frame's clocks from the trigger on, as many as have risen. The first sync and the end of a low run
are a least and a greatest member of a set of numbers; that there is one is shown by `LeastMember`
from the well-foundedness of set inclusion.

*Timers.* A counter that would reach the top of its word has reached its period,
so it stays below (`TypeCorrect`). `TimerInv` adds to `PendingIsDue` that only
created timers are active and that `StartTimer` has wiped the old expiry before it
activates. For the refinement, writing at the tail appends to the sequence read off
the ring, advancing the head takes its first member, with the wraps of both indices,
and the ring is full exactly when that sequence has Size - 1 members.

*Transport.* `OrderInv` says that reports keep the order of their calls and that EP3, EP2 and the
firmware's buffer hold one each; `SeqInv` that the sequence bytes of the last `SeqMod` calls
are the consecutive ones that end before `seq`. With `LagBound` no two calls of one connection that
have reports on their way share a byte, which gives `AnswerIsOwn`. `ProcessInv` ties a report's place to
whether it was processed, which gives the refinement; copies fetched early count as on their way
in all of them, for a copy of an old answer may not share its byte with a new call either. Ring, sequence space,
calls, connections and resets are arbitrary.

*GUI.* The invariant is the properties together with `LateBehind`: a late Apply, Off or Arm that may
still take effect has its owner in `behind`. Without it `OutputBelief` would not
survive a `LateRequest`. The number of error boxes is arbitrary.

*Bootloader.* `FlashInv` says at each place of `ParseCmd` which words are erased and which
are not: while a page is erased, programmed, taken back or restored. The lemmas on pages
and bounds (`Page` divides `Size`, a packet is no longer than a page) show that a packet crosses at
most one page boundary, so that erasing on reaching it is enough. All of it is said of the words outside
`missed`, which each refused command extends by what it left. For `DeliveriesAreWritten`,
`OrderlyInv` relates the host's position, ParseCmd's `start` and `total`, and the words in the flash: at
rest the three agree (`Settled`), while a packet is with ParseCmd they differ by what it has done of it
(`Taken`), and a packet that came before `ClearReady` is forgotten and never answered (`Deaf`), so that the host's
position stays where it was. `ErasedFrom` of `FlashInv` is what makes programming write the image's word.
For `Refinement`, an image becomes whole only by a programmed word. One from the receive buffer is
the image's the host sends, since a buffer with data is the host's last packet (`Types`); one written back by a resend
completes nothing, since the word where the packet taken back begins was erased first, unless that was refused (`GapInv`).

Assumed: the `ASSUME`s, which TLC evaluates in the runs, and the atomicity stated in
section 2. Only model-checked: everything under fairness (`OutRearmed`, `ResetHappens`,
`Settles`, `KeepsSending`, `EventRuns`, `PendingRuns`, `TimerExpires`, `CallEnds`,
`PollingEnds`), which the prover does not cover. Every invariant and every action property the
runs check is proved.

## 5. Not modelled

- Payload bytes of commands other than what the monitor and the generator use; a payload zeroed by a
  bus reset after the header was checked: it is a legal payload with other values.
- USB control transfers, descriptors, suspend; clock and pin set-up; the LED.
- Electrical timing, clock rates and the decoder's frequency estimate.
- The bootloader's data flash, configuration words, ERASE_ALL and partial updates.
- INI files, log, text, layout, owner and pin tables: no property of the bridge is about them.
- The M261 tree: a port of the M031 one (same timer service, dispatcher and SGPIO code but
  for names and peripheral instances), so the modules would say the same of it.
- Nearly all lines of the repository are the chip vendor's headers and drivers, twice. They have
  no state of the program's own: what the program uses of them appears as
  external actions.

## 6. Plan

Done: the dispatcher with its abstract device, the monitor, the generator with its abstract source, the
frame format, the timers with their abstract queue; the host transport with its
abstract call; the GUI with the pin registry; the bootloader with its abstract slot; proofs for all of them.

What could follow:

1. Composition: HidTool's handlers replaced by the actions of SgpioMonitor and
   SgpioOutput; and HidClient stated over BridgeDevice itself, whose steps its device takes now by
   hand.
2. The bootloader's partial updates and data flash.
