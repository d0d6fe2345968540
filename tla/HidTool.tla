------------------------------ MODULE HidTool ------------------------------
(***************************************************************************)
(* The command dispatcher of the bridge firmware (hid_tool_api.c) with the *)
(* USB interrupt that runs in the middle of it (hid_transfer.c).           *)
(*                                                                         *)
(* HidTool_Process runs in the super-loop.  It is cut into one action per  *)
(* access to a variable that the USB interrupt also writes, and pc names   *)
(* the next of them; the interrupt's two handlers, HidTool_OnOutReady and  *)
(* HidTool_ResetState, are atomic (they preempt the loop, never the other  *)
(* way round) and may run between any two of these actions.  A copy of 64  *)
(* bytes is one action; what a bus reset in the middle of it leaves is one *)
(* of the outcomes of a bus reset right after it (ResetState).             *)
(*                                                                         *)
(* The host and the USB peripheral are the environment: an OUT packet is   *)
(* accepted only while EP3 is armed, an armed EP2 buffer is collected at   *)
(* any later time, and a bus reset may come at any moment.  A bus reset    *)
(* leaves the endpoints' armed state alone: EP3 is armed once by HID_Init, *)
(* before the bus reset of the first enumeration, and works after it.      *)
(***************************************************************************)
EXTENDS Naturals, FiniteSets, BridgeProtocol

CONSTANTS
  Inputs,        \* the reports the host may send, a subset of Report
  Delay,         \* BRIDGE_RESET_DELAY_LOOPS (20000 in the source)
  WordMax,       \* largest value of the unsigned countdown (2^32 - 1)
  MaxPackets,    \* bound: reports the host sends
  MaxBusResets   \* bound: bus resets

ASSUME HidToolAssumption ==
  /\ MaxSeq \in Nat /\ MaxPackets \in Nat /\ MaxBusResets \in Nat
  /\ WordMax \in Nat /\ Delay \in 1 .. WordMax
  /\ Inputs \subseteq Report

VARIABLES
  \* the USB endpoints
  ep3Armed, ep3Buf,      \* OUT: armed to receive; last packet received
  ep2Armed, ep2Buf,      \* IN: armed to send; its packet
  \* the file-scope variables of hid_tool_api.c
  CmdProcessReady, EP3Ready, ResetRequested, ResetCountdown,
  LastResetReason, toPc, fromPc,
  \* the main loop: program counter and locals
  pc, hdr, status, count,
  \* the application's CRC word in flash, and which image runs
  crcOk, mode,
  \* history: the request being answered, the reset request's progress, a
  \* bus reset that cancelled it, replies to the request in hand, the reason
  \* of the reboot this run of the application began with, whether an erase
  \* reported a failure, and whether a bus reset cut the copy into EP2
  taken, ask, cancelled, replies, bootReason, ioError, torn,
  \* bounds
  packets, busResets

usb     == <<ep3Armed, ep3Buf, ep2Armed, ep2Buf>>
flags   == <<CmdProcessReady, EP3Ready, ResetRequested, ResetCountdown>>
buffers == <<toPc, fromPc>>
locals  == <<hdr, status, count>>
machine == <<LastResetReason, crcOk, mode>>
history == <<taken, ask, cancelled, replies, bootReason, ioError, torn>>
bounds  == <<packets, busResets>>
vars    == <<usb, flags, buffers, pc, locals, machine, history, bounds>>

(* Where the main loop is; the comment gives the line it runs next.        *)
Pcs == {"poll",      \* 585  EP3Ready?
        "copy",      \* 552  copy EP3 to fromPc, clear toPc
        "cmd",       \* 484  load the command
        "seq",       \* 485  load the sequence byte
        "len",       \* 486  load the payload length
        "dispatch",  \* 488  check magic and length, call the handler
        "erase",     \* 142  erase the CRC page
        "request",   \* 129, 148  record the reset request
        "finish",    \* 524  build the response in toPc
        "ready",     \* 557  CmdProcessReady = 1
        "rearm",     \* 592  arm EP3
        "reply",     \* 562  CmdProcessReady?
        "load",      \* 567  copy toPc to EP2
        "arm",       \* 570  arm EP2, clear
        "schedule",  \* 575  ResetRequested?
        "start",     \* 577  start the countdown
        "test",      \* 597  countdown > 0?
        "fetch",     \* 599  load the countdown
        "store",     \* 599  store it minus one
        "expired",   \* 600  countdown = 0?
        "reset"}     \* 602  reset the MCU

Init ==
  /\ ep3Armed = 1 /\ ep3Buf = ZeroReport
  /\ ep2Armed = 0 /\ ep2Buf = ZeroReply
  /\ CmdProcessReady = 0 /\ EP3Ready = 0
  /\ ResetRequested = 0 /\ ResetCountdown = 0
  /\ LastResetReason = "NONE"
  /\ toPc = ZeroReply /\ fromPc = ZeroReport
  /\ pc = "poll"
  /\ hdr = ZeroReport /\ status = "OK" /\ count = 0
  /\ crcOk = 1 /\ mode = "app"
  /\ taken = ZeroReport /\ ask = "none" /\ cancelled = 0 /\ replies = 0
  /\ bootReason = "NONE" /\ ioError = 0 /\ torn = 0
  /\ packets = 0 /\ busResets = 0

-----------------------------------------------------------------------------
(* The USB interrupt and the host behind it.  Here and below a definition  *)
(* named Bug... is the one after it with a plausible mistake in it; it is  *)
(* used by no specification, only to see that a property would notice.     *)

(* An OUT packet arrives: the controller fills EP3's buffer, disarms it    *)
(* and raises the interrupt, whose EP3_Handler calls HidTool_OnOutReady.   *)
OnOutReady(r) ==
  /\ mode = "app" /\ ep3Armed = 1 /\ packets < MaxPackets
  /\ ep3Buf' = r /\ ep3Armed' = 0
  /\ EP3Ready' = 1
  /\ packets' = packets + 1
  /\ UNCHANGED <<ep2Armed, ep2Buf, CmdProcessReady, ResetRequested,
                 ResetCountdown, buffers, pc, locals, machine, history,
                 busResets>>

(* The host collects the IN packet; EP2_Handler does nothing.              *)
HostIn ==
  /\ mode = "app" /\ ep2Armed = 1
  /\ ep2Armed' = 0
  /\ UNCHANGED <<ep3Armed, ep3Buf, ep2Buf, flags, buffers, pc, locals,
                 machine, history, bounds>>

(* The lines on which a bus reset does not cancel a reset request: the     *)
(* loop has already read ResetRequested or the countdown and will write    *)
(* the countdown, or decide on it, after the interrupt.                    *)
ResetWindow == {"start", "fetch", "store", "expired", "reset"}

(* What HidTool_ResetState clears of a reset on its way.                   *)
BugCancelReset == ResetCountdown' = 0 /\ UNCHANGED ResetRequested
CancelReset == ResetCountdown' = 0 /\ ResetRequested' = 0

(* A bus reset: the interrupt calls HidTool_ResetState, which zeroes both  *)
(* buffers.  It may come while the loop writes one of them byte by byte,   *)
(* and then the bytes written later stand (pc "cmd": the packet just       *)
(* copied to fromPc; pc "ready": the response just built in toPc), or      *)
(* while the loop copies toPc to EP2, which then ends in zeros (pc "arm"). *)
(* Nothing reads such a buffer before the copy is over.                    *)
ResetState ==
  /\ mode = "app" /\ busResets < MaxBusResets
  /\ CmdProcessReady' = 0 /\ EP3Ready' = 0
  /\ CancelReset
  /\ fromPc' \in IF pc = "cmd" THEN LateReport(fromPc) ELSE {ZeroReport}
  /\ toPc' \in IF pc = "ready" THEN LateReply(toPc) ELSE {ZeroReply}
  /\ ep2Buf' \in IF pc = "arm" THEN EarlyReply(ep2Buf) ELSE {ep2Buf}
  /\ torn' = IF ep2Buf' = ep2Buf THEN torn ELSE 1
  /\ cancelled' = IF pc \in ResetWindow THEN cancelled ELSE 1
  /\ busResets' = busResets + 1
  /\ UNCHANGED <<ep3Armed, ep3Buf, ep2Armed, pc, locals, machine, taken, ask,
                 replies, bootReason, ioError, packets>>

-----------------------------------------------------------------------------
(* HidTool_Process, first half: a request is taken and answered in toPc.   *)

BugPoll ==       \* EP3 armed again before its packet is copied
  /\ pc = "poll" /\ mode = "app" /\ EP3Ready = 1
  /\ EP3Ready' = 0 /\ CmdProcessReady' = 0 /\ ep3Armed' = 1
  /\ pc' = "copy"
  /\ UNCHANGED <<ep3Buf, ep2Armed, ep2Buf, ResetRequested, ResetCountdown,
                 buffers, locals, machine, history, bounds>>
Poll ==
  /\ pc = "poll" /\ mode = "app"
  /\ \/ /\ EP3Ready = 1
        /\ EP3Ready' = 0 /\ CmdProcessReady' = 0
        /\ pc' = "copy"
     \/ /\ EP3Ready = 0
        /\ pc' = "reply"
        /\ UNCHANGED <<EP3Ready, CmdProcessReady>>
  /\ UNCHANGED <<usb, ResetRequested, ResetCountdown, buffers, locals,
                 machine, history, bounds>>

CopyOut ==
  /\ pc = "copy"
  /\ fromPc' = ep3Buf /\ toPc' = ZeroReply
  /\ taken' = ep3Buf /\ replies' = 0
  /\ pc' = "cmd"
  /\ UNCHANGED <<usb, flags, locals, machine, ask, cancelled, bootReason,
                 ioError, torn, bounds>>

(* Bridge_ProcessCommand reads fromPc four times.                          *)
LoadCmd ==
  /\ pc = "cmd"
  /\ hdr' = [hdr EXCEPT !.cmd = fromPc.cmd]
  /\ pc' = "seq"
  /\ UNCHANGED <<usb, flags, buffers, status, count, machine, history, bounds>>

LoadSeq ==
  /\ pc = "seq"
  /\ hdr' = [hdr EXCEPT !.seq = fromPc.seq]
  /\ pc' = "len"
  /\ UNCHANGED <<usb, flags, buffers, status, count, machine, history, bounds>>

LoadLen ==
  /\ pc = "len"
  /\ hdr' = [hdr EXCEPT !.len = fromPc.len]
  /\ pc' = "dispatch"
  /\ UNCHANGED <<usb, flags, buffers, status, count, machine, history, bounds>>

(* The magic byte is read last.                                            *)
Dispatch ==
  /\ pc = "dispatch"
  /\ hdr' = [hdr EXCEPT !.magic = fromPc.magic]
  /\ \/ /\ fromPc.magic = 0
        /\ status' = "BAD_MAGIC" /\ pc' = "finish"
     \/ /\ fromPc.magic = 1 /\ hdr.len > MaxPayload
        /\ status' = "BAD_PAYLOAD" /\ pc' = "finish"
     \/ /\ fromPc.magic = 1 /\ hdr.len <= MaxPayload
        /\ ~Resets(hdr.cmd, hdr.len)
        /\ status' \in HandlerStatus(hdr.cmd, hdr.len)
        /\ pc' = "finish"
     \/ /\ fromPc.magic = 1 /\ Resets(hdr.cmd, hdr.len)
        /\ status' = "OK"
        /\ pc' = IF hdr.cmd = "ENTER_IAP" THEN "erase" ELSE "request"
  /\ UNCHANGED <<usb, flags, buffers, count, machine, history, bounds>>

BugEraseChecksum ==   \* the result of FMC_Erase is not looked at
  /\ pc = "erase"
  /\ crcOk' \in {0, crcOk}
  /\ pc' = "request"
  /\ UNCHANGED <<usb, flags, buffers, locals, LastResetReason, mode, history,
                 bounds>>

(* Bridge_InvalidateApplicationChecksum: FMC_Erase erases the page, or is  *)
(* refused (ISPFF) and leaves it as it was, or gives up waiting for an     *)
(* erase that may still happen.                                            *)
EraseChecksum ==
  /\ pc = "erase"
  /\ \/ /\ crcOk' = 0
        /\ pc' = "request"
        /\ UNCHANGED <<status, ioError>>
     \/ /\ status' = "IO_ERROR" /\ pc' = "finish"
        /\ crcOk' \in {0, crcOk}
        /\ ioError' = 1
  /\ UNCHANGED <<usb, flags, buffers, hdr, count, LastResetReason, mode,
                 taken, ask, cancelled, replies, bootReason, torn, bounds>>

BugRequestReset ==    \* the MCU is reset from the handler
  /\ pc = "request"
  /\ LastResetReason' = IF hdr.cmd = "ENTER_IAP" THEN "ENTER_IAP" ELSE "CMD"
  /\ ask' = "accepted" /\ cancelled' = 0
  /\ pc' = "reset"
  /\ UNCHANGED <<usb, flags, buffers, locals, crcOk, mode, taken, replies,
                 bootReason, ioError, torn, bounds>>
BugRecordReason ==    \* the reason is recorded, the reset never asked for
  /\ pc = "request"
  /\ LastResetReason' = IF hdr.cmd = "ENTER_IAP" THEN "ENTER_IAP" ELSE "CMD"
  /\ ask' = "accepted" /\ cancelled' = 0
  /\ pc' = "finish"
  /\ UNCHANGED <<usb, flags, buffers, locals, crcOk, mode, taken, replies,
                 bootReason, ioError, torn, bounds>>
RequestReset ==
  /\ pc = "request"
  /\ LastResetReason' = IF hdr.cmd = "ENTER_IAP" THEN "ENTER_IAP" ELSE "CMD"
  /\ ResetRequested' = 1
  /\ ask' = "accepted" /\ cancelled' = 0
  /\ pc' = "finish"
  /\ UNCHANGED <<usb, CmdProcessReady, EP3Ready, ResetCountdown, buffers,
                 locals, crcOk, mode, taken, replies, bootReason, ioError, torn,
                 bounds>>

BugFinishResponse ==   \* the command and sequence byte are read again from fromPc
  /\ pc = "finish"
  /\ toPc' = Response(fromPc, status, LastResetReason)
  /\ pc' = "ready"
  /\ UNCHANGED <<usb, flags, fromPc, locals, machine, history, bounds>>

FinishResponse ==
  /\ pc = "finish"
  /\ toPc' = Response(hdr, status, LastResetReason)
  /\ pc' = "ready"
  /\ UNCHANGED <<usb, flags, fromPc, locals, machine, history, bounds>>

BugSetProcessReady ==  \* an early return for a foreign packet skips the re-arm
  /\ pc = "ready"
  /\ CmdProcessReady' = 1
  /\ pc' = IF status = "BAD_MAGIC" THEN "reply" ELSE "rearm"
  /\ UNCHANGED <<usb, EP3Ready, ResetRequested, ResetCountdown, buffers,
                 locals, machine, history, bounds>>
SetProcessReady ==
  /\ pc = "ready"
  /\ CmdProcessReady' = 1
  /\ pc' = "rearm"
  /\ UNCHANGED <<usb, EP3Ready, ResetRequested, ResetCountdown, buffers,
                 locals, machine, history, bounds>>

RearmOut ==
  /\ pc = "rearm"
  /\ ep3Armed' = 1
  /\ pc' = "reply"
  /\ UNCHANGED <<ep3Buf, ep2Armed, ep2Buf, flags, buffers, locals, machine,
                 history, bounds>>

-----------------------------------------------------------------------------
(* HidTool_SetInReport.                                                    *)

CheckReply ==
  /\ pc = "reply"
  /\ pc' = IF CmdProcessReady = 1 THEN "load" ELSE "test"
  /\ UNCHANGED <<usb, flags, buffers, locals, machine, history, bounds>>

LoadIn ==
  /\ pc = "load"
  /\ ep2Buf' = toPc
  /\ pc' = "arm"
  /\ UNCHANGED <<ep3Armed, ep3Buf, ep2Armed, flags, buffers, locals, machine,
                 history, bounds>>

BugReplyGiven == UNCHANGED CmdProcessReady /\ toPc' = ZeroReply
ReplyGiven == CmdProcessReady' = 0 /\ toPc' = ZeroReply

ArmIn ==
  /\ pc = "arm"
  /\ ep2Armed' = 1
  /\ ReplyGiven
  /\ replies' = replies + 1 /\ torn' = 0
  /\ ask' = IF ask = "accepted" THEN "replied" ELSE ask
  /\ pc' = "schedule"
  /\ UNCHANGED <<ep3Armed, ep3Buf, ep2Buf, EP3Ready, ResetRequested,
                 ResetCountdown, fromPc, locals, machine, taken, cancelled,
                 bootReason, ioError, bounds>>

BugCheckResetRequested ==   \* only RESET_MCU starts the countdown
  /\ pc = "schedule"
  /\ pc' = IF ResetRequested = 1 /\ hdr.cmd = "RESET_MCU" THEN "start" ELSE "test"
  /\ UNCHANGED <<usb, flags, buffers, locals, machine, history, bounds>>
CheckResetRequested ==
  /\ pc = "schedule"
  /\ pc' = IF ResetRequested = 1 THEN "start" ELSE "test"
  /\ UNCHANGED <<usb, flags, buffers, locals, machine, history, bounds>>

StartCountdown ==
  /\ pc = "start"
  /\ ResetCountdown' = Delay
  /\ pc' = "test"
  /\ UNCHANGED <<usb, CmdProcessReady, EP3Ready, ResetRequested, buffers,
                 locals, machine, history, bounds>>

-----------------------------------------------------------------------------
(* HidTool_Process, last part: the delayed reset.  --g_u32ResetCountdown   *)
(* is a load and a store, and wraps at zero.                               *)

BugDecremented(c) == c - 1
Decremented(c) == IF c = 0 THEN WordMax ELSE c - 1

TestCountdown ==
  /\ pc = "test"
  /\ pc' = IF ResetCountdown > 0 THEN "fetch" ELSE "poll"
  /\ UNCHANGED <<usb, flags, buffers, locals, machine, history, bounds>>

FetchCountdown ==
  /\ pc = "fetch"
  /\ count' = ResetCountdown
  /\ pc' = "store"
  /\ UNCHANGED <<usb, flags, buffers, hdr, status, machine, history, bounds>>

StoreCountdown ==
  /\ pc = "store"
  /\ ResetCountdown' = Decremented(count)
  /\ pc' = "expired"
  /\ UNCHANGED <<usb, CmdProcessReady, EP3Ready, ResetRequested, buffers,
                 locals, machine, history, bounds>>

CheckExpired ==
  /\ pc = "expired"
  /\ pc' = IF ResetCountdown = 0 THEN "reset" ELSE "poll"
  /\ UNCHANGED <<usb, flags, buffers, locals, machine, history, bounds>>

(* SYS_ResetChip, or the CPU reset to vector page 0: both start the        *)
(* bootloader, which enters the application when its checksum is right and *)
(* stays in ISP mode otherwise.  The application starts from its           *)
(* initialised data; HID_Init arms EP3.                                    *)
Restart(reason) ==
  /\ ep3Armed' = 1 /\ ep3Buf' = ZeroReport
  /\ ep2Armed' = 0 /\ ep2Buf' = ZeroReply
  /\ CmdProcessReady' = 0 /\ EP3Ready' = 0
  /\ ResetRequested' = 0 /\ ResetCountdown' = 0
  /\ LastResetReason' = "NONE"
  /\ toPc' = ZeroReply /\ fromPc' = ZeroReport
  /\ pc' = "poll"
  /\ hdr' = ZeroReport /\ status' = "OK" /\ count' = 0
  /\ taken' = ZeroReport /\ ask' = "none" /\ cancelled' = 0 /\ replies' = 0
  /\ bootReason' = reason /\ ioError' = 0 /\ torn' = 0
  /\ UNCHANGED bounds

ResetMcu ==
  /\ pc = "reset"
  /\ mode' = IF crcOk = 1 THEN "app" ELSE "isp"
  /\ Restart(LastResetReason)
  /\ UNCHANGED crcOk

(* The bootloader's ISP session ends with a new application, and a reset.  *)
Reflash ==
  /\ mode = "isp"
  /\ mode' = "app" /\ crcOk' = 1
  /\ Restart("NONE")

-----------------------------------------------------------------------------
MainLoop ==
  \/ Poll \/ CopyOut \/ LoadCmd \/ LoadSeq \/ LoadLen \/ Dispatch
  \/ EraseChecksum \/ RequestReset \/ FinishResponse \/ SetProcessReady \/ RearmOut
  \/ CheckReply \/ LoadIn \/ ArmIn \/ CheckResetRequested \/ StartCountdown
  \/ TestCountdown \/ FetchCountdown \/ StoreCountdown \/ CheckExpired
  \/ ResetMcu

Next ==
  \/ MainLoop
  \/ \E r \in Inputs : OnOutReady(r)
  \/ HostIn
  \/ ResetState
  \/ Reflash

Spec == Init /\ [][Next]_vars

(* The super-loop never blocks.  Nothing is assumed of the host.           *)
FairSpec == Spec /\ WF_vars(MainLoop)

-----------------------------------------------------------------------------
(* Properties.                                                             *)

(* Every variable stays in its range; the countdown in its word, although  *)
(* a bus reset may zero it between the test and the decrement.             *)
TypeOK ==
  /\ ep3Armed \in Bit /\ ep3Buf \in Report
  /\ ep2Armed \in Bit /\ ep2Buf \in Reply
  /\ CmdProcessReady \in Bit /\ EP3Ready \in Bit /\ ResetRequested \in Bit
  /\ ResetCountdown \in 0 .. WordMax
  /\ LastResetReason \in Reasons
  /\ toPc \in Reply /\ fromPc \in Report
  /\ pc \in Pcs
  /\ hdr \in Report /\ status \in Statuses /\ count \in 0 .. WordMax
  /\ crcOk \in Bit /\ mode \in {"app", "isp"}
  /\ taken \in Report /\ ask \in {"none", "accepted", "replied"}
  /\ cancelled \in Bit /\ replies \in Nat /\ bootReason \in Reasons
  /\ ioError \in Bit /\ torn \in Bit
  /\ packets \in 0 .. MaxPackets /\ busResets \in 0 .. MaxBusResets

Parsing == {"copy", "cmd", "seq", "len", "dispatch", "erase", "request",
            "finish", "ready", "rearm"}

(* EP3 is not armed while a packet waits in its buffer or is being worked  *)
(* on, so the controller cannot overwrite a request the loop still needs.  *)
OutBufferStable == EP3Ready = 1 \/ pc \in Parsing => ep3Armed = 0

(* EP2 is armed at most once for a request: a turn of the loop that took   *)
(* no packet never sends an old response again.                            *)
OneReplyPerRequest == replies <= 1

(* A response that says OK says the truth, whatever a bus reset did to the *)
(* buffers on the way: it names the request that was received, which had   *)
(* the right magic; ENTER_IAP really erased the checksum; and the reset    *)
(* is under way unless a bus reset cancelled it.  The one exception is a   *)
(* response that a bus reset cut while it was copied into EP2: its end is  *)
(* zeros, and a zero status reads OK.                                      *)
Truthful(r) ==
  r.magic = 1 /\ r.status = "OK" =>
    /\ taken.magic = 1 /\ r.cmd = taken.cmd /\ r.seq = taken.seq
    /\ r.cmd = "ENTER_IAP" => crcOk = 0
    /\ r.cmd \in {"RESET_MCU", "ENTER_IAP"} => ResetRequested = 1 \/ cancelled = 1

ReplyTruthful == pc = "arm" /\ torn = 0 => Truthful(ep2Buf)

(* The MCU is reset only after the response to the request was handed to   *)
(* EP2, and a reset into the bootloader's ISP mode only with the           *)
(* application's checksum erased, so that the bootloader stays there.      *)
ResetFollowsReply ==
  pc = "reset" => /\ ask = "replied"
                  /\ LastResetReason = "ENTER_IAP" => crcOk = 0

(* A bus reset outside the few lines of ResetWindow cancels the reset for  *)
(* good: nothing resets the MCU until a new request is accepted.           *)
BusResetCancels ==
  cancelled = 1 => ResetRequested = 0 /\ ResetCountdown = 0 /\ pc # "reset"

(* An application whose checksum was erased, and would not be started      *)
(* again, does not go on running: it is on its way to the reset, unless    *)
(* the erase was reported as failed or a bus reset cancelled the request.  *)
ErasedMeansLeaving ==
  mode = "app" /\ crcOk = 0 =>
    \/ pc = "request" \/ ResetRequested = 1
    \/ pc \in ResetWindow \/ ResetCountdown > 0
    \/ cancelled = 1 \/ ioError = 1

-----------------------------------------------------------------------------
(* The inductive invariant behind the safety properties: what each point   *)
(* of the loop knows about the variables the interrupt may have changed.   *)

Loading == {"cmd", "seq", "len", "dispatch"}

(* The packet taken is in hand, or a bus reset has zeroed its magic byte,  *)
(* which is read after what is loaded of it.                               *)
RequestInv ==
  /\ pc \in Parsing => EP3Ready = 0
  /\ pc \in Loading => fromPc.magic = 0 \/ fromPc = taken
  /\ pc \in Loading \ {"cmd"} /\ fromPc.magic = 1 => hdr.cmd = taken.cmd
  /\ pc \in {"len", "dispatch"} /\ fromPc.magic = 1 => hdr.seq = taken.seq
  /\ pc = "dispatch" /\ fromPc.magic = 1 => hdr.len = taken.len
  /\ pc \in {"erase", "request"} =>
       hdr = taken /\ taken.magic = 1 /\ status = "OK" /\ Resets(hdr.cmd, hdr.len)
  /\ pc = "erase" => hdr.cmd = "ENTER_IAP"
  /\ pc = "request" /\ hdr.cmd = "ENTER_IAP" => crcOk = 0
  /\ pc = "finish" /\ status = "OK" =>
       /\ hdr = taken /\ taken.magic = 1
       /\ hdr.cmd = "ENTER_IAP" => crcOk = 0
       /\ hdr.cmd \in {"RESET_MCU", "ENTER_IAP"} => ResetRequested = 1 \/ cancelled = 1

(* A response waits at most once, and is true while it waits.              *)
ReplyInv ==
  /\ Truthful(toPc)
  /\ \/ CmdProcessReady = 1
     \/ pc \in Loading \union {"erase", "request", "finish", "ready", "load", "arm"}
     => replies = 0

NothingScheduled == ResetRequested = 0 /\ ResetCountdown = 0

(* A countdown runs only for a request whose response was sent.            *)
ResetInv ==
  /\ LastResetReason = "ENTER_IAP" => crcOk = 0
  /\ pc \in ResetWindow => ask = "replied" /\ cancelled = 0
  /\ ask = "none" => NothingScheduled
  /\ ask = "accepted" =>
       \/ pc \in {"finish", "ready", "load", "arm"}
       \/ pc \in {"rearm", "reply"} /\ CmdProcessReady = 1
       \/ NothingScheduled

IInv ==
  /\ OutBufferStable /\ OneReplyPerRequest /\ ReplyTruthful
  /\ BusResetCancels /\ ErasedMeansLeaving
  /\ RequestInv /\ ReplyInv /\ ResetInv

-----------------------------------------------------------------------------
(* The dispatcher implements BridgeDevice.  The request is in EP3's        *)
(* buffer, then in fromPc, and leaves it for hdr field by field; what is   *)
(* left of it when a bus reset has zeroed fromPc is answered as if it had  *)
(* come like that.                                                         *)
Held ==
  CASE pc = "copy" -> {ep3Buf}
    [] pc = "cmd" -> {fromPc}
    [] pc = "seq" -> {[fromPc EXCEPT !.cmd = hdr.cmd]}
    [] pc = "len" -> {[hdr EXCEPT !.magic = fromPc.magic, !.len = fromPc.len]}
    [] pc = "dispatch" -> {[hdr EXCEPT !.magic = fromPc.magic]}
    [] pc \in {"erase", "request", "finish"} -> {hdr}
    [] OTHER -> IF EP3Ready = 1 THEN {ep3Buf} ELSE {}

Given ==
  CASE pc \in {"ready", "load"} -> {toPc}
    [] pc \in {"rearm", "reply"} -> IF CmdProcessReady = 1 THEN {toPc} ELSE {}
    [] pc = "arm" -> {ep2Buf}
    [] OTHER -> {}

Device == INSTANCE BridgeDevice WITH
            up <- mode = "app",
            held <- Held,
            given <- Given,
            offered <- IF ep2Armed = 1 THEN {ep2Buf} ELSE {},
            due <- ask = "replied" /\ cancelled = 0

(* What the mapping needs beside IInv: the status chosen is one the        *)
(* request may get, a response waits only between SetProcessReady and      *)
(* ArmIn, one of them promises the reset that was accepted, and the        *)
(* bootloader leaves the application's variables alone.                    *)
DeviceInv ==
  /\ pc = "finish" => \A r \in Held : status \in Verdicts(r)
  /\ CmdProcessReady = 1 => pc \in {"rearm", "reply", "load", "arm"}
  /\ ask = "accepted" /\ cancelled = 0 =>
       \/ pc = "finish" /\ status = "OK" /\ Resets(hdr.cmd, hdr.len)
       \/ \E a \in Given : Device!Promises(a)
  /\ mode = "isp" => pc = "poll" /\ EP3Ready = 0 /\ ep2Armed = 0 /\ ask = "none"

(* At its endpoints the firmware is a BridgeDevice: requests one at a      *)
(* time and in order, each answered once and for what it is, whatever bus  *)
(* resets fall between; an MCU reset only when one was promised.           *)
DeviceSpec == Device!Spec

-----------------------------------------------------------------------------
(* Liveness, and what the documentation says of GET_INFO.                  *)

(* A received packet is taken and EP3 armed again, unless a bus reset      *)
(* comes first.  (One that comes between the interrupt and the loop's turn *)
(* clears EP3Ready, and no code arms EP3 again.)                           *)
OutRearmed ==
  \A n \in 0 .. MaxBusResets :
    EP3Ready = 1 /\ busResets = n ~> ep3Armed = 1 \/ busResets > n

(* Once the host stops sending, an accepted reset happens, unless a bus    *)
(* reset cancels it: a later response starts the countdown again, but no   *)
(* countdown is lost.                                                      *)
ResetHappens == ResetRequested = 1 ~> ResetRequested = 0

(* After a reset the host asked for, GET_INFO reports that reset (README:  *)
(* "read the bridge name/version and reset reason").                       *)
GetInfoReportsReset ==
  ep2Armed = 1 /\ ep2Buf.cmd = "GET_INFO" /\ ep2Buf.status = "OK"
    /\ bootReason # "NONE" => ep2Buf.reason = bootReason
=============================================================================
