--------------------------- MODULE HidToolProofs ---------------------------
(* Proofs about HidTool, for every value of its constants.                 *)
EXTENDS HidTool, TLAPS

(* The constant records are in their sets.                                 *)
LEMMA Zeros == ZeroReport \in Report /\ ZeroReply \in Reply
  BY HidToolAssumption DEF ZeroReport, ZeroReply, Report, Reply, Bit, Cmds, Lens,
     Statuses, Reasons, MaxPayload

(* A handler answers with a status of the protocol.                        *)
LEMMA HandlerStatusType ==
  ASSUME NEW c, NEW n
  PROVE  HandlerStatus(c, n) \subseteq Statuses
  BY DEF HandlerStatus, Statuses

(* The response FinishResponse builds is a Reply.                          *)
LEMMA ReplyType ==
  ASSUME NEW h \in Report, NEW s \in Statuses, NEW r \in Reasons
  PROVE  Response(h, s, r) \in Reply
  BY DEF Response, Report, Reply, Bit, Reasons

(* What a bus reset leaves of a report is a report.                        *)
LEMMA PartTypes ==
  /\ \A r \in Report : LateReport(r) \subseteq Report
  /\ \A a \in Reply : LateReply(a) \subseteq Reply /\ EarlyReply(a) \subseteq Reply
<1>1. ASSUME NEW r \in Report PROVE LateReport(r) \subseteq Report
  BY Zeros, HidToolAssumption DEF LateReport, ZeroReport, Report, Bit, Cmds, Lens, MaxPayload
<1>2. ASSUME NEW a \in Reply PROVE LateReply(a) \subseteq Reply
  BY Zeros, HidToolAssumption DEF LateReply, ZeroReply, Reply, Bit, Cmds, Statuses, Reasons
<1>3. ASSUME NEW a \in Reply PROVE EarlyReply(a) \subseteq Reply
  BY Zeros, HidToolAssumption DEF EarlyReply, ZeroReply, Reply, Bit, Cmds, Statuses, Reasons
<1> QED BY <1>1, <1>2, <1>3

(* A report written while a bus reset came is whole or lost its magic.     *)
Headless(q, r) ==
  /\ q.magic = 0 /\ q.cmd \in {r.cmd, "ZERO"}
  /\ q.seq \in {r.seq, 0} /\ q.len \in {r.len, 0}

LEMMA LateParts ==
  /\ \A r \in Report : \A q \in LateReport(r) : q = r \/ Headless(q, r)
  /\ \A a \in Reply : \A q \in LateReply(a) : q = a \/ q.magic = 0
<1>1. ASSUME NEW r \in Report, NEW q \in LateReport(r)
      PROVE  q = r \/ Headless(q, r)
  <2>1. CASE q = [r EXCEPT !.magic = 0]
    BY <2>1 DEF Headless, Report
  <2>2. CASE q = [r EXCEPT !.magic = 0, !.cmd = "ZERO"]
    BY <2>2 DEF Headless, Report
  <2>3. CASE q = [ZeroReport EXCEPT !.len = r.len] \/ q = ZeroReport
    BY <2>3 DEF Headless, ZeroReport
  <2> QED BY <2>1, <2>2, <2>3 DEF LateReport
<1>2. ASSUME NEW a \in Reply, NEW q \in LateReply(a) PROVE q = a \/ q.magic = 0
  <2>1. CASE q = [a EXCEPT !.magic = 0] \/ q = [a EXCEPT !.magic = 0, !.cmd = "ZERO"]
    BY <2>1 DEF Reply
  <2>2. CASE q = [ZeroReply EXCEPT !.status = a.status, !.reason = a.reason]
    BY <2>2 DEF ZeroReply
  <2>3. CASE q = [ZeroReply EXCEPT !.reason = a.reason] \/ q = ZeroReply
    BY <2>3 DEF ZeroReply
  <2> QED BY <2>1, <2>2, <2>3 DEF LateReply
<1> QED BY <1>1, <1>2

(* The initial state has every variable in its range.                      *)
LEMMA InitTypeOK == Init => TypeOK
  BY Zeros, HidToolAssumption
     DEF Init, TypeOK, Bit, Pcs, Reasons, Statuses

(* Every step keeps the variables in their ranges.                         *)
LEMMA NextTypeOK == TypeOK /\ [Next]_vars => TypeOK'
<1> SUFFICES ASSUME TypeOK, [Next]_vars PROVE TypeOK'
  OBVIOUS
<1> USE HidToolAssumption DEF TypeOK, Bit, usb, flags, buffers, locals, machine,
        history, bounds
<1>1. CASE Poll
  BY <1>1 DEF Poll, Pcs
<1>2. CASE CopyOut
  BY <1>2, Zeros DEF CopyOut, Pcs
<1>3. CASE LoadCmd
  BY <1>3 DEF LoadCmd, Pcs, Report
<1>25. CASE LoadSeq
  BY <1>25 DEF LoadSeq, Pcs, Report
<1>26. CASE LoadLen
  BY <1>26 DEF LoadLen, Pcs, Report
<1>4. CASE Dispatch
  <2>1. status' \in Statuses
    BY <1>4, HandlerStatusType DEF Dispatch, Statuses
  <2>2. pc' \in Pcs
    BY <1>4 DEF Dispatch, Pcs
  <2>3. hdr' \in Report
    BY <1>4 DEF Dispatch, Report
  <2> QED
    BY <1>4, <2>1, <2>2, <2>3 DEF Dispatch
<1>5. CASE EraseChecksum
  BY <1>5 DEF EraseChecksum, Pcs, Statuses
<1>6. CASE RequestReset
  BY <1>6 DEF RequestReset, Pcs, Reasons
<1>7. CASE FinishResponse
  <2>1. toPc' \in Reply
    BY <1>7, ReplyType DEF FinishResponse, Reasons
  <2> QED
    BY <1>7, <2>1 DEF FinishResponse, Pcs
<1>8. CASE SetProcessReady
  BY <1>8 DEF SetProcessReady, Pcs
<1>9. CASE RearmOut
  BY <1>9 DEF RearmOut, Pcs
<1>10. CASE CheckReply
  BY <1>10 DEF CheckReply, Pcs
<1>11. CASE LoadIn
  BY <1>11 DEF LoadIn, Pcs
<1>12. CASE ArmIn
  BY <1>12, Zeros DEF ArmIn, ReplyGiven, Pcs
<1>13. CASE CheckResetRequested
  BY <1>13 DEF CheckResetRequested, Pcs
<1>14. CASE StartCountdown
  BY <1>14 DEF StartCountdown, Pcs
<1>15. CASE TestCountdown
  BY <1>15 DEF TestCountdown, Pcs
<1>16. CASE FetchCountdown
  BY <1>16 DEF FetchCountdown, Pcs
<1>17. CASE StoreCountdown
  BY <1>17 DEF StoreCountdown, Decremented, Pcs
<1>18. CASE CheckExpired
  BY <1>18 DEF CheckExpired, Pcs
<1>19. CASE ResetMcu
  BY <1>19, Zeros DEF ResetMcu, Restart, Pcs, Statuses, Reasons
<1>20. ASSUME NEW r \in Inputs, OnOutReady(r) PROVE TypeOK'
  BY <1>20 DEF OnOutReady
<1>21. CASE HostIn
  BY <1>21 DEF HostIn
<1>22. CASE ResetState
  <2>1. fromPc' \in Report /\ toPc' \in Reply /\ ep2Buf' \in Reply
    BY <1>22, Zeros, PartTypes DEF ResetState
  <2> QED
    BY <1>22, <2>1 DEF ResetState, CancelReset
<1>23. CASE Reflash
  BY <1>23, Zeros DEF Reflash, Restart, Pcs, Statuses, Reasons
<1>24. CASE UNCHANGED vars
  BY <1>24 DEF vars
<1> QED
  BY <1>1, <1>2, <1>3, <1>4, <1>5, <1>6, <1>7, <1>8, <1>9, <1>10, <1>11, <1>12,
     <1>13, <1>14, <1>15, <1>16, <1>17, <1>18, <1>19, <1>20, <1>21, <1>22, <1>23,
     <1>24, <1>25, <1>26 DEF Next, MainLoop

(* Type correctness of the dispatcher, the wrapped countdown included.     *)
THEOREM TypeCorrect == Spec => []TypeOK
<1>1. QED
  BY InitTypeOK, NextTypeOK, PTL DEF Spec

-----------------------------------------------------------------------------
(* The safety properties.  RequestInv follows the packet through the loop, *)
(* ReplyInv the response, ResetInv the reset request; each interrupt step  *)
(* keeps them because it zeroes what it takes back.                        *)

(* The invariant holds initially.                                          *)
LEMMA InitIInv == Init => IInv
  BY DEF Init, IInv, OutBufferStable, OneReplyPerRequest, ReplyTruthful,
     BusResetCancels, ErasedMeansLeaving, RequestInv, Loading, ReplyInv, ResetInv,
     Truthful, NothingScheduled, Parsing, ResetWindow, ZeroReport, ZeroReply

(* Every step keeps the invariant.                                         *)
LEMMA NextIInv == TypeOK /\ IInv /\ [Next]_vars => IInv'
<1> SUFFICES ASSUME TypeOK, IInv, [Next]_vars PROVE IInv'
  OBVIOUS
<1> USE HidToolAssumption DEF TypeOK, IInv, OutBufferStable, OneReplyPerRequest,
        ReplyTruthful, BusResetCancels, ErasedMeansLeaving, RequestInv, ReplyInv,
        Loading, ResetInv, Truthful, NothingScheduled, Parsing, ResetWindow, Bit, usb,
        flags, buffers, locals, machine, history, bounds
<1>1. CASE Poll
  BY <1>1 DEF Poll
<1>2. CASE CopyOut
  BY <1>2 DEF CopyOut, ZeroReply
<1>3. CASE LoadCmd
  BY <1>3 DEF LoadCmd, Report
<1>25. CASE LoadSeq
  BY <1>25 DEF LoadSeq, Report
<1>26. CASE LoadLen
  BY <1>26 DEF LoadLen, Report
<1>4. CASE Dispatch
  <2>0. fromPc.magic = 1 => hdr' = taken /\ taken.magic = 1
    BY <1>4 DEF Dispatch, Report
  <2>1. CASE fromPc.magic = 0
    BY <1>4, <2>1 DEF Dispatch, Resets
  <2>2. CASE fromPc.magic = 1 /\ hdr.len > MaxPayload
    <3>1. ~Resets(hdr.cmd, hdr.len)
      BY <2>2 DEF Resets, Report, Lens, MaxPayload
    <3>2. pc' = "finish" /\ status' = "BAD_PAYLOAD"
      BY <1>4, <2>2, <3>1 DEF Dispatch, Report, Lens, MaxPayload
    <3> QED
      BY <1>4, <3>2 DEF Dispatch
  <2>3. CASE fromPc.magic = 1 /\ hdr.len <= MaxPayload /\ ~Resets(hdr.cmd, hdr.len)
    <3>1. hdr' = taken /\ hdr.cmd = taken.cmd /\ taken.magic = 1
      BY <1>4, <2>0, <2>3 DEF Dispatch
    <3>2. hdr.cmd \in {"RESET_MCU", "ENTER_IAP"} => status' # "OK"
      BY <1>4, <2>3 DEF Dispatch, HandlerStatus, Resets, ExpectedLen
    <3>3. pc' = "finish" /\ taken' = taken
      BY <1>4, <2>3 DEF Dispatch
    <3> QED
      BY <1>4, <2>3, <3>1, <3>2, <3>3 DEF Dispatch
  <2>4. CASE fromPc.magic = 1 /\ Resets(hdr.cmd, hdr.len)
    <3>1. hdr' = taken /\ hdr'.cmd = hdr.cmd /\ hdr'.len = hdr.len /\ taken.magic = 1
      BY <1>4, <2>0, <2>4 DEF Dispatch, Report
    <3>2. /\ status' = "OK" /\ taken' = taken
          /\ pc' = IF hdr.cmd = "ENTER_IAP" THEN "erase" ELSE "request"
      BY <1>4, <2>4 DEF Dispatch, Resets, MaxPayload
    <3> QED
      BY <1>4, <2>4, <3>1, <3>2 DEF Dispatch, Resets
  <2> QED
    BY <1>4, <2>1, <2>2, <2>3, <2>4 DEF Dispatch
<1>5. CASE EraseChecksum
  BY <1>5 DEF EraseChecksum
<1>6. CASE RequestReset
  BY <1>6 DEF RequestReset
<1>7. CASE FinishResponse
  BY <1>7 DEF FinishResponse, Response
<1>8. CASE SetProcessReady
  BY <1>8 DEF SetProcessReady
<1>9. CASE RearmOut
  BY <1>9 DEF RearmOut
<1>10. CASE CheckReply
  BY <1>10 DEF CheckReply
<1>11. CASE LoadIn
  BY <1>11 DEF LoadIn
<1>12. CASE ArmIn
  BY <1>12 DEF ArmIn, ReplyGiven, ZeroReply
<1>13. CASE CheckResetRequested
  BY <1>13 DEF CheckResetRequested
<1>14. CASE StartCountdown
  BY <1>14 DEF StartCountdown
<1>15. CASE TestCountdown
  BY <1>15 DEF TestCountdown
<1>16. CASE FetchCountdown
  BY <1>16 DEF FetchCountdown
<1>17. CASE StoreCountdown
  BY <1>17 DEF StoreCountdown, Decremented
<1>18. CASE CheckExpired
  BY <1>18 DEF CheckExpired
<1>19. CASE ResetMcu
  BY <1>19 DEF ResetMcu, Restart, ZeroReply
<1>20. ASSUME NEW r \in Inputs, OnOutReady(r) PROVE IInv'
  BY <1>20 DEF OnOutReady
<1>21. CASE HostIn
  BY <1>21 DEF HostIn
<1>22. CASE ResetState
  <2>1. fromPc'.magic = 0 \/ (pc = "cmd" /\ fromPc' = fromPc)
    <3>1. fromPc' \in IF pc = "cmd" THEN LateReport(fromPc) ELSE {ZeroReport}
      BY <1>22 DEF ResetState
    <3> QED BY <3>1, LateParts DEF Headless, ZeroReport
  <2>2. toPc'.magic = 0 \/ (pc = "ready" /\ toPc' = toPc)
    <3>1. toPc' \in IF pc = "ready" THEN LateReply(toPc) ELSE {ZeroReply}
      BY <1>22 DEF ResetState
    <3> QED BY <3>1, LateParts DEF ZeroReply
  <2>3. Truthful(toPc)'
    BY <1>22, <2>2 DEF ResetState, CancelReset
  <2>4. torn' = 0 => ep2Buf' = ep2Buf /\ torn = 0
    BY <1>22 DEF ResetState
  <2> QED
    BY <1>22, <2>1, <2>3, <2>4 DEF ResetState, CancelReset, Loading
<1>23. CASE Reflash
  BY <1>23 DEF Reflash, Restart, ZeroReply
<1>24. CASE UNCHANGED vars
  BY <1>24 DEF vars
<1> QED
  BY <1>1, <1>2, <1>3, <1>4, <1>5, <1>6, <1>7, <1>8, <1>9, <1>10, <1>11, <1>12, <1>13, <1>14, <1>15, <1>16, <1>17, <1>18, <1>19, <1>20, <1>21, <1>22, <1>23, <1>24, <1>25, <1>26 DEF Next, MainLoop

(* The inductive invariant holds in every reachable state.                 *)
THEOREM Safety == Spec => []IInv
<1>1. QED
  BY InitTypeOK, NextTypeOK, InitIInv, NextIInv, PTL DEF Spec

(* The controller never overwrites a request still needed (EP3 buffer).    *)
THEOREM OutBufferIsStable == Spec => []OutBufferStable
<1>1. QED
  BY Safety, PTL DEF IInv

(* EP2 is armed at most once for a request.                                *)
THEOREM AtMostOneReply == Spec => []OneReplyPerRequest
<1>1. QED
  BY Safety, PTL DEF IInv

(* An OK response handed to EP2 is true, whatever bus resets intervened.   *)
THEOREM RepliesAreTruthful == Spec => []ReplyTruthful
<1>1. QED
  BY Safety, PTL DEF IInv

(* A bus reset outside ResetWindow cancels the reset request for good.     *)
THEOREM BusResetReallyCancels == Spec => []BusResetCancels
<1>1. QED
  BY Safety, PTL DEF IInv

(* An application without a checksum is on its way to the reset.           *)
THEOREM ErasedIsLeaving == Spec => []ErasedMeansLeaving
<1>1. QED
  BY Safety, PTL DEF IInv

(* The MCU is reset only for a request whose response was handed to EP2,   *)
(* and into ISP mode only with the checksum erased.                        *)
THEOREM ResetAfterReply == Spec => []ResetFollowsReply
<1>1. IInv => ResetFollowsReply
  BY DEF IInv, ResetInv, ResetFollowsReply, ResetWindow
<1>2. QED
  BY <1>1, Safety, PTL

-----------------------------------------------------------------------------
(* The refinement.                                                         *)

(* A request without its magic byte is what a bus reset may leave.         *)
LEMMA RemainsHas ==
  ASSUME NEW r \in Report, NEW q \in Report, q.magic = 0,
         q.cmd \in {r.cmd, "ZERO"}, q.seq \in {r.seq, 0}, q.len \in {r.len, 0}
  PROVE  {q} \in Device!Remains(r)
<1>1. q \in [magic : {0}, cmd : {r.cmd, "ZERO"}, seq : {r.seq, 0}, len : {r.len, 0}]
  BY DEF Report
<1> QED BY <1>1 DEF Device!Remains

(* What the mapping needs holds initially.                                 *)
LEMMA InitDeviceInv == Init => DeviceInv
  BY DEF Init, DeviceInv

(* Every step keeps what the mapping needs.                                *)
LEMMA NextDeviceInv == TypeOK /\ IInv /\ DeviceInv /\ [Next]_vars => DeviceInv'
<1> SUFFICES ASSUME TypeOK, IInv, DeviceInv, [Next]_vars PROVE DeviceInv'
  OBVIOUS
<1> USE HidToolAssumption DEF TypeOK, DeviceInv, Held, Given, Device!Promises, Bit, usb,
        flags, buffers, locals, machine, history, bounds
<1>1. CASE Poll
  BY <1>1 DEF Poll
<1>2. CASE CopyOut
  BY <1>2 DEF CopyOut
<1>3. CASE LoadCmd
  BY <1>3 DEF LoadCmd
<1>25. CASE LoadSeq
  BY <1>25 DEF LoadSeq
<1>26. CASE LoadLen
  BY <1>26 DEF LoadLen
<1>4. CASE Dispatch
  <2>1. /\ pc = "dispatch" /\ pc' \in {"finish", "erase", "request"}
        /\ hdr'.magic = fromPc.magic /\ hdr'.cmd = hdr.cmd /\ hdr'.len = hdr.len
        /\ UNCHANGED <<CmdProcessReady, ask, cancelled, mode>>
    BY <1>4 DEF Dispatch, Report
  <2>2. ASSUME pc' = "finish" PROVE status' \in Verdicts(hdr')
    <3>1. CASE fromPc.magic = 0
      BY <1>4, <2>1, <2>2, <3>1 DEF Dispatch, Verdicts
    <3>2. CASE fromPc.magic = 1 /\ hdr.len > MaxPayload
      BY <1>4, <2>1, <2>2, <3>2 DEF Dispatch, Verdicts, Resets, Report, Lens, MaxPayload
    <3>3. CASE fromPc.magic = 1 /\ ~(hdr.len > MaxPayload)
      BY <1>4, <2>1, <2>2, <3>3 DEF Dispatch, Verdicts, Resets
    <3> QED BY <3>1, <3>2, <3>3 DEF Report
  <2> QED BY <2>1, <2>2
<1>5. CASE EraseChecksum
  BY <1>5 DEF EraseChecksum, Verdicts, Resets, IInv, RequestInv, MaxPayload
<1>6. CASE RequestReset
  BY <1>6 DEF RequestReset, Verdicts, Resets, IInv, RequestInv, MaxPayload, HandlerStatus, ExpectedLen
<1>7. CASE FinishResponse
  BY <1>7 DEF FinishResponse, Response, Resets
<1>8. CASE SetProcessReady
  BY <1>8 DEF SetProcessReady
<1>9. CASE RearmOut
  BY <1>9 DEF RearmOut
<1>10. CASE CheckReply
  BY <1>10 DEF CheckReply
<1>11. CASE LoadIn
  BY <1>11 DEF LoadIn
<1>12. CASE ArmIn
  BY <1>12 DEF ArmIn, ReplyGiven
<1>13. CASE CheckResetRequested
  BY <1>13 DEF CheckResetRequested
<1>14. CASE StartCountdown
  BY <1>14 DEF StartCountdown
<1>15. CASE TestCountdown
  BY <1>15 DEF TestCountdown
<1>16. CASE FetchCountdown
  BY <1>16 DEF FetchCountdown
<1>17. CASE StoreCountdown
  BY <1>17 DEF StoreCountdown
<1>18. CASE CheckExpired
  BY <1>18 DEF CheckExpired
<1>19. CASE ResetMcu
  BY <1>19 DEF ResetMcu, Restart
<1>20. ASSUME NEW r \in Inputs, OnOutReady(r) PROVE DeviceInv'
  BY <1>20 DEF OnOutReady, IInv, OutBufferStable, Parsing
<1>21. CASE HostIn
  BY <1>21 DEF HostIn
<1>22. CASE ResetState
  BY <1>22 DEF ResetState, CancelReset, ResetWindow
<1>23. CASE Reflash
  BY <1>23 DEF Reflash, Restart
<1>24. CASE UNCHANGED vars
  BY <1>24 DEF vars
<1> QED
  BY <1>1, <1>2, <1>3, <1>4, <1>5, <1>6, <1>7, <1>8, <1>9, <1>10, <1>11, <1>12, <1>13, <1>14, <1>15, <1>16, <1>17, <1>18, <1>19, <1>20, <1>21, <1>22, <1>23, <1>24, <1>25, <1>26 DEF Next, MainLoop

(* Every step of the code is one step of BridgeDevice or none.             *)
LEMMA StepRefines ==
  TypeOK /\ IInv /\ DeviceInv /\ [Next]_vars => [Device!Next]_Device!vars
<1> SUFFICES ASSUME TypeOK, IInv, DeviceInv, [Next]_vars
             PROVE  [Device!Next]_Device!vars
  OBVIOUS
<1> USE DEF TypeOK, DeviceInv, Held, Given, Device!vars, Bit, usb, flags, buffers, locals,
        machine, history, bounds
<1>1. CASE Poll
  BY <1>1 DEF Poll
<1>2. CASE CopyOut
  BY <1>2 DEF CopyOut
<1>3. CASE LoadCmd
  BY <1>3 DEF LoadCmd, Report
<1>25. CASE LoadSeq
  BY <1>25 DEF LoadSeq, Report
<1>26. CASE LoadLen
  BY <1>26 DEF LoadLen, Report
<1>4. CASE Dispatch
  BY <1>4 DEF Dispatch, Report
<1>5. CASE EraseChecksum
  BY <1>5 DEF EraseChecksum, IInv, RequestInv
<1>6. CASE RequestReset
  <2>1. /\ Held = {hdr} /\ Held' = {hdr} /\ Given = {} /\ Given' = {}
        /\ hdr.magic = 1 /\ Resets(hdr.cmd, hdr.len)
        /\ UNCHANGED <<mode, ep2Armed, ep2Buf, busResets>> /\ ask' = "accepted"
    BY <1>6 DEF RequestReset, IInv, RequestInv
  <2>2. Device!Postpone
    BY <2>1 DEF Device!Postpone, Device!Resets, Resets
  <2> QED BY <2>2 DEF Device!Next
<1>7. CASE FinishResponse
  <2>1. Held = {hdr} /\ Held' = {} /\ Given = {} /\ Given' = {Response(hdr, status, LastResetReason)}
    BY <1>7 DEF FinishResponse, IInv, RequestInv, Parsing
  <2>2. Response(hdr, status, LastResetReason) = Device!Response(hdr, status, LastResetReason)
    BY DEF Response, Device!Response
  <2>3. status \in Device!Verdicts(hdr)
    <3>1. status \in Verdicts(hdr)
      BY <1>7, <2>1 DEF FinishResponse
    <3> QED BY <3>1 DEF Verdicts, Device!Verdicts, HandlerStatus, Device!HandlerStatus, ExpectedLen,
                Device!ExpectedLen, MaxPayload, Device!MaxPayload
  <2>4. LastResetReason \in Device!Reasons
    BY DEF Reasons, Device!Reasons
  <2>5. UNCHANGED <<mode, ep2Armed, ep2Buf, ask, cancelled, busResets>>
    BY <1>7 DEF FinishResponse
  <2>6. Device!Answer(hdr)
    BY <2>1, <2>2, <2>3, <2>4, <2>5 DEF Device!Answer
  <2> QED BY <2>1, <2>6 DEF Device!Next
<1>8. CASE SetProcessReady
  BY <1>8 DEF SetProcessReady
<1>9. CASE RearmOut
  BY <1>9 DEF RearmOut
<1>10. CASE CheckReply
  BY <1>10 DEF CheckReply
<1>11. CASE LoadIn
  BY <1>11 DEF LoadIn, Device!Next, Device!Offer
<1>12. CASE ArmIn
  BY <1>12 DEF ArmIn, ReplyGiven, Device!Next, Device!Offer
<1>13. CASE CheckResetRequested
  BY <1>13 DEF CheckResetRequested
<1>14. CASE StartCountdown
  BY <1>14 DEF StartCountdown
<1>15. CASE TestCountdown
  BY <1>15 DEF TestCountdown
<1>16. CASE FetchCountdown
  BY <1>16 DEF FetchCountdown
<1>17. CASE StoreCountdown
  BY <1>17 DEF StoreCountdown
<1>18. CASE CheckExpired
  BY <1>18 DEF CheckExpired
<1>19. CASE ResetMcu
  BY <1>19 DEF ResetMcu, Restart, IInv, ResetInv, ResetWindow, Device!Next, Device!Restart
<1>20. ASSUME NEW r \in Inputs, OnOutReady(r) PROVE [Device!Next]_Device!vars
  BY <1>20 DEF OnOutReady, IInv, OutBufferStable, Parsing, Device!Next, Device!Accept
<1>21. CASE HostIn
  BY <1>21 DEF HostIn, Device!Next, Device!Fetch
<1>22. CASE ResetState
  <2>1. /\ pc' = pc /\ hdr' = hdr /\ ep3Buf' = ep3Buf /\ mode = "app" /\ mode' = mode
        /\ CmdProcessReady' = 0 /\ EP3Ready' = 0
        /\ fromPc' \in IF pc = "cmd" THEN LateReport(fromPc) ELSE {ZeroReport}
        /\ toPc' \in IF pc = "ready" THEN LateReply(toPc) ELSE {ZeroReply}
        /\ ep2Buf' \in IF pc = "arm" THEN EarlyReply(ep2Buf) ELSE {ep2Buf}
        /\ busResets < MaxBusResets /\ busResets' = busResets + 1
        /\ UNCHANGED <<ep2Armed, ask>> /\ cancelled' \in {cancelled, 1}
    BY <1>22 DEF ResetState
  <2>2. Held' = Held \/ \E r \in Held : Held' \in Device!Remains(r)
    <3>1. CASE pc = "cmd"
      <4>1. Held = {fromPc} /\ Held' = {fromPc'}
        BY <2>1, <3>1
      <4>2. CASE fromPc' = fromPc
        BY <4>1, <4>2
      <4>3. CASE fromPc' # fromPc
        <5>1. /\ fromPc' \in Report /\ fromPc'.magic = 0 /\ fromPc'.cmd \in {fromPc.cmd, "ZERO"}
              /\ fromPc'.seq \in {fromPc.seq, 0} /\ fromPc'.len \in {fromPc.len, 0}
          BY <2>1, <3>1, <4>3, PartTypes, LateParts DEF Headless
        <5> QED BY <4>1, <5>1, RemainsHas
      <4> QED BY <4>2, <4>3
    <3>2. CASE pc \in {"seq", "len", "dispatch"}
      <4> DEFINE r == CASE pc = "seq" -> [fromPc EXCEPT !.cmd = hdr.cmd]
                        [] pc = "len" -> [hdr EXCEPT !.magic = fromPc.magic, !.len = fromPc.len]
                        [] OTHER -> [hdr EXCEPT !.magic = fromPc.magic]
                 q == CASE pc = "seq" -> [ZeroReport EXCEPT !.cmd = hdr.cmd]
                        [] pc = "len" -> [hdr EXCEPT !.magic = 0, !.len = 0]
                        [] OTHER -> [hdr EXCEPT !.magic = 0]
      <4>1. fromPc' = ZeroReport
        BY <2>1, <3>2
      <4>2. Held = {r} /\ Held' = {q}
        BY <2>1, <3>2, <4>1 DEF ZeroReport
      <4>3. r \in Report /\ q \in Report
        BY <3>2, Zeros DEF Report, ZeroReport, Lens, MaxPayload
      <4>4. q.magic = 0 /\ q.cmd \in {r.cmd, "ZERO"} /\ q.seq \in {r.seq, 0} /\ q.len \in {r.len, 0}
        BY <3>2 DEF Report, ZeroReport
      <4>5. {q} \in Device!Remains(r)
        BY <4>3, <4>4, RemainsHas
      <4> QED BY <4>2, <4>5
    <3>3. CASE pc \notin Loading
      BY <2>1, <3>3 DEF Device!Remains, Loading
    <3> QED BY <3>1, <3>2, <3>3 DEF Loading
  <2>3. Given' = Given \/ \E a \in Given : Given' \in Device!ReplyRemains(a)
    <3>1. CASE pc = "ready"
      BY <2>1, <3>1 DEF Device!ReplyRemains, LateReply, Device!LateReply, ZeroReply, Device!ZeroReply
    <3>2. CASE pc = "load"
      BY <2>1, <3>2 DEF Device!ReplyRemains, Device!LateReply, ZeroReply, Device!ZeroReply
    <3>3. CASE pc = "arm"
      BY <2>1, <3>3 DEF Device!ReplyRemains, EarlyReply, Device!EarlyReply, ZeroReply, Device!ZeroReply
    <3>4. CASE pc \notin {"ready", "load", "arm"}
      BY <2>1, <3>4 DEF Device!ReplyRemains
    <3> QED BY <3>1, <3>2, <3>3, <3>4
  <2>4. (ask' = "replied" /\ cancelled' = 0) \in {ask = "replied" /\ cancelled = 0, FALSE}
    BY <2>1
  <2> DEFINE offered == IF ep2Armed = 1 THEN {ep2Buf} ELSE {}
  <2>5. offered' = offered \/ (offered # {} /\ offered = Given /\ offered' = Given')
    BY <2>1
  <2>6. Device!BusReset
    BY <2>1, <2>2, <2>3, <2>4, <2>5 DEF Device!BusReset
  <2> QED BY <2>6 DEF Device!Next
<1>23. CASE Reflash
  <2>1. Held = {} /\ Held' = {} /\ Given = {} /\ Given' = {}
    BY <1>23 DEF Reflash, Restart
  <2>2. ep2Armed = 0 /\ ep2Armed' = 0 /\ mode = "isp" /\ mode' = "app" /\ busResets' = busResets
    BY <1>23 DEF Reflash, Restart
  <2>3. ~(ask = "replied" /\ cancelled = 0) /\ ask' = "none"
    BY <1>23 DEF Reflash, Restart
  <2>4. Device!Return
    BY <2>1, <2>2, <2>3 DEF Device!Return
  <2> QED BY <2>4 DEF Device!Next
<1>24. CASE UNCHANGED vars
  BY <1>24 DEF vars
<1> QED
  BY <1>1, <1>2, <1>3, <1>4, <1>5, <1>6, <1>7, <1>8, <1>9, <1>10, <1>11, <1>12, <1>13, <1>14, <1>15, <1>16, <1>17, <1>18, <1>19, <1>20, <1>21, <1>22, <1>23, <1>24, <1>25, <1>26 DEF Next, MainLoop

(* The dispatcher implements BridgeDevice.                                 *)
THEOREM Refinement == Spec => DeviceSpec
<1>1. Init => Device!Init
  BY DEF Init, Held, Given, Device!Init
<1>2. QED
  BY <1>1, InitTypeOK, NextTypeOK, InitIInv, NextIInv, InitDeviceInv, NextDeviceInv, StepRefines,
     PTL DEF Spec, DeviceSpec, Device!Spec
=============================================================================
