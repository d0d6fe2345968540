-------------------------- MODULE BridgeProtocol --------------------------
(***************************************************************************)
(* The reports host and firmware exchange (bridge_protocol.h), and what    *)
(* the firmware may answer to each.  Payloads are abstracted to their      *)
(* length, but for the reset reason in a GET_INFO response.                *)
(***************************************************************************)
EXTENDS Naturals

CONSTANT MaxSeq   \* largest sequence byte used

Cmds == {"PING", "GET_INFO", "RESET_MCU", "ENTER_IAP",
         "SGPIO_CONFIG", "SGPIO_APPLY", "SGPIO_STATUS", "SGPIO_OFF",
         "MONITOR_CONFIG", "MONITOR_ARM", "MONITOR_STATUS", "MONITOR_STOP",
         "UNKNOWN", "ZERO"}

Statuses == {"OK", "BAD_MAGIC", "BAD_COMMAND", "BAD_PAYLOAD", "IO_ERROR",
             "NOT_READY", "BUSY"}

Reasons == {"NONE", "CMD", "ENTER_IAP"}

MaxPayload == 58
Lens == 0 .. MaxPayload + 1     \* one value stands for every longer length

Bit == {0, 1}

(* A 64-byte report as the dispatcher looks at it.                         *)
Report == [magic : Bit, cmd : Cmds, seq : 0 .. MaxSeq, len : Lens]
ZeroReport == [magic |-> 0, cmd |-> "ZERO", seq |-> 0, len |-> 0]

(* A response, the all-zero buffer (magic 0) included; reason is the last  *)
(* byte of a GET_INFO payload.                                             *)
Reply == [magic : Bit, cmd : Cmds, seq : 0 .. MaxSeq, status : Statuses,
          reason : Reasons]
ZeroReply == [magic |-> 0, cmd |-> "ZERO", seq |-> 0, status |-> "OK",
              reason |-> "NONE"]

-----------------------------------------------------------------------------
(* The request lengths the handlers insist on; PING takes any.             *)
ExpectedLen(cmd) ==
  CASE cmd = "SGPIO_CONFIG" -> 5
    [] cmd = "SGPIO_APPLY" -> 11
    [] cmd = "MONITOR_CONFIG" -> 3
    [] OTHER -> 0

(* The statuses the three handlers may answer.  What a bridge module makes *)
(* of its command is that module's business: every refusal the dispatcher  *)
(* has an answer for is possible.                                          *)
HandlerStatus(cmd, len) ==
  IF cmd \in {"UNKNOWN", "ZERO"} THEN {"BAD_COMMAND"}
  ELSE IF cmd = "PING" THEN {"OK"}
  ELSE IF len # ExpectedLen(cmd) THEN {"BAD_PAYLOAD"}
  ELSE CASE cmd \in {"SGPIO_CONFIG", "SGPIO_APPLY", "SGPIO_STATUS", "SGPIO_OFF",
                     "MONITOR_STATUS", "MONITOR_STOP"} -> {"OK", "NOT_READY"}
         [] cmd = "MONITOR_CONFIG" -> {"OK", "BUSY", "BAD_PAYLOAD"}
         [] cmd = "MONITOR_ARM" -> {"OK", "BUSY"}
         [] OTHER -> {"OK"}

Resets(cmd, len) == cmd \in {"RESET_MCU", "ENTER_IAP"} /\ len = 0

(* The statuses a request may be answered with, ENTER_IAP's erase of the   *)
(* checksum page included.                                                 *)
Verdicts(r) ==
  IF r.magic = 0 THEN {"BAD_MAGIC"}
  ELSE IF r.len > MaxPayload THEN {"BAD_PAYLOAD"}
  ELSE IF r.cmd = "ENTER_IAP" /\ r.len = 0 THEN {"OK", "IO_ERROR"}
  ELSE HandlerStatus(r.cmd, r.len)

(* The response to request r with status s; n is the reset reason.         *)
Response(r, s, n) ==
  [magic |-> 1, cmd |-> r.cmd, seq |-> r.seq, status |-> s,
   reason |-> IF r.cmd = "GET_INFO" /\ s = "OK" THEN n ELSE "NONE"]

-----------------------------------------------------------------------------
(* Reports of which a bus reset zeroed a part: the bytes in front, which   *)
(* were written before it (Late...), or the bytes behind, which were       *)
(* copied from the zeroed buffer after it (Early...).                      *)
LateReport(r) ==
  {r, [r EXCEPT !.magic = 0], [r EXCEPT !.magic = 0, !.cmd = "ZERO"],
   [ZeroReport EXCEPT !.len = r.len], ZeroReport}

LateReply(a) ==
  {a, [a EXCEPT !.magic = 0], [a EXCEPT !.magic = 0, !.cmd = "ZERO"],
   [ZeroReply EXCEPT !.status = a.status, !.reason = a.reason],
   [ZeroReply EXCEPT !.reason = a.reason], ZeroReply}

EarlyReply(a) ==
  {a, [a EXCEPT !.reason = "NONE"], [a EXCEPT !.reason = "NONE", !.status = "OK"],
   [ZeroReply EXCEPT !.magic = a.magic, !.cmd = a.cmd],
   [ZeroReply EXCEPT !.magic = a.magic], ZeroReply}
=============================================================================
