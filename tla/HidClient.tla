----------------------------- MODULE HidClient -----------------------------
(***************************************************************************)
(* The host's transport (hid_bridge_client.cpp): one synchronous call at a *)
(* time over a HID handle, with a timeout for the write and one for the    *)
(* answer, and a device behind it that may be late, be reset or vanish.    *)
(*                                                                         *)
(* A call that timed out is over for the caller only.  Its request or its  *)
(* answer may still be on the way, and at says where: each report is known *)
(* by the number of its call, and all of them keep their order, so a queue *)
(* is the set of reports at that place, its head the one with the least    *)
(* number.  A frame is its command, its sequence byte and, in a response,  *)
(* whether its status is OK; HidTool shows what the firmware puts there.   *)
(***************************************************************************)
EXTENDS Naturals, FiniteSets

CONSTANTS
  Cmds,         \* commands a caller sends
  SeqMod,       \* seq_ counts modulo this (256)
  RingSize,     \* HidD_SetNumInputBuffers (64)
  MaxCalls,     \* bound: calls
  MaxConnects,  \* bound: Connect and Disconnect
  MaxResets     \* bound: times the device is reset or unplugged

ASSUME ClientAssumption ==
  /\ SeqMod \in Nat /\ SeqMod > 1
  /\ RingSize \in Nat \ {0}
  /\ MaxCalls \in Nat /\ MaxConnects \in Nat /\ MaxResets \in Nat

VARIABLES
  \* HidBridgeClient
  handle,       \* handle_: "null", "open", or "dead" once its device has gone
  seq,          \* seq_
  pc,           \* "idle", or in a call: "write" (WriteFile), "read" (ReadFrame)
  outcome,      \* of the last call: "none" | "ok" | "refused" | "failed"
  orphans,      \* cancelled reads the driver has not completed yet
  early,        \* reports of which the handle's ring holds a copy, beside the
                \* report itself, which is elsewhere or further back in it
  \* the reports, by call
  call,         \* calls begun
  cmdOf, seqOf, \* their command and sequence bytes
  at,           \* where the report of each is
  \* history
  base,         \* last call of the earlier connections
  from,         \* the call whose answer the last call took for its own
  processed,    \* requests the firmware has processed
  done,         \* those of them it answered with OK
  stolen,       \* the last call whose answer a cancelled read took
  \* bounds
  connects, resets

client == <<handle, seq, pc, outcome>>
driver == <<orphans, early>>
frames == <<call, cmdOf, seqOf>>
device == <<processed, done>>
bounds == <<connects, resets>>
vars == <<client, driver, frames, at, base, from, device, stolen, bounds>>

Ids == 1 .. MaxCalls

(* Where a report can be.  Up to "ep3" it is a request, then a response.   *)
Places == {"unused",
           "out",    \* a write the driver holds, the device has not taken it
           "ep3",    \* in the firmware's OUT buffer
           "work",   \* processed, response not yet in EP2
           "ep2",    \* in the firmware's IN buffer
           "ring",   \* in the handle's ring of input reports
           "taken",  \* read by ReadFrame
           "lost"}

At(place) == {i \in Ids : at[i] = place}
IsFirst(i, place) == at[i] = place /\ \A j \in At(place) : i <= j
InFlight(i) == at[i] \in {"out", "ep3", "work", "ep2", "ring"}
OnTheWay(i) == InFlight(i) \/ i \in early

Ring == At("ring") \union early

Init ==
  /\ handle = "null" /\ seq = 1 /\ pc = "idle" /\ outcome = "none"
  /\ orphans = 0 /\ early = {}
  /\ call = 0
  /\ cmdOf = [i \in Ids |-> "none"]
  /\ seqOf = [i \in Ids |-> 0]
  /\ at = [i \in Ids |-> "unused"]
  /\ base = 0 /\ from = 0
  /\ processed = {} /\ done = {} /\ stolen = 0
  /\ connects = 0 /\ resets = 0

-----------------------------------------------------------------------------
(* Connect and Disconnect.  A definition named Bug... is the one after it  *)
(* with a plausible mistake; no specification uses it.                     *)

(* The handle is cancelled and closed: its ring goes, and its writes (the  *)
(* set W) are withdrawn unless the controller already sends them.          *)
CloseHandle(W) ==
  /\ at' = [i \in Ids |-> IF at[i] = "ring" \/ i \in W THEN "lost" ELSE at[i]]
  /\ orphans' = 0 /\ early' = {}

(* A new handle, or none when nothing matches or the VID or PID is wrong.  *)
Connect ==
  /\ pc = "idle" /\ connects < MaxConnects
  /\ \E W \in SUBSET At("out") : CloseHandle(W)
  /\ seq' = 1
  /\ handle' \in {"open", "null"}
  /\ base' = call
  /\ connects' = connects + 1
  /\ UNCHANGED <<pc, outcome, frames, from, device, stolen, resets>>

Disconnect ==
  /\ pc = "idle" /\ connects < MaxConnects /\ handle # "null"
  /\ \E W \in SUBSET At("out") : CloseHandle(W)
  /\ handle' = "null"
  /\ connects' = connects + 1
  /\ UNCHANGED <<seq, pc, outcome, frames, base, from, device, stolen, resets>>

-----------------------------------------------------------------------------
(* Transact: WriteFile, then ReadFrame until the answer or the timeout.    *)

NextSeq(s) == IF s = SeqMod - 1 THEN 0 ELSE s + 1

(* Bound: no more than SeqMod calls at a time have a report on the way.    *)
LagBound(n) == \A i \in Ids : OnTheWay(i) /\ i > base => n - i < SeqMod

NotConnected ==
  /\ pc = "idle" /\ handle = "null"
  /\ outcome' = "failed"
  /\ UNCHANGED <<handle, seq, pc, driver, frames, at, base, from, device,
                 stolen, bounds>>

BugTransact(c) ==    \* the sequence number advances with an answer only
  /\ pc = "idle" /\ handle # "null" /\ call < MaxCalls /\ LagBound(call + 1)
  /\ call' = call + 1
  /\ cmdOf' = [cmdOf EXCEPT ![call + 1] = c]
  /\ seqOf' = [seqOf EXCEPT ![call + 1] = seq]
  /\ seq' = IF outcome = "failed" THEN seq ELSE NextSeq(seq)
  /\ outcome' = "none" /\ pc' = "write"
  /\ at' = [at EXCEPT ![call + 1] = IF handle = "dead" THEN "lost" ELSE "out"]
  /\ UNCHANGED <<handle, driver, base, from, device, stolen, bounds>>

(* seq_ advances before the write, whatever becomes of it.  A handle whose *)
(* device has gone fails in WriteFile.                                     *)
Transact(c) ==
  /\ pc = "idle" /\ handle # "null" /\ call < MaxCalls /\ LagBound(call + 1)
  /\ call' = call + 1
  /\ cmdOf' = [cmdOf EXCEPT ![call + 1] = c]
  /\ seqOf' = [seqOf EXCEPT ![call + 1] = seq]
  /\ seq' = NextSeq(seq)
  /\ \/ /\ handle = "open"
        /\ at' = [at EXCEPT ![call + 1] = "out"]
        /\ pc' = "write" /\ outcome' = "none"
     \/ /\ handle = "dead"
        /\ at' = [at EXCEPT ![call + 1] = "lost"]
        /\ pc' = "idle" /\ outcome' = "failed"
  /\ UNCHANGED <<handle, driver, base, from, device, stolen, bounds>>

WriteDone ==
  /\ pc = "write" /\ handle = "open" /\ at[call] # "out"
  /\ pc' = "read"
  /\ UNCHANGED <<handle, seq, outcome, driver, frames, at, base, from,
                 device, stolen, bounds>>

BugWriteFails ==     \* a write that timed out is tried again
  /\ pc = "write"
  /\ at' = [at EXCEPT ![call] = "out"]
  /\ pc' = "write"
  /\ UNCHANGED <<handle, seq, outcome, driver, frames, base, from, device,
                 stolen, bounds>>

(* The timeout of the write, or its failure: CancelIoEx withdraws it, or   *)
(* comes too late and the device gets it after all.                        *)
WriteFails ==
  /\ pc = "write"
  /\ \/ UNCHANGED at
     \/ at[call] = "out" /\ at' = [at EXCEPT ![call] = "lost"]
  /\ outcome' = "failed" /\ pc' = "idle"
  /\ UNCHANGED <<handle, seq, driver, frames, base, from, device, stolen,
                 bounds>>

Matches(i) == cmdOf[i] = cmdOf[call] /\ seqOf[i] = seqOf[call]

(* The next report leaves the ring: a copy before the report itself.       *)
LeavesRing(i) ==
  /\ i \in Ring /\ \A j \in Ring : i <= j
  /\ \/ i \in early /\ early' = early \ {i} /\ UNCHANGED at
     \/ i \notin early /\ at' = [at EXCEPT ![i] = "taken"] /\ UNCHANGED early

(* One turn of ReadFrame's loop: the next report is the answer, or it is   *)
(* not and the loop goes on.                                               *)
ReadReport(i) ==
  /\ pc = "read" /\ handle = "open" /\ LeavesRing(i)
  /\ \/ /\ Matches(i)
        /\ from' = i
        /\ outcome' = IF i \in done THEN "ok" ELSE "refused"
        /\ pc' = "idle"
     \/ ~Matches(i) /\ UNCHANGED <<from, outcome, pc>>
  /\ UNCHANGED <<handle, seq, orphans, frames, base, device, stolen, bounds>>

BugReadFails == FALSE /\ UNCHANGED vars    \* waits for ever

(* The deadline passes, or the read fails.  A read that was waiting is     *)
(* cancelled and not waited for: it may still complete, with a report.     *)
ReadFails ==
  /\ pc = "read"
  /\ orphans' = IF handle = "open" /\ Ring = {} THEN orphans + 1 ELSE orphans
  /\ outcome' = "failed" /\ pc' = "idle"
  /\ UNCHANGED <<handle, seq, early, frames, at, base, from, device, stolen, bounds>>

-----------------------------------------------------------------------------
(* The driver and the device.                                              *)

CancelCompletes ==
  /\ orphans > 0
  /\ orphans' = orphans - 1
  /\ UNCHANGED <<client, early, frames, at, base, from, device, stolen, bounds>>

(* The OUT packet: EP3 holds one, and is armed again once it is processed. *)
AcceptOut(i) ==
  /\ IsFirst(i, "out") /\ At("ep3") = {}
  /\ at' = [at EXCEPT ![i] = "ep3"]
  /\ UNCHANGED <<client, driver, frames, base, from, device, stolen, bounds>>

ProcessRequest(i) ==
  /\ at[i] = "ep3" /\ At("work") = {}
  /\ at' = [at EXCEPT ![i] = "work"]
  /\ processed' = processed \union {i}
  /\ done' \in {done, done \union {i}}
  /\ UNCHANGED <<client, driver, frames, base, from, stolen, bounds>>

BugSetInReport(i) ==   \* a response that waits in EP2 is not overwritten
  /\ at[i] = "work"
  /\ at' = [at EXCEPT ![i] = IF At("ep2") = {} THEN "ep2" ELSE "lost"]
  /\ UNCHANGED <<client, driver, frames, base, from, device, stolen, bounds>>

(* The response is copied to EP2, over one the host has not fetched.       *)
SetInReport(i) ==
  /\ at[i] = "work"
  /\ at' = [j \in Ids |-> IF j = i THEN "ep2"
                          ELSE IF at[j] = "ep2" THEN "lost" ELSE at[j]]
  /\ UNCHANGED <<client, driver, frames, base, from, device, stolen, bounds>>

(* The report that the ring gives up for the next one when it is full.     *)
GivenUp == IF Cardinality(At("ring")) + Cardinality(early) < RingSize THEN {}
           ELSE {i \in Ring : \A j \in Ring : i <= j}

(* The host fetches EP2: a cancelled read that is still there takes the    *)
(* report, else the ring.                                                  *)
FetchIn(i) ==
  /\ at[i] = "ep2" /\ handle = "open"
  /\ \/ /\ orphans > 0
        /\ orphans' = orphans - 1
        /\ at' = [at EXCEPT ![i] = "lost"]
        /\ stolen' = IF i > stolen THEN i ELSE stolen
        /\ UNCHANGED early
     \/ /\ orphans = 0
        /\ at' = [j \in Ids |-> IF j = i THEN "ring"
                                ELSE IF j \in GivenUp \ early THEN "lost" ELSE at[j]]
        /\ early' = early \ GivenUp
        /\ UNCHANGED <<orphans, stolen>>
  /\ UNCHANGED <<client, frames, base, from, device, bounds>>

(* The same while a response is copied over one not fetched, for which     *)
(* EP2 is armed still: the host gets the new one, which SetInReport will   *)
(* offer it again, and the old one is gone.                                *)
FetchEarly(i) ==
  /\ at[i] = "work" /\ At("ep2") # {} /\ handle = "open"
  /\ \/ /\ orphans > 0
        /\ orphans' = orphans - 1
        /\ at' = [j \in Ids |-> IF at[j] = "ep2" THEN "lost" ELSE at[j]]
        /\ UNCHANGED early
     \/ /\ orphans = 0
        /\ at' = [j \in Ids |-> IF at[j] = "ep2" \/ j \in GivenUp \ early
                                THEN "lost" ELSE at[j]]
        /\ early' = (early \ GivenUp) \union {i}
        /\ UNCHANGED orphans
  /\ UNCHANGED <<client, frames, base, from, device, stolen, bounds>>

(* With no handle open the driver may read reports and drop them.          *)
DropIn(i) ==
  /\ at[i] = "ep2" /\ handle # "open"
  /\ at' = [at EXCEPT ![i] = "lost"]
  /\ UNCHANGED <<client, driver, frames, base, from, device, stolen, bounds>>

(* The device is reset or unplugged: it enumerates anew, and the handle    *)
(* that was open fails from now on.  What the firmware holds is lost too,  *)
(* or, when it was a bus reset only, may survive (BridgeDevice).           *)
DeviceGone ==
  /\ resets < MaxResets
  /\ \E L \in SUBSET (At("ep3") \union At("work") \union At("ep2")) :
       at' = [i \in Ids |-> IF at[i] \in {"out", "ring"} \/ i \in L THEN "lost" ELSE at[i]]
  /\ handle' = IF handle = "open" THEN "dead" ELSE handle
  /\ orphans' = 0 /\ early' = {}
  /\ resets' = resets + 1
  /\ UNCHANGED <<seq, pc, outcome, frames, base, from, device, stolen, connects>>

-----------------------------------------------------------------------------
CallStep == WriteDone \/ WriteFails \/ (\E i \in Ids : ReadReport(i)) \/ ReadFails

Next ==
  \/ Connect \/ Disconnect \/ NotConnected
  \/ \E c \in Cmds : Transact(c)
  \/ CallStep
  \/ CancelCompletes \/ DeviceGone
  \/ \E i \in Ids : \/ AcceptOut(i) \/ ProcessRequest(i) \/ SetInReport(i)
                   \/ FetchIn(i) \/ FetchEarly(i) \/ DropIn(i)

Spec == Init /\ [][Next]_vars

(* The calling thread runs and its waits time out.  Nothing is assumed of  *)
(* the driver or the device.                                               *)
FairSpec == Spec /\ WF_vars(CallStep)

-----------------------------------------------------------------------------
(* Properties.                                                             *)

TypeOK ==
  /\ handle \in {"null", "open", "dead"} /\ seq \in 0 .. SeqMod - 1
  /\ pc \in {"idle", "write", "read"}
  /\ outcome \in {"none", "ok", "refused", "failed"}
  /\ orphans \in Nat /\ early \subseteq Ids
  /\ call \in 0 .. MaxCalls
  /\ cmdOf \in [Ids -> Cmds \union {"none"}] /\ seqOf \in [Ids -> 0 .. SeqMod - 1]
  /\ at \in [Ids -> Places]
  /\ base \in 0 .. call /\ from \in 0 .. MaxCalls
  /\ processed \subseteq Ids /\ done \subseteq processed
  /\ stolen \in 0 .. MaxCalls
  /\ connects \in 0 .. MaxConnects /\ resets \in 0 .. MaxResets

(* The answer ReadFrame accepts belongs to the call that is waiting,       *)
(* however many earlier ones timed out and whatever of theirs arrives now, *)
(* and although the sequence byte wraps.  Only an answer to a call of an   *)
(* earlier connection can pass for it: Connect starts seq_ at 1 again.     *)
AnswerIsOwn ==
  outcome \in {"ok", "refused"} => from = call \/ from <= base

(* ReadFrame never waits for an answer that cannot come any more: while    *)
(* the device stays, the report of the call in hand is still on its way,   *)
(* unless a read cancelled earlier has taken it.  Overwriting EP2 and a    *)
(* full ring only ever cost the answer to a call that was given up.        *)
AnswerComing ==
  pc \in {"write", "read"} /\ handle = "open" /\ stolen # call => InFlight(call)

(* Every call ends: with an answer, or by one of its timeouts.             *)
CallEnds == pc # "idle" ~> pc = "idle"

(* The transport keeps the promise of BridgeCall: one processing per       *)
(* request, and answers that tell what was done.                           *)
Call == INSTANCE BridgeCall WITH busy <- pc # "idle"
CallSpec == Call!Spec

-----------------------------------------------------------------------------
(* The inductive invariant.                                                *)

Rank == [p \in Places |->
           CASE p = "out" -> 1 [] p = "ep3" -> 2 [] p = "work" -> 3
             [] p = "ep2" -> 4 [] p = "ring" -> 5 [] OTHER -> 0]

(* Reports keep the order of their calls, and each buffer holds one.       *)
OrderInv ==
  \A i, j \in Ids : i < j /\ InFlight(i) /\ InFlight(j) =>
    /\ Rank[at[i]] >= Rank[at[j]]
    /\ at[i] = at[j] => at[i] \in {"out", "ring"}

(* A request is processed on its way from EP3 to EP2, and never before.    *)
ProcessInv ==
  \A i \in Ids :
    /\ i > call => at[i] = "unused" /\ i \notin processed
    /\ i \in early => i \in processed
    /\ at[i] \in {"out", "ep3"} => i \notin processed
    /\ at[i] \in {"work", "ep2", "ring"} => i \in processed

(* The sequence bytes of the last SeqMod calls of this connection.         *)
SeqInv ==
  \A i \in Ids : i > base /\ i <= call /\ call + 1 - i <= SeqMod =>
    seqOf[i] = IF seq >= call + 1 - i THEN seq - (call + 1 - i)
               ELSE seq + SeqMod - (call + 1 - i)

CallInv ==
  /\ pc # "idle" => call > base /\ handle # "null" /\ LagBound(call)
  /\ pc # "idle" => outcome = "none"
  /\ stolen <= call

ClientInv == AnswerIsOwn /\ AnswerComing /\ OrderInv /\ ProcessInv /\ SeqInv /\ CallInv
=============================================================================
