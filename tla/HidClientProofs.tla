-------------------------- MODULE HidClientProofs --------------------------
(* Proofs about the host's transport: types, the order of the reports on   *)
(* the way, answers that belong to their call, and the promise of          *)
(* BridgeCall, for any number of calls, any ring and any sequence modulus. *)
EXTENDS HidClient, TLAPS

(* The places behind the host: what a step of the driver or device moves.  *)
LEMMA InitTypeOK == Init => TypeOK
<1> SUFFICES ASSUME Init PROVE TypeOK
  OBVIOUS
<1>1. at \in [Ids -> Places] /\ cmdOf \in [Ids -> Cmds \union {"none"}]
  BY DEF Init, Places
<1>2. seqOf \in [Ids -> 0 .. SeqMod - 1] /\ seq \in 0 .. SeqMod - 1
  BY ClientAssumption DEF Init
<1>3. processed \subseteq Ids /\ done \subseteq processed
  BY DEF Init
<1> QED
  BY <1>1, <1>2, <1>3, ClientAssumption DEF Init, TypeOK

(* The next report leaves the ring as a copy, or as the report itself.     *)
LEMMA RingEffect ==
  ASSUME NEW i, LeavesRing(i)
  PROVE  \/ i \in early /\ early' = early \ {i} /\ at' = at
         \/ i \in Ids /\ at[i] = "ring" /\ at' = [at EXCEPT ![i] = "taken"] /\ early' = early
  BY DEF LeavesRing, Ring, At

(* A fetch gives a report to the ring, or to a cancelled read.             *)
LEMMA FetchEffect ==
  ASSUME at \in [Ids -> Places], NEW k \in Ids, FetchIn(k)
  PROVE  /\ at[k] = "ep2" /\ early' \subseteq early
         /\ \/ /\ at' = [at EXCEPT ![k] = "lost"]
               /\ stolen' = IF k > stolen THEN k ELSE stolen
            \/ /\ at' \in [Ids -> Places] /\ at'[k] = "ring" /\ stolen' = stolen
               /\ \A j \in Ids : j # k => \/ at'[j] = at[j]
                                          \/ at[j] = "ring" /\ at'[j] = "lost"
<1>1. \A j \in GivenUp \ early : at[j] = "ring"
  BY DEF GivenUp, Ring, At
<1> QED
  BY <1>1 DEF FetchIn, Places

(* One that comes too early takes a copy, and the response before is lost. *)
LEMMA EarlyEffect ==
  ASSUME at \in [Ids -> Places], NEW k \in Ids, FetchEarly(k)
  PROVE  /\ at[k] = "work" /\ handle = "open" /\ early' \subseteq early \union {k}
         /\ at' \in [Ids -> Places]
         /\ \A j \in Ids : at'[j] = at[j] \/ (at[j] \in {"ep2", "ring"} /\ at'[j] = "lost")
<1>1. \A j \in GivenUp \ early : at[j] = "ring"
  BY DEF GivenUp, Ring, At
<1> QED
  BY <1>1 DEF FetchEarly, Places

(* Every step keeps the variables in their ranges.                         *)
LEMMA NextTypeOK == TypeOK /\ [Next]_vars => TypeOK'
<1> SUFFICES ASSUME TypeOK, [Next]_vars PROVE TypeOK'
  OBVIOUS
<1> USE ClientAssumption DEF TypeOK, client, driver, frames, device, bounds
<1>1. CASE Connect
  <2> USE <1>1 DEF Connect, CloseHandle
  <2>1. at' \in [Ids -> Places]
    BY DEF Places
  <2> QED
    BY <2>1
<1>2. CASE Disconnect
  <2> USE <1>2 DEF Disconnect, CloseHandle
  <2>1. at' \in [Ids -> Places]
    BY DEF Places
  <2> QED
    BY <2>1
<1>3. CASE NotConnected
  BY <1>3 DEF NotConnected
<1>4. CASE \E c \in Cmds : Transact(c)
  <2> PICK c \in Cmds : Transact(c)
    BY <1>4
  <2> USE DEF Transact
  <2>1. call + 1 \in Ids /\ call' = call + 1
    BY DEF Ids
  <2>2. at' \in [Ids -> Places]
    BY <2>1 DEF Places
  <2>3. seq' \in 0 .. SeqMod - 1
    BY DEF NextSeq
  <2>4. cmdOf' \in [Ids -> Cmds \union {"none"}] /\ seqOf' \in [Ids -> 0 .. SeqMod - 1]
    BY <2>1
  <2>5. UNCHANGED <<base, from, processed, done, connects, resets, orphans, early, handle>>
        /\ stolen' = stolen
    OBVIOUS
  <2>6. pc' \in {"idle", "write", "read"} /\ outcome' \in {"none", "ok", "refused", "failed"}
    OBVIOUS
  <2> HIDE DEF Transact
  <2> QED
    BY <2>1, <2>2, <2>3, <2>4, <2>5, <2>6 DEF Ids
<1>5. CASE WriteDone
  BY <1>5 DEF WriteDone
<1>6. CASE WriteFails
  <2>1. at' \in [Ids -> Places]
    BY <1>6 DEF WriteFails, Places
  <2> QED
    BY <1>6, <2>1 DEF WriteFails
<1>7. ASSUME NEW i \in Ids, ReadReport(i) PROVE TypeOK'
  <2> USE <1>7 DEF ReadReport
  <2>1. at' \in [Ids -> Places] /\ early' \subseteq Ids
    BY RingEffect DEF Places
  <2>2. from' \in 0 .. MaxCalls
    BY DEF Ids
  <2> QED
    BY <2>1, <2>2
<1>8. CASE ReadFails
  BY <1>8 DEF ReadFails
<1>9. CASE CancelCompletes
  BY <1>9 DEF CancelCompletes
<1>10. CASE DeviceGone
  <2>1. at' \in [Ids -> Places]
    BY <1>10 DEF DeviceGone, Places
  <2> QED
    BY <1>10, <2>1 DEF DeviceGone
<1>11. ASSUME NEW i \in Ids, AcceptOut(i) PROVE TypeOK'
  BY <1>11 DEF AcceptOut, Places
<1>12. ASSUME NEW i \in Ids, ProcessRequest(i) PROVE TypeOK'
  BY <1>12 DEF ProcessRequest, Places
<1>13. ASSUME NEW i \in Ids, SetInReport(i) PROVE TypeOK'
  <2>1. at' \in [Ids -> Places]
    BY <1>13 DEF SetInReport, Places
  <2> QED
    BY <1>13, <2>1 DEF SetInReport
<1>14. ASSUME NEW i \in Ids, FetchIn(i) PROVE TypeOK'
  <2>1. at' \in [Ids -> Places] /\ early' \subseteq Ids
    BY <1>14, FetchEffect DEF Places
  <2>2. orphans' \in Nat /\ stolen' \in 0 .. MaxCalls
    BY <1>14 DEF FetchIn, Ids
  <2>3. UNCHANGED <<handle, seq, pc, outcome, call, cmdOf, seqOf, base, from>>
    BY <1>14 DEF FetchIn
  <2>4. UNCHANGED <<processed, done, connects, resets>>
    BY <1>14 DEF FetchIn
  <2> QED
    BY <2>1, <2>2, <2>3, <2>4
<1>15. ASSUME NEW i \in Ids, FetchEarly(i) PROVE TypeOK'
  <2>1. at' \in [Ids -> Places] /\ early' \subseteq Ids
    BY <1>15, EarlyEffect
  <2> QED
    BY <1>15, <2>1 DEF FetchEarly
<1>16. ASSUME NEW i \in Ids, DropIn(i) PROVE TypeOK'
  BY <1>16 DEF DropIn, Places
<1>17. CASE UNCHANGED vars
  BY <1>17 DEF vars
<1> QED
  BY <1>1, <1>2, <1>3, <1>4, <1>5, <1>6, <1>7, <1>8, <1>9, <1>10, <1>11,
     <1>12, <1>13, <1>14, <1>15, <1>16, <1>17 DEF Next, CallStep

(* Reports move one place at a time, the first of a queue first, and the   *)
(* new one is the last: they keep their order.                             *)
LEMMA OrderStep == TypeOK /\ OrderInv /\ ProcessInv /\ [Next]_vars => OrderInv'
<1> SUFFICES ASSUME TypeOK, OrderInv, ProcessInv, [Next]_vars PROVE OrderInv'
  OBVIOUS
<1> DEFINE Later(a, b) == Rank[a] >= Rank[b] /\ (a = b => a \in {"out", "ring"})
<1> DEFINE Flying(p) == p \in {"out", "ep3", "work", "ep2", "ring"}
<1>r. /\ Rank["out"] = 1 /\ Rank["ep3"] = 2 /\ Rank["work"] = 3
      /\ Rank["ep2"] = 4 /\ Rank["ring"] = 5
  BY DEF Rank, Places
<1>t. at \in [Ids -> Places] /\ Ids \subseteq Nat /\ call \in Nat
  BY DEF TypeOK, Ids
<1>o. \A i, j \in Ids : i < j /\ Flying(at[i]) /\ Flying(at[j]) => Later(at[i], at[j])
  BY DEF OrderInv, InFlight
<1> DEFINE Ordered == \A i, j \in Ids : i < j /\ Flying(at'[i]) /\ Flying(at'[j])
                        => Later(at'[i], at'[j])
(* Steps after which every report in flight is where it was.               *)
<1>q. ASSUME \A i \in Ids : Flying(at'[i]) => at'[i] = at[i]
      PROVE Ordered
  <2> HIDE DEF Later
  <2> QED
    BY <1>q, <1>o
<1> HIDE DEF Flying
<1>1. ASSUME Connect \/ Disconnect PROVE Ordered
  BY <1>1, <1>q, <1>t DEF Connect, Disconnect, CloseHandle, Flying
<1>2. ASSUME \E c \in Cmds : Transact(c) PROVE Ordered
  <2>1. call + 1 \in Ids
    BY <1>2, ClientAssumption DEF Transact, TypeOK, Ids
  <2>2. \A i \in Ids : i > call + 1 => ~Flying(at[i])
    BY <1>t DEF ProcessInv, Flying
  <2>3. \A i \in Ids : i # call + 1 => at'[i] = at[i]
    BY <1>2, <2>1, <1>t DEF Transact
  <2>4. at'[call + 1] \in {"out", "lost"}
    BY <1>2, <2>1, <1>t DEF Transact
  <2> QED
    BY <2>1, <2>2, <2>3, <2>4, <1>o, <1>r, <1>t DEF Flying
<1>3. ASSUME WriteFails PROVE Ordered
  BY <1>3, <1>q, <1>t DEF WriteFails, Flying
<1>4. ASSUME NEW k \in Ids, ReadReport(k) PROVE Ordered
  BY <1>4, <1>q, <1>t, RingEffect DEF ReadReport, Flying
<1>5. ASSUME DeviceGone PROVE Ordered
  BY <1>5, <1>q, <1>t DEF DeviceGone, Flying
<1>6. ASSUME NEW k \in Ids, AcceptOut(k) PROVE Ordered
  <2>1. at' = [at EXCEPT ![k] = "ep3"] /\ at[k] = "out"
        /\ (\A j \in Ids : at[j] = "out" => k <= j) /\ (\A j \in Ids : at[j] # "ep3")
    BY <1>6 DEF AcceptOut, IsFirst, At
  <2> QED
    BY <2>1, <1>o, <1>r, <1>t DEF Flying
<1>7. ASSUME NEW k \in Ids, ProcessRequest(k) PROVE Ordered
  <2>1. at' = [at EXCEPT ![k] = "work"] /\ at[k] = "ep3" /\ (\A j \in Ids : at[j] # "work")
    BY <1>7 DEF ProcessRequest, At
  <2> QED
    BY <2>1, <1>o, <1>r, <1>t DEF Flying
<1>8. ASSUME NEW k \in Ids, SetInReport(k) PROVE Ordered
  <2>1. /\ at[k] = "work" /\ at'[k] = "ep2"
        /\ \A j \in Ids : j # k => at'[j] = (IF at[j] = "ep2" THEN "lost" ELSE at[j])
    BY <1>8, <1>t DEF SetInReport
  <2> QED
    BY <2>1, <1>o, <1>r, <1>t DEF Flying
<1>9. ASSUME NEW k \in Ids, FetchIn(k) PROVE Ordered
  <2>1. CASE at' = [at EXCEPT ![k] = "lost"]
    BY <2>1, <1>q, <1>t DEF Flying
  <2>2. CASE /\ at'[k] = "ring" /\ at[k] = "ep2"
             /\ \A j \in Ids : j # k => at'[j] \in {"lost", at[j]}
    BY <2>2, <1>o, <1>r, <1>t DEF Flying
  <2> QED
    BY <1>9, <2>1, <2>2, <1>t, FetchEffect
<1>12. ASSUME NEW k \in Ids, FetchEarly(k) PROVE Ordered
  BY <1>12, <1>q, <1>t, EarlyEffect DEF Flying
<1>10. ASSUME NEW k \in Ids, DropIn(k) PROVE Ordered
  BY <1>10, <1>q, <1>t DEF DropIn, Flying
<1>11. ASSUME NotConnected \/ WriteDone \/ ReadFails \/ CancelCompletes \/ UNCHANGED vars PROVE Ordered
  <2>1. at' = at
    BY <1>11 DEF NotConnected, WriteDone, ReadFails, CancelCompletes, vars
  <2> QED
    BY <2>1, <1>q
<1> QED
  <2>1. Ordered
    <3> HIDE DEF Ordered
    <3> QED
      BY <1>1, <1>2, <1>3, <1>4, <1>5, <1>6, <1>7, <1>8, <1>9, <1>10, <1>11, <1>12
         DEF Next, CallStep
  <2> QED
    BY <2>1 DEF OrderInv, InFlight, Flying
(* What a step does to the reports and the firmware's record of them.      *)
LEMMA ProcessStep == TypeOK /\ ProcessInv /\ [Next]_vars => ProcessInv'
<1> SUFFICES ASSUME TypeOK, ProcessInv, [Next]_vars PROVE ProcessInv'
  OBVIOUS
<1>t. at \in [Ids -> Places] /\ Ids \subseteq Nat /\ call \in Nat
  BY DEF TypeOK, Ids
(* Steps that process nothing, begin no call and only lose or take reports, *)
(* or move responses on.                                                   *)
<1> DEFINE Moved(a, b) == \/ b = a
                          \/ b \in {"lost", "taken"} /\ a # "unused"
                          \/ a = "out" /\ b = "ep3"
                          \/ a \in {"work", "ep2"} /\ b \in {"ep2", "ring"}
           Moves == /\ call' = call /\ processed' = processed
                    /\ \A i \in Ids : Moved(at[i], at'[i])
                    /\ \A i \in early' : i \in early \/ (i \in Ids /\ at[i] = "work")
<1>q. ASSUME Moves PROVE ProcessInv'
  BY <1>q DEF ProcessInv
<1>1. ASSUME Connect \/ Disconnect PROVE ProcessInv'
  <2>1. Moves
    BY <1>1, <1>t DEF Connect, Disconnect, CloseHandle, frames, device, driver, At
  <2> QED
    BY <2>1, <1>q
<1>2. ASSUME \E c \in Cmds : Transact(c) PROVE ProcessInv'
  <2>1. call + 1 \in Ids /\ call' = call + 1 /\ processed' = processed /\ early' = early
    BY <1>2, ClientAssumption DEF Transact, TypeOK, Ids, device, driver
  <2>2. \A i \in Ids : i # call + 1 => at'[i] = at[i]
    BY <1>2, <2>1, <1>t DEF Transact
  <2>3. at'[call + 1] \in {"out", "lost"}
    BY <1>2, <2>1, <1>t DEF Transact
  <2>4. call + 1 \notin processed
    BY <2>1, <1>t DEF ProcessInv
  <2> QED
    BY <2>1, <2>2, <2>3, <2>4, <1>t DEF ProcessInv
<1>3. ASSUME WriteFails PROVE ProcessInv'
  <2>1. Moves
    BY <1>3, <1>t DEF WriteFails, frames, device, driver
  <2> QED
    BY <2>1, <1>q
<1>4. ASSUME NEW k \in Ids, ReadReport(k) PROVE ProcessInv'
  <2>1. Moves
    BY <1>4, <1>t, RingEffect DEF ReadReport, frames, device, driver
  <2> QED
    BY <2>1, <1>q
<1>5. ASSUME DeviceGone PROVE ProcessInv'
  <2>1. Moves
    BY <1>5, <1>t DEF DeviceGone, At, frames, device, driver
  <2> QED
    BY <2>1, <1>q
<1>6. ASSUME NEW k \in Ids, AcceptOut(k) PROVE ProcessInv'
  <2>1. Moves
    BY <1>6, <1>t DEF AcceptOut, IsFirst, frames, device, driver
  <2> QED
    BY <2>1, <1>q
<1>7. ASSUME NEW k \in Ids, ProcessRequest(k) PROVE ProcessInv'
  BY <1>7, <1>t DEF ProcessRequest, ProcessInv, frames, driver
<1>8. ASSUME NEW k \in Ids, SetInReport(k) PROVE ProcessInv'
  <2>1. Moves
    BY <1>8, <1>t DEF SetInReport, frames, device, driver
  <2> QED
    BY <2>1, <1>q
<1>9. ASSUME NEW k \in Ids, FetchIn(k) PROVE ProcessInv'
  <2>1. UNCHANGED <<call, processed>> /\ early' \subseteq early
    BY <1>9, <1>t, FetchEffect DEF FetchIn, frames, device, driver
  <2>2. CASE at[k] = "ep2" /\ at' = [at EXCEPT ![k] = "lost"]
    <3>1. Moves
      BY <2>1, <2>2, <1>t
    <3> QED
      BY <3>1, <1>q
  <2>3. CASE /\ at'[k] = "ring" /\ at[k] = "ep2"
             /\ \A j \in Ids : j # k => \/ at'[j] = at[j]
                                        \/ at[j] = "ring" /\ at'[j] = "lost"
    <3>1. Moves
      BY <2>1, <2>3, <1>t
    <3> QED
      BY <3>1, <1>q
  <2> QED
    BY <1>9, <2>2, <2>3, <1>t, FetchEffect
<1>12. ASSUME NEW k \in Ids, FetchEarly(k) PROVE ProcessInv'
  <2>1. Moves
    BY <1>12, <1>t, EarlyEffect DEF FetchEarly, frames, device
  <2> QED
    BY <2>1, <1>q
<1>10. ASSUME NEW k \in Ids, DropIn(k) PROVE ProcessInv'
  <2>1. Moves
    BY <1>10, <1>t DEF DropIn, frames, device, driver
  <2> QED
    BY <2>1, <1>q
<1>11. ASSUME NotConnected \/ WriteDone \/ ReadFails \/ CancelCompletes \/ UNCHANGED vars
       PROVE ProcessInv'
  <2>1. UNCHANGED <<at, early, call, processed>>
    BY <1>11 DEF NotConnected, WriteDone, ReadFails, CancelCompletes, vars, frames, device, driver
  <2> QED
    BY <2>1, <1>q
<1> QED
  BY <1>1, <1>2, <1>3, <1>4, <1>5, <1>6, <1>7, <1>8, <1>9, <1>10, <1>11, <1>12
     DEF Next, CallStep
(* Only Transact puts a report on the way.                                  *)
LEMMA NothingRevives ==
  TypeOK /\ [Next]_vars =>
    (\E c \in Cmds : Transact(c)) \/ \A i \in Ids : OnTheWay(i)' => OnTheWay(i)
<1> SUFFICES ASSUME TypeOK, [Next]_vars, NEW i \in Ids
             PROVE (\E c \in Cmds : Transact(c)) \/ (OnTheWay(i)' => OnTheWay(i))
  OBVIOUS
<1>t. at \in [Ids -> Places]
  BY DEF TypeOK
<1>1. ASSUME Connect \/ Disconnect \/ WriteFails PROVE OnTheWay(i)' => OnTheWay(i)
  BY <1>1, <1>t DEF Connect, Disconnect, CloseHandle, WriteFails, OnTheWay, InFlight, driver
<1>2. ASSUME NEW k \in Ids, AcceptOut(k) \/ ProcessRequest(k) \/ DropIn(k)
      PROVE OnTheWay(i)' => OnTheWay(i)
  BY <1>2, <1>t DEF AcceptOut, ProcessRequest, DropIn, IsFirst, OnTheWay, InFlight, driver
<1>3. ASSUME NEW k \in Ids, SetInReport(k) PROVE OnTheWay(i)' => OnTheWay(i)
  BY <1>3, <1>t DEF SetInReport, OnTheWay, InFlight, driver
<1>4. ASSUME DeviceGone PROVE OnTheWay(i)' => OnTheWay(i)
  BY <1>4, <1>t DEF DeviceGone, OnTheWay, InFlight
<1>5. ASSUME NotConnected \/ WriteDone \/ ReadFails \/ CancelCompletes \/ UNCHANGED vars
      PROVE OnTheWay(i)' => OnTheWay(i)
  BY <1>5 DEF NotConnected, WriteDone, ReadFails, CancelCompletes, vars, OnTheWay, InFlight, driver
<1>6. ASSUME NEW k \in Ids, ReadReport(k) PROVE OnTheWay(i)' => OnTheWay(i)
  BY <1>6, <1>t, RingEffect DEF ReadReport, OnTheWay, InFlight
<1>7. ASSUME NEW k \in Ids, FetchIn(k) PROVE OnTheWay(i)' => OnTheWay(i)
  BY <1>7, <1>t, FetchEffect DEF OnTheWay, InFlight
<1>8. ASSUME NEW k \in Ids, FetchEarly(k) PROVE OnTheWay(i)' => OnTheWay(i)
  BY <1>8, <1>t, EarlyEffect DEF OnTheWay, InFlight
<1> QED
  BY <1>1, <1>2, <1>3, <1>4, <1>5, <1>6, <1>7, <1>8 DEF Next, CallStep

(* Every other step leaves the calls and their bytes alone.                *)
LEMMA FramesKept ==
  [Next]_vars => \/ \E c \in Cmds : Transact(c)
                 \/ UNCHANGED frames /\ (UNCHANGED <<seq, base>> \/ base' = call)
  BY DEF Next, CallStep, vars, client, Connect, Disconnect, NotConnected, WriteDone, WriteFails,
         ReadReport, ReadFails, CancelCompletes, DeviceGone, AcceptOut, ProcessRequest,
         SetInReport, FetchIn, FetchEarly, DropIn

(* The sequence bytes count down from seq_, call by call, across the wrap. *)
LEMMA SeqStep == TypeOK /\ SeqInv /\ [Next]_vars => SeqInv'
<1> SUFFICES ASSUME TypeOK, SeqInv, [Next]_vars PROVE SeqInv'
  OBVIOUS
<1>t. /\ call \in Nat /\ Ids \subseteq Nat /\ base \in Nat
      /\ seq \in 0 .. SeqMod - 1 /\ SeqMod \in Nat /\ SeqMod > 1
      /\ seqOf \in [Ids -> 0 .. SeqMod - 1]
  BY ClientAssumption DEF TypeOK, Ids
<1>1. ASSUME NEW c \in Cmds, Transact(c) PROVE SeqInv'
  <2>1. call + 1 \in Ids /\ call' = call + 1 /\ base' = base
    BY <1>1, ClientAssumption DEF Transact, TypeOK, Ids
  <2>2. /\ seqOf'[call + 1] = seq
        /\ \A i \in Ids : i # call + 1 => seqOf'[i] = seqOf[i]
    BY <1>1, <2>1, <1>t DEF Transact
  <2>3. seq' = IF seq = SeqMod - 1 THEN 0 ELSE seq + 1
    BY <1>1 DEF Transact, NextSeq
  <2> SUFFICES ASSUME NEW i \in Ids, i > base, i <= call + 1, call + 2 - i <= SeqMod
               PROVE seqOf'[i] = IF seq' >= call + 2 - i THEN seq' - (call + 2 - i)
                                 ELSE seq' + SeqMod - (call + 2 - i)
    BY <2>1, <1>t DEF SeqInv
  <2>4. CASE i = call + 1
    BY <2>2, <2>3, <2>4, <1>t
  <2>5. CASE i # call + 1
    <3>1. seqOf[i] = IF seq >= call + 1 - i THEN seq - (call + 1 - i)
                     ELSE seq + SeqMod - (call + 1 - i)
      BY <2>5, <1>t DEF SeqInv
    <3> QED
      BY <3>1, <2>2, <2>3, <2>5, <1>t
  <2> QED
    BY <2>4, <2>5
<1>2. ASSUME UNCHANGED frames, UNCHANGED <<seq, base>> PROVE SeqInv'
  BY <1>2 DEF SeqInv, frames
<1>3. ASSUME UNCHANGED frames, base' = call PROVE SeqInv'
  BY <1>3, <1>t DEF SeqInv, frames
<1> QED
  BY <1>1, <1>2, <1>3, FramesKept

(* Two calls less than SeqMod apart have different sequence bytes.         *)
LEMMA SeqTellsApart ==
  TypeOK /\ SeqInv /\ call \in Ids /\ call > base =>
    \A i \in Ids : i > base /\ i <= call /\ call - i < SeqMod /\ seqOf[i] = seqOf[call]
      => i = call
<1> SUFFICES ASSUME TypeOK, SeqInv, call \in Ids, call > base,
                    NEW i \in Ids, i > base, i <= call, call - i < SeqMod,
                    seqOf[i] = seqOf[call]
             PROVE i = call
  OBVIOUS
<1>t. /\ call \in Nat /\ i \in Nat /\ base \in Nat
      /\ seq \in 0 .. SeqMod - 1 /\ SeqMod \in Nat /\ SeqMod > 1
  BY ClientAssumption DEF TypeOK, Ids
<1>1. seqOf[call] = IF seq >= 1 THEN seq - 1 ELSE seq + SeqMod - 1
  BY <1>t DEF SeqInv
<1>2. seqOf[i] = IF seq >= call + 1 - i THEN seq - (call + 1 - i)
                 ELSE seq + SeqMod - (call + 1 - i)
  BY <1>t DEF SeqInv
<1> QED
  BY <1>1, <1>2, <1>t
(* A call under way is of this connection, and no more than SeqMod calls   *)
(* have a report on the way.                                               *)
LEMMA CallInvStep == TypeOK /\ CallInv /\ ProcessInv /\ [Next]_vars => CallInv'
<1> SUFFICES ASSUME TypeOK, CallInv, ProcessInv, [Next]_vars PROVE CallInv'
  OBVIOUS
<1>t. call \in Nat /\ base \in 0 .. call /\ Ids \subseteq Nat /\ at \in [Ids -> Places]
      /\ SeqMod \in Nat /\ SeqMod > 1 /\ stolen \in Nat
  BY ClientAssumption DEF TypeOK, Ids
<1>s. stolen' <= call'
  <2>1. ASSUME NEW c \in Cmds, Transact(c) PROVE stolen' <= call'
    BY <2>1, <1>t DEF CallInv, Transact
  <2>2. ASSUME NEW k \in Ids, FetchIn(k) PROVE stolen' <= call'
    <3>1. k <= call
      BY <2>2, <1>t DEF FetchIn, ProcessInv
    <3>2. stolen' \in {k, stolen} /\ call' = call
      BY <2>2 DEF FetchIn, frames
    <3> QED
      BY <3>1, <3>2 DEF CallInv
  <2>3. ASSUME UNCHANGED <<stolen, call>> PROVE stolen' <= call'
    BY <2>3 DEF CallInv
  <2> QED
    BY <2>1, <2>2, <2>3 DEF Next, CallStep, vars, frames, Connect, Disconnect, NotConnected,
       WriteDone, WriteFails, ReadReport, ReadFails, CancelCompletes, DeviceGone, AcceptOut,
       ProcessRequest, SetInReport, FetchEarly, DropIn
<1>1. ASSUME NEW c \in Cmds, Transact(c) PROVE CallInv'
  <2>1. call + 1 \in Ids /\ call' = call + 1 /\ base' = base /\ LagBound(call + 1)
        /\ handle' = handle /\ handle # "null"
    BY <1>1, ClientAssumption DEF Transact, TypeOK, Ids
  <2>2. early' = early /\ \A i \in Ids : i # call + 1 => at'[i] = at[i]
    BY <1>1, <2>1, <1>t DEF Transact, driver
  <2>3. LagBound(call)'
    BY <2>1, <2>2, <1>t DEF LagBound, OnTheWay, InFlight
  <2>4. pc' # "idle" => outcome' = "none"
    BY <1>1 DEF Transact
  <2> QED
    BY <2>1, <2>3, <2>4, <1>s, <1>t DEF CallInv
<1>2. ASSUME \A i \in Ids : OnTheWay(i)' => OnTheWay(i),
             UNCHANGED <<call, base>>, pc' # "idle" => pc # "idle",
             handle = "null" \/ handle' # "null", pc' # "idle" => outcome' = outcome
      PROVE CallInv'
  <2>1. LagBound(call) => LagBound(call)'
    BY <1>2 DEF LagBound
  <2> QED
    BY <1>2, <2>1, <1>s DEF CallInv
<1>3. ASSUME pc' = "idle" PROVE CallInv'
  BY <1>3, <1>s DEF CallInv
<1>4. ASSUME Connect \/ Disconnect \/ NotConnected \/ WriteFails \/ ReadFails PROVE pc' = "idle"
  BY <1>4 DEF Connect, Disconnect, NotConnected, WriteFails, ReadFails, client
<1>5. ASSUME WriteDone PROVE pc # "idle" /\ UNCHANGED <<call, base, handle, outcome>>
  BY <1>5 DEF WriteDone, frames
<1>6. ASSUME NEW k \in Ids, ReadReport(k)
      PROVE pc' = "idle" \/ (pc' = pc /\ UNCHANGED <<call, base, handle, outcome>>)
  <2>1. CASE Matches(k)
    <3>1. pc' = "idle" \/ ~Matches(k)
      BY <1>6 DEF ReadReport
    <3> QED
      BY <2>1, <3>1
  <2>2. CASE ~Matches(k)
    BY <1>6, <2>2 DEF ReadReport, frames
  <2> QED
    BY <2>1, <2>2
<1>7. ASSUME NEW k \in Ids, AcceptOut(k) \/ ProcessRequest(k) \/ SetInReport(k)
                            \/ FetchIn(k) \/ FetchEarly(k) \/ DropIn(k)
      PROVE pc' = pc /\ UNCHANGED <<call, base, handle, outcome>>
  BY <1>7 DEF AcceptOut, ProcessRequest, SetInReport, FetchIn, FetchEarly, DropIn, frames, client
<1>8. ASSUME CancelCompletes \/ UNCHANGED vars
      PROVE pc' = pc /\ UNCHANGED <<call, base, handle, outcome>>
  BY <1>8 DEF CancelCompletes, vars, frames, client
<1>9. ASSUME DeviceGone
      PROVE UNCHANGED <<call, base, pc, outcome>> /\ (handle = "null" \/ handle' # "null")
  BY <1>9 DEF DeviceGone, frames
<1> QED
  BY <1>1, <1>2, <1>3, <1>4, <1>5, <1>6, <1>7, <1>8, <1>9, NothingRevives DEF Next, CallStep

(* An accepted answer belongs to the call that waits, or to one of an      *)
(* earlier connection: the bytes of the others on the way differ.          *)
LEMMA AnswerStep == TypeOK /\ ClientInv /\ [Next]_vars => AnswerIsOwn'
<1> SUFFICES ASSUME TypeOK, ClientInv, [Next]_vars PROVE AnswerIsOwn'
  OBVIOUS
<1>t. call \in Nat /\ base \in 0 .. call /\ from \in Nat /\ Ids \subseteq Nat
  BY DEF TypeOK, Ids
<1>1. ASSUME NEW k \in Ids, ReadReport(k) PROVE AnswerIsOwn'
  <2>1. CASE ~Matches(k)
    BY <1>1, <2>1 DEF ReadReport, ClientInv, AnswerIsOwn, frames
  <2>2. CASE Matches(k)
    <3>1. from' = k /\ UNCHANGED <<call, base>> /\ OnTheWay(k) /\ pc = "read"
      BY <1>1, <2>2, RingEffect DEF ReadReport, OnTheWay, InFlight, frames
    <3>2. k <= call
      BY <3>1, <1>t DEF ClientInv, ProcessInv, OnTheWay, InFlight
    <3>3. call \in Ids /\ call > base /\ (k > base => call - k < SeqMod)
      BY <3>1, <3>2, <1>t DEF ClientInv, CallInv, LagBound, TypeOK, Ids
    <3>4. k = call \/ k <= base
      BY <2>2, <3>2, <3>3, <1>t, SeqTellsApart DEF Matches, ClientInv
    <3> QED
      BY <3>1, <3>4 DEF AnswerIsOwn
  <2> QED
    BY <2>1, <2>2
<1>2. ASSUME outcome' \in {"none", "failed"} PROVE AnswerIsOwn'
  BY <1>2 DEF AnswerIsOwn
<1>3. ASSUME UNCHANGED <<outcome, call, from>>, base' \in {base, call} PROVE AnswerIsOwn'
  BY <1>3, <1>t DEF ClientInv, AnswerIsOwn
<1>4. ASSUME NEW c \in Cmds, Transact(c) PROVE outcome' \in {"none", "failed"}
  BY <1>4 DEF Transact
<1>5. ASSUME NotConnected \/ WriteFails \/ ReadFails PROVE outcome' \in {"none", "failed"}
  BY <1>5 DEF NotConnected, WriteFails, ReadFails
<1>6. ASSUME Connect \/ Disconnect \/ WriteDone \/ CancelCompletes \/ DeviceGone \/ UNCHANGED vars
      PROVE UNCHANGED <<outcome, call, from>> /\ base' \in {base, call}
  BY <1>6 DEF Connect, Disconnect, WriteDone, CancelCompletes, DeviceGone, vars, client, frames
<1>7. ASSUME NEW k \in Ids, AcceptOut(k) \/ ProcessRequest(k) \/ SetInReport(k)
                            \/ FetchIn(k) \/ FetchEarly(k) \/ DropIn(k)
      PROVE UNCHANGED <<outcome, call, from>> /\ base' \in {base, call}
  BY <1>7 DEF AcceptOut, ProcessRequest, SetInReport, FetchIn, FetchEarly, DropIn, client, frames
<1> QED
  BY <1>1, <1>2, <1>3, <1>4, <1>5, <1>6, <1>7 DEF Next, CallStep

(* The report of the call in hand is the last, so that neither EP2 nor the *)
(* ring ever gives it up for another.                                      *)
LEMMA ComingStep == TypeOK /\ ClientInv /\ [Next]_vars => AnswerComing'
<1> SUFFICES ASSUME TypeOK, ClientInv, [Next]_vars PROVE AnswerComing'
  OBVIOUS
<1>t. call \in Nat /\ base \in 0 .. call /\ Ids \subseteq Nat /\ at \in [Ids -> Places]
      /\ (pc # "idle" => call \in Ids)
  BY DEF TypeOK, Ids, ClientInv, CallInv
<1>r. Rank["work"] = 3 /\ Rank["ep2"] = 4 /\ Rank["ring"] = 5
  BY DEF Rank, Places
<1>l. \A k \in Ids : InFlight(k) => k <= call
  BY <1>t DEF ClientInv, ProcessInv, InFlight
<1>1. ASSUME NEW c \in Cmds, Transact(c) PROVE AnswerComing'
  <2>1. call + 1 \in Ids /\ call' = call + 1
    BY <1>1, ClientAssumption DEF Transact, TypeOK, Ids
  <2>2. pc' = "idle" \/ at'[call + 1] = "out"
    BY <1>1, <2>1, <1>t DEF Transact
  <2> QED
    BY <2>1, <2>2 DEF AnswerComing, InFlight
<1>2. ASSUME pc' = "idle" \/ handle' # "open" PROVE AnswerComing'
  BY <1>2 DEF AnswerComing
<1>3. ASSUME UNCHANGED <<call, handle, stolen>>, pc' # "idle" => pc \in {"write", "read"},
             InFlight(call) /\ pc # "idle" => InFlight(call)'
      PROVE AnswerComing'
  BY <1>3 DEF ClientInv, AnswerComing
<1>4. ASSUME Connect \/ Disconnect \/ NotConnected \/ WriteFails \/ ReadFails \/ DeviceGone
      PROVE pc' = "idle" \/ handle' # "open"
  BY <1>4 DEF Connect, Disconnect, NotConnected, WriteFails, ReadFails, DeviceGone, client
<1>5. ASSUME WriteDone \/ CancelCompletes \/ UNCHANGED vars PROVE AnswerComing'
  BY <1>5, <1>3 DEF WriteDone, CancelCompletes, vars, client, frames, InFlight, TypeOK
<1>6. ASSUME NEW k \in Ids, ReadReport(k) PROVE AnswerComing'
  <2>1. CASE Matches(k)
    BY <1>6, <2>1, <1>2 DEF ReadReport
  <2>2. CASE ~Matches(k)
    <3>1. k # call
      BY <2>2 DEF Matches
    <3>2. InFlight(call) /\ pc # "idle" => InFlight(call)'
      BY <1>6, <3>1, <1>t, RingEffect DEF ReadReport, InFlight, frames
    <3> QED
      BY <1>6, <2>2, <3>2, <1>3 DEF ReadReport, frames
  <2> QED
    BY <2>1, <2>2
<1>7. ASSUME NEW k \in Ids, AcceptOut(k) \/ ProcessRequest(k) PROVE AnswerComing'
  <2>1. InFlight(call) /\ pc # "idle" => InFlight(call)'
    BY <1>7, <1>t DEF AcceptOut, ProcessRequest, InFlight, frames
  <2> QED
    BY <1>7, <2>1, <1>3 DEF AcceptOut, ProcessRequest, client, frames, TypeOK
<1>8. ASSUME NEW k \in Ids, SetInReport(k) PROVE AnswerComing'
  <2>1. k <= call
    BY <1>8, <1>l DEF SetInReport, InFlight
  <2>2. pc # "idle" /\ k < call => at[call] # "ep2"
    BY <1>8, <1>t, <1>r DEF SetInReport, ClientInv, OrderInv, InFlight
  <2>3. call' = call
    BY <1>8 DEF SetInReport, frames
  <2>4. InFlight(call) /\ pc # "idle" => InFlight(call)'
    BY <1>8, <2>1, <2>2, <2>3, <1>t DEF SetInReport, InFlight
  <2> QED
    BY <1>8, <2>4, <1>3 DEF SetInReport, client, frames, TypeOK
<1>9. ASSUME NEW k \in Ids, FetchIn(k) PROVE AnswerComing'
  <2>1. k <= call /\ at[k] = "ep2"
    BY <1>9, <1>l DEF FetchIn, InFlight
  <2>2. UNCHANGED <<call, handle, pc>>
    BY <1>9 DEF FetchIn, client, frames
  <2>3. CASE /\ at' = [at EXCEPT ![k] = "lost"]
             /\ stolen' = IF k > stolen THEN k ELSE stolen
    <3>1. CASE k = call /\ pc # "idle"
      <4>1. stolen' = call \/ stolen > call
        <5>1. call \in Nat /\ stolen \in Nat
          BY ClientAssumption, <1>t DEF TypeOK
        <5> QED
          BY <2>3, <3>1, <5>1
      <4> QED
        BY <2>2, <4>1, <1>t DEF AnswerComing, ClientInv, CallInv, TypeOK
    <3>2. CASE k # call /\ pc # "idle"
      <4>1. InFlight(call) => InFlight(call)'
        BY <2>2, <2>3, <3>2, <1>t DEF InFlight
      <4>2. stolen' # call => stolen # call
        BY <2>1, <2>3, <3>2, <1>t DEF TypeOK
      <4> QED
        BY <2>2, <3>2, <4>1, <4>2 DEF AnswerComing, ClientInv
    <3> QED
      BY <3>1, <3>2, <2>2 DEF AnswerComing
  <2>4. CASE /\ at'[k] = "ring" /\ stolen' = stolen
             /\ \A j \in Ids : j # k => \/ at'[j] = at[j]
                                        \/ at[j] = "ring" /\ at'[j] = "lost"
    <3>1. pc # "idle" /\ k # call => at[call] # "ring"
      BY <2>1, <1>t, <1>r DEF ClientInv, OrderInv, InFlight
    <3>2. InFlight(call) /\ pc # "idle" => InFlight(call)'
      BY <2>2, <2>4, <3>1, <1>t DEF InFlight
    <3> QED
      BY <2>2, <2>4, <3>2, <1>3 DEF TypeOK
  <2> QED
    BY <1>9, <2>3, <2>4, <1>t, FetchEffect
<1>11. ASSUME NEW k \in Ids, FetchEarly(k) PROVE AnswerComing'
  <2>1. k <= call /\ at[k] = "work"
    BY <1>11, <1>l, <1>t, EarlyEffect DEF InFlight
  <2>2. UNCHANGED <<call, handle, pc, stolen>>
    BY <1>11 DEF FetchEarly, client, frames
  <2>3. pc # "idle" => at[call] \notin {"ep2", "ring"}
    BY <2>1, <1>t, <1>r DEF ClientInv, OrderInv, InFlight
  <2>4. InFlight(call) /\ pc # "idle" => InFlight(call)'
    BY <1>11, <2>2, <2>3, <1>t, EarlyEffect DEF InFlight
  <2> QED
    BY <2>2, <2>4, <1>3 DEF TypeOK
<1>10. ASSUME NEW k \in Ids, DropIn(k) PROVE AnswerComing'
  <2>1. handle' # "open"
    BY <1>10 DEF DropIn, client
  <2> QED
    BY <2>1, <1>2
<1> QED
  BY <1>1, <1>2, <1>4, <1>5, <1>6, <1>7, <1>8, <1>9, <1>10, <1>11 DEF Next, CallStep
(* The types hold in every state of every behaviour.                       *)
THEOREM TypeCorrect == Spec => []TypeOK
  BY InitTypeOK, NextTypeOK, PTL DEF Spec

(* The inductive invariant holds at first, and every step keeps it.        *)
LEMMA InitInv == Init => ClientInv
<1> SUFFICES ASSUME Init PROVE ClientInv
  OBVIOUS
<1>1. \A i \in Ids : at[i] = "unused"
  BY DEF Init
<1>2. AnswerIsOwn /\ AnswerComing /\ CallInv
  BY DEF Init, AnswerIsOwn, AnswerComing, CallInv
<1>3. OrderInv /\ ProcessInv
  BY <1>1 DEF Init, OrderInv, ProcessInv, InFlight
<1>4. SeqInv
  BY DEF Init, SeqInv, Ids
<1> QED
  BY <1>2, <1>3, <1>4 DEF ClientInv

LEMMA NextInv == TypeOK /\ ClientInv /\ [Next]_vars => ClientInv'
  BY OrderStep, ProcessStep, SeqStep, CallInvStep, AnswerStep, ComingStep DEF ClientInv

(* An accepted answer belongs to its call, and ReadFrame never waits for   *)
(* an answer that cannot come: with the order of the reports, and the      *)
(* sequence bytes of the calls on the way.                                 *)
THEOREM Safety == Spec => []ClientInv
<1>1. Init => TypeOK /\ ClientInv
  BY InitTypeOK, InitInv
<1>2. TypeOK /\ ClientInv /\ [Next]_vars => (TypeOK /\ ClientInv)'
  BY NextTypeOK, NextInv
<1> QED
  BY <1>1, <1>2, PTL DEF Spec

(* A wrong answer is never taken for a call's own within a connection.     *)
THEOREM AnswersOwn == Spec => []AnswerIsOwn
<1>1. ClientInv => AnswerIsOwn
  BY DEF ClientInv
<1> QED
  BY <1>1, Safety, PTL

(* ReadFrame waits only while the answer is still on its way.              *)
THEOREM AnswersComing == Spec => []AnswerComing
<1>1. ClientInv => AnswerComing
  BY DEF ClientInv
<1> QED
  BY <1>1, Safety, PTL

-----------------------------------------------------------------------------
(* Every step of the transport is a step of BridgeCall, or changes nothing *)
(* that it sees.                                                           *)
LEMMA CallStepRefines ==
  TypeOK /\ TypeOK' /\ ClientInv /\ ClientInv' /\ [Next]_vars => [Call!Next]_Call!vars
<1> SUFFICES ASSUME TypeOK, TypeOK', ClientInv, ClientInv', [Next]_vars
             PROVE [Call!Next]_Call!vars
  OBVIOUS
<1> USE DEF Call!Next, Call!vars
<1>1. ASSUME Connect \/ Disconnect PROVE Call!Connect \/ UNCHANGED Call!vars
  BY <1>1 DEF Connect, Disconnect, Call!Connect, frames, device
<1>2. ASSUME NotConnected PROVE Call!FailAtOnce
  BY <1>2 DEF NotConnected, Call!FailAtOnce, frames, device
<1>3. ASSUME NEW c \in Cmds, Transact(c) PROVE Call!Begin \/ Call!FailAtOnce
  BY <1>3 DEF Transact, Call!Begin, Call!FailAtOnce, device
<1>4. ASSUME WriteFails \/ ReadFails PROVE Call!Return
  BY <1>4 DEF WriteFails, ReadFails, Call!Return, frames, device
<1>5. ASSUME NEW k \in Ids, ReadReport(k) PROVE Call!Return \/ UNCHANGED Call!vars
  <2>1. CASE ~Matches(k)
    BY <1>5, <2>1 DEF ReadReport, frames, device
  <2>2. CASE Matches(k)
    <3>1. /\ pc = "read" /\ pc' = "idle" /\ UNCHANGED <<call, processed, done, base>>
          /\ outcome' = IF k \in done THEN "ok" ELSE "refused"
          /\ from' = k /\ (at[k] = "ring" \/ k \in early)
      BY <1>5, <2>2, RingEffect DEF ReadReport, Matches, frames, device
    <3>2. k = call \/ k <= base
      BY <3>1 DEF ClientInv, AnswerIsOwn
    <3>3. k \in processed
      BY <3>1 DEF ClientInv, ProcessInv
    <3> QED
      BY <3>1, <3>2, <3>3 DEF Call!Return
  <2> QED
    BY <2>1, <2>2
<1>6. ASSUME NEW k \in Ids, ProcessRequest(k) PROVE Call!Process(k) /\ k \in 1 .. call
  <2>1. k \in 1 .. call /\ k \notin processed
    BY <1>6 DEF ProcessRequest, ClientInv, ProcessInv, TypeOK, Ids
  <2> QED
    BY <1>6, <2>1 DEF ProcessRequest, Call!Process, client, frames
<1>7. ASSUME NEW k \in Ids, \/ AcceptOut(k) \/ SetInReport(k) \/ FetchIn(k)
                            \/ FetchEarly(k) \/ DropIn(k)
      PROVE UNCHANGED Call!vars
  BY <1>7 DEF AcceptOut, SetInReport, FetchIn, FetchEarly, DropIn, client, frames, device
<1>8. ASSUME WriteDone PROVE UNCHANGED Call!vars
  BY <1>8 DEF WriteDone, frames, device
<1>9. ASSUME CancelCompletes \/ DeviceGone \/ UNCHANGED vars PROVE UNCHANGED Call!vars
  BY <1>9 DEF CancelCompletes, DeviceGone, vars, client, frames, device
<1> QED
  BY <1>1, <1>2, <1>3, <1>4, <1>5, <1>6, <1>7, <1>8, <1>9 DEF Next, CallStep

(* The transport implements BridgeCall: at most one processing of each     *)
(* request, and answers that tell what the firmware did with it.           *)
THEOREM KeepsPromise == Spec => CallSpec
<1>1. Init => Call!Init
  BY DEF Init, Call!Init
<1>2. TypeOK /\ TypeOK' /\ ClientInv /\ ClientInv' /\ [Next]_vars => [Call!Next]_Call!vars
  BY CallStepRefines
<1> QED
  BY <1>1, <1>2, TypeCorrect, Safety, PTL DEF Spec, CallSpec, Call!Spec
=============================================================================
