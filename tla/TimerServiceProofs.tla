------------------------- MODULE TimerServiceProofs -------------------------
(* Proofs about the software timers: types, pending flags, and the ring as *)
(* an EventQueue, for any number of timers and any size of the ring.       *)
EXTENDS TimerService, SequenceTheorems, TLAPS

(* The initial state has every variable in its range.                      *)
LEMMA InitTypeOK == Init => TypeOK
  BY TimerAssumption DEF Init, TypeOK, Ids

(* A tick keeps the variables in their ranges: a counter that would reach  *)
(* WordMax has reached its period, and starts again.                       *)
LEMMA CountTypeOK == TypeOK /\ CountTimer => TypeOK'
<1> SUFFICES ASSUME TypeOK, CountTimer PROVE TypeOK'
  OBVIOUS
<1> DEFINE counted == Counted(counter[irq])
           expires == Expires(counted, period[irq])
<1> USE TimerAssumption
<1>1. irq \in Ids
  BY DEF TypeOK, CountTimer, Ids
<1>2. counted \in 1 .. WordMax /\ (~expires => counted \in 0 .. WordMax - 1)
  BY <1>1 DEF TypeOK, Counted, Expires
<1>3. counter' \in [Ids -> 0 .. WordMax - 1]
  <2>1. \/ counter' = [counter EXCEPT ![irq] = IF expires THEN 0 ELSE counted]
        \/ counter' = counter
    BY DEF CountTimer
  <2> HIDE DEF counted, expires
  <2> QED
    BY <1>1, <1>2, <2>1 DEF TypeOK
<1>4. Succ(tail) \in 0 .. Size - 1
  BY DEF TypeOK, Succ
<1>5. tail' \in 0 .. Size - 1 /\ ids' \in [0 .. Size - 1 -> Ids] /\ head' = head
      /\ lost' \in {0, 1}
  <2>1. Enqueue(irq) \/ UNCHANGED <<ring, lost>>
    BY DEF CountTimer
  <2>2. CASE Enqueue(irq) /\ Full
    BY <2>2 DEF TypeOK, Enqueue, ring
  <2>3. CASE Enqueue(irq) /\ ~Full
    <3>1. /\ ids' = [ids EXCEPT ![tail] = irq]
          /\ tail' = Succ(tail)
          /\ UNCHANGED <<head, lost>>
      BY <2>3 DEF Enqueue
    <3> QED
      BY <1>1, <1>4, <3>1 DEF TypeOK
  <2>4. CASE UNCHANGED <<ring, lost>>
    BY <2>4 DEF TypeOK, ring
  <2> QED
    BY <2>1, <2>2, <2>3, <2>4
<1>6. pending' \in [Ids -> {0, 1}] /\ expired' \in [Ids -> {0, 1}]
  BY <1>1 DEF TypeOK, CountTimer
<1>7. irq' \in 0 .. NTimers
  BY <1>1 DEF CountTimer, Ids
<1>8. UNCHANGED <<callback, kind, period, active, pc, id, scan, from, arg, back, lag>>
  BY DEF CountTimer, timers, locals
<1> QED
  BY <1>3, <1>5, <1>6, <1>7, <1>8 DEF TypeOK

(* Every step keeps the variables in their ranges.                         *)
LEMMA NextTypeOK == TypeOK /\ [Next]_vars => TypeOK'
<1> SUFFICES ASSUME TypeOK, [Next]_vars PROVE TypeOK'
  OBVIOUS
<1> USE TimerAssumption
<1>1. ASSUME NEW p \in Periods, NEW k \in {"queue", "flag"}, Create(p, k)
      PROVE  TypeOK'
  <2>1. pc' \in {"loop", "queue", "flag", "callback", "start", "activate"}
    BY <1>1 DEF TypeOK, Create, After
  <2>2. UNCHANGED <<head, tail, ids, irq, id, scan, from, arg, back, lag, lost, expired>>
    BY <1>1 DEF Create, ring, locals
  <2>3. CASE Free = {}
    <3>1. UNCHANGED <<timers, running>>
      BY <1>1, <2>3 DEF Create
    <3> QED
      BY <2>1, <2>2, <3>1 DEF TypeOK, timers, running
  <2>4. CASE Free # {}
    <3>1. PICK t \in Ids :
            /\ callback' = [callback EXCEPT ![t] = 1]
            /\ kind' = [kind EXCEPT ![t] = k]
            /\ period' = [period EXCEPT ![t] = p]
            /\ counter' = [counter EXCEPT ![t] = 0]
            /\ active' = [active EXCEPT ![t] = 0]
            /\ pending' = [pending EXCEPT ![t] = 0]
      BY <1>1, <2>4 DEF Create, Free
    <3> QED
      BY <2>1, <2>2, <3>1 DEF TypeOK
  <2> QED
    BY <2>3, <2>4
<1>2. ASSUME NEW t \in Ids, NEW p \in Periods, ChangePeriod(t, p)
      PROVE  TypeOK'
  BY <1>2 DEF TypeOK, ChangePeriod, Calling, After, running, ring, locals
<1>3. ASSUME NEW t \in Ids, StopTimer(t)
      PROVE  TypeOK'
  BY <1>3 DEF TypeOK, StopTimer, Calling, After, timers, ring, locals
<1>4. ASSUME NEW t \in Ids, StartTimer(t)
      PROVE  TypeOK'
  BY <1>4 DEF TypeOK, StartTimer, Calling, After, timers, ring
<1>5. CASE StartClear
  BY <1>5 DEF TypeOK, StartClear, timers, ring, locals
<1>6. CASE StartActivate
  <2>1. arg' \in Ids
    BY <1>6 DEF StartActivate, Ids
  <2> QED
    BY <1>6, <2>1 DEF TypeOK, StartActivate, timers, ring
<1>7. CASE GoOn
  BY <1>7 DEF TypeOK, GoOn, Calling, After, timers, running, ring, locals
<1>8. CASE Dequeue
  <2>1. UNCHANGED <<callback, kind, period, counter, active, pending, irq, arg, back,
                    lag, lost, expired, tail, ids, scan>>
    BY <1>8 DEF Dequeue, timers, running, ring
  <2>2. head' = Succ(head) \/ head' = head
    BY <1>8 DEF Dequeue, ring
  <2>3. Succ(head) \in 0 .. Size - 1
    BY DEF TypeOK, Succ
  <2>4. ids[head] \in Ids
    BY DEF TypeOK
  <2>5. id' = ids[head] \/ id' = id
    BY <1>8 DEF Dequeue
  <2>6. /\ from' \in {"queue", "flag"}
        /\ pc' \in {"loop", "queue", "flag", "callback", "start", "activate"}
    BY <1>8 DEF TypeOK, Dequeue
  <2> QED
    BY <2>1, <2>2, <2>3, <2>4, <2>5, <2>6 DEF TypeOK
<1>9. CASE DispatchFlag
  <2>1. UNCHANGED <<callback, kind, period, counter, active, irq, id, arg, back,
                    lost, expired, head, tail, ids>>
    BY <1>9 DEF DispatchFlag, timers, ring
  <2>2. /\ scan' \in 0 .. NTimers /\ from' \in {"queue", "flag"}
        /\ pc' \in {"loop", "queue", "flag", "callback", "start", "activate"}
        /\ lag' \in 0 .. MaxLag
    BY <1>9 DEF TypeOK, DispatchFlag
  <2>3. pending' \in [Ids -> {0, 1}]
    BY <1>9 DEF TypeOK, DispatchFlag
  <2> QED
    BY <2>1, <2>2, <2>3 DEF TypeOK
<1>10. CASE Interrupt
  BY <1>10 DEF TypeOK, Interrupt, timers, running, ring, locals
<1>11. CASE CountTimer
  BY <1>11, CountTypeOK
<1>12. CASE UNCHANGED vars
  BY <1>12 DEF TypeOK, vars, timers, running, ring, locals
<1> QED
  BY <1>1, <1>2, <1>3, <1>4, <1>5, <1>6, <1>7, <1>8, <1>9, <1>10, <1>11, <1>12
     DEF Next, Loop

(* Type correctness of the timers; no counter ever reaches WordMax.        *)
THEOREM TypeCorrect == Spec => []TypeOK
  BY InitTypeOK, NextTypeOK, PTL DEF Spec

-----------------------------------------------------------------------------
(* Pending flags.                                                          *)

(* No timer is active or pending at first.                                 *)
LEMMA InitTimerInv == Init => TimerInv
  BY TimerAssumption DEF Init, TimerInv, PendingIsDue, Ids

(* Every step keeps the invariant.  The steps that matter: a tick sets     *)
(* pending and expired together; StartClear wipes both; StartActivate      *)
(* finds a pending flag only if it was set after that.                     *)
LEMMA NextTimerInv == TypeOK /\ TimerInv /\ [Next]_vars => TimerInv'
<1> SUFFICES ASSUME TypeOK, TimerInv, [Next]_vars PROVE TimerInv'
  OBVIOUS
<1> USE TimerAssumption
<1>1. ASSUME NEW p \in Periods, NEW k \in {"queue", "flag"}, Create(p, k)
      PROVE  TimerInv'
  <2>1. pc \notin {"start", "activate"} /\ pc' \notin {"start", "activate"}
    BY <1>1 DEF TypeOK, Create, Calling, After
  <2>2. CASE Free = {}
    BY <1>1, <2>1, <2>2 DEF TimerInv, PendingIsDue, Create, timers, running
  <2>3. CASE Free # {}
    <3>1. PICK t \in Ids :
            /\ callback[t] = 0
            /\ callback' = [callback EXCEPT ![t] = 1]
            /\ kind' = [kind EXCEPT ![t] = k]
            /\ active' = [active EXCEPT ![t] = 0]
            /\ pending' = [pending EXCEPT ![t] = 0]
      BY <1>1, <2>3 DEF Create, Free
    <3>2. expired' = expired
      BY <1>1 DEF Create
    <3> QED
      BY <2>1, <3>1, <3>2 DEF TypeOK, TimerInv, PendingIsDue
  <2> QED
    BY <2>2, <2>3
<1>2. ASSUME NEW t \in Ids, NEW p \in Periods, ChangePeriod(t, p)
      PROVE  TimerInv'
  BY <1>2 DEF TypeOK, TimerInv, PendingIsDue, ChangePeriod, Calling, After, running
<1>3. ASSUME NEW t \in Ids, StopTimer(t)
      PROVE  TimerInv'
  BY <1>3 DEF TypeOK, TimerInv, PendingIsDue, StopTimer, Calling, After, timers
<1>4. ASSUME NEW t \in Ids, StartTimer(t)
      PROVE  TimerInv'
  BY <1>4 DEF TypeOK, TimerInv, PendingIsDue, StartTimer, Calling, timers
<1>5. CASE StartClear
  <2>1. /\ pc = "start" /\ pc' = "activate" /\ UNCHANGED <<callback, kind, active, arg>>
        /\ pending' = [pending EXCEPT ![arg] = 0]
        /\ expired' = [expired EXCEPT ![arg] = 0]
    BY <1>5 DEF StartClear, timers, locals
  <2> QED
    BY <2>1 DEF TypeOK, TimerInv, PendingIsDue
<1>6. CASE StartActivate
  <2>1. /\ pc = "activate" /\ pc' = back /\ back \notin {"start", "activate"}
        /\ UNCHANGED <<callback, kind, pending, expired>>
        /\ active' = [active EXCEPT ![arg] = 1]
    BY <1>6 DEF TypeOK, StartActivate, timers
  <2> QED
    BY <2>1 DEF TypeOK, TimerInv, PendingIsDue
<1>7. CASE GoOn
  BY <1>7 DEF TypeOK, TimerInv, PendingIsDue, GoOn, Calling, After, timers, running
<1>8. CASE Dequeue
  <2>1. /\ pc \notin {"start", "activate"} /\ pc' \notin {"start", "activate"}
        /\ UNCHANGED <<callback, kind, active, pending, expired>>
    BY <1>8 DEF Dequeue, timers, running
  <2> QED
    BY <2>1 DEF TimerInv, PendingIsDue
<1>9. CASE DispatchFlag
  <2>1. /\ pc \notin {"start", "activate"} /\ pc' \notin {"start", "activate"}
        /\ UNCHANGED <<callback, kind, active, expired>>
    BY <1>9 DEF DispatchFlag, timers
  <2>2. pending' = pending \/ pending' = [pending EXCEPT ![scan] = 0]
    BY <1>9 DEF DispatchFlag
  <2> QED
    BY <2>1, <2>2 DEF TypeOK, TimerInv, PendingIsDue
<1>10. CASE Interrupt
  BY <1>10 DEF TimerInv, PendingIsDue, Interrupt, timers, running, locals
<1>11. CASE CountTimer
  <2>1. UNCHANGED <<callback, kind, active, pc, arg>>
    BY <1>11 DEF CountTimer, timers, locals
  <2>2. irq \in Ids
    BY <1>11 DEF TypeOK, CountTimer, Ids
  <2>3. \/ UNCHANGED <<pending, expired>>
        \/ /\ expired' = [expired EXCEPT ![irq] = 1] \/ expired' = expired
           /\ pending' = pending
        \/ /\ active[irq] = 1 /\ kind[irq] = "flag"
           /\ expired' = [expired EXCEPT ![irq] = 1]
           /\ pending' = [pending EXCEPT ![irq] = 1]
    BY <1>11, <2>2 DEF TypeOK, CountTimer
  <2> QED
    BY <2>1, <2>2, <2>3 DEF TypeOK, TimerInv, PendingIsDue
<1>12. CASE UNCHANGED vars
  BY <1>12 DEF TimerInv, PendingIsDue, vars, timers, running, locals
<1> QED
  BY <1>1, <1>2, <1>3, <1>4, <1>5, <1>6, <1>7, <1>8, <1>9, <1>10, <1>11, <1>12
     DEF Next, Loop

(* The inductive invariant holds.                                          *)
THEOREM Safety == Spec => []TimerInv
  BY TypeCorrect, InitTimerInv, NextTimerInv, PTL DEF Spec

(* A flag timer calls back only for an expiry of its present run.          *)
THEOREM FlagsAreDue == Spec => []PendingIsDue
<1>1. TimerInv => PendingIsDue
  BY DEF TimerInv
<1> QED
  BY <1>1, Safety, PTL

-----------------------------------------------------------------------------
(* The ring implements the queue.                                          *)

(* What the proofs need of the types: the ring's places are numbers.       *)
LEMMA RingTypeOK ==
  TypeOK => /\ Size \in Nat /\ Size >= 2
            /\ head \in Nat /\ head < Size /\ tail \in Nat /\ tail < Size
            /\ ids \in [0 .. Size - 1 -> Ids]
  BY TimerAssumption DEF TypeOK

(* What the ring holds, as a sequence: its length and its members.         *)
LEMMA QueueIsSeq ==
  TypeOK => /\ Count \in 0 .. Size - 1
            /\ \A k \in 1 .. Count : Place(k) \in 0 .. Size - 1
            /\ Queue \in Seq(Ids) /\ Len(Queue) = Count
            /\ \A k \in 1 .. Count : Queue[k] = ids[Place(k)]
<1> SUFFICES ASSUME TypeOK
             PROVE  /\ Count \in 0 .. Size - 1
                    /\ \A k \in 1 .. Count : Place(k) \in 0 .. Size - 1
                    /\ Queue \in Seq(Ids) /\ Len(Queue) = Count
                    /\ \A k \in 1 .. Count : Queue[k] = ids[Place(k)]
  OBVIOUS
<1>1. Count \in 0 .. Size - 1
  BY RingTypeOK DEF Count
<1>2. \A k \in 1 .. Count : Place(k) \in 0 .. Size - 1
  BY <1>1, RingTypeOK DEF Place
<1>3. Queue \in [1 .. Count -> Ids]
  BY <1>1, <1>2, RingTypeOK DEF Queue
<1>4. Queue \in Seq(Ids)
  BY <1>1, <1>3, SeqDef
<1>5. Len(Queue) = Count
  BY <1>1, <1>3, <1>4, LenProperties
<1> QED
  BY <1>1, <1>2, <1>4, <1>5 DEF Queue

(* The same after a step.                                                  *)
LEMMA QueueIsSeqNext ==
  TypeOK' => /\ Queue' \in Seq(Ids) /\ Len(Queue') = Count'
             /\ \A k \in 1 .. Count' : Queue'[k] = ids'[Place(k)']
<1>1. (TypeOK => /\ Queue \in Seq(Ids) /\ Len(Queue) = Count
                 /\ \A k \in 1 .. Count : Queue[k] = ids[Place(k)])'
  BY QueueIsSeq, PTL
<1> QED
  BY <1>1

(* Full and Empty are about the number of events in the ring.              *)
LEMMA FullAndEmpty == TypeOK => (Full <=> Count = Size - 1) /\ (Empty <=> Count = 0)
  BY RingTypeOK DEF Full, Empty, Succ, Count

(* Writing at the tail appends to the queue.                               *)
LEMMA EnqueueAppends ==
  ASSUME TypeOK, TypeOK', NEW t \in Ids, ~Full,
         ids' = [ids EXCEPT ![tail] = t], tail' = Succ(tail), head' = head
  PROVE  Queue' = Append(Queue, t)
<1>1. Count' = Count + 1
  BY RingTypeOK DEF Full, Succ, Count
<1>2. \A k : Place(k)' = Place(k)
  BY DEF Place
<1>3. Place(Count + 1) = tail /\ \A k \in 1 .. Count : Place(k) # tail
  BY RingTypeOK DEF Count, Place
<1>4. Count \in Nat /\ Queue \in Seq(Ids) /\ Len(Queue) = Count
      /\ \A k \in 1 .. Count : Place(k) \in 0 .. Size - 1 /\ Queue[k] = ids[Place(k)]
  BY QueueIsSeq
<1>5. Append(Queue, t) \in Seq(Ids) /\ Len(Append(Queue, t)) = Count + 1
      /\ \A k \in 1 .. Count : Append(Queue, t)[k] = Queue[k]
      /\ Append(Queue, t)[Count + 1] = t
  BY <1>4, AppendProperties
<1>6. /\ Queue' \in Seq(Ids) /\ Len(Queue') = Count'
      /\ \A k \in 1 .. Count' : Queue'[k] = ids'[Place(k)']
  BY QueueIsSeqNext
<1>7. ids'[tail] = t /\ \A j \in 0 .. Size - 1 : j # tail => ids'[j] = ids[j]
  BY RingTypeOK
<1>8. \A k \in 1 .. Count + 1 : Queue'[k] = Append(Queue, t)[k]
  <2> TAKE k \in 1 .. Count + 1
  <2>1. Queue'[k] = ids'[Place(k)]
    BY <1>1, <1>2, <1>6
  <2>2. CASE k = Count + 1
    BY <1>3, <1>5, <1>7, <2>1, <2>2
  <2>3. CASE k \in 1 .. Count
    BY <1>3, <1>4, <1>5, <1>7, <2>1, <2>3
  <2> QED
    BY <1>4, <2>2, <2>3
<1> QED
  BY <1>1, <1>5, <1>6, <1>8, SeqEqual

(* Advancing the head takes the oldest event out.                          *)
LEMMA DequeueTakes ==
  ASSUME TypeOK, TypeOK', ~Empty, head' = Succ(head), UNCHANGED <<tail, ids>>
  PROVE  Queue # <<>> /\ Queue' = Tail(Queue) /\ ids[head] = Head(Queue)
<1>1. Count' = Count - 1 /\ Count \in 1 .. Size - 1
  BY RingTypeOK DEF Empty, Succ, Count
<1>2. \A k \in 1 .. Count - 1 : Place(k)' = Place(k + 1)
  BY <1>1, RingTypeOK DEF Succ, Place
<1>3. Place(1) = head
  BY RingTypeOK DEF Place
<1>4. Queue \in Seq(Ids) /\ Len(Queue) = Count
      /\ \A k \in 1 .. Count : Queue[k] = ids[Place(k)]
  BY QueueIsSeq
<1>5. Queue # <<>>
  BY <1>1, <1>4, EmptySeq
<1>6. Tail(Queue) \in Seq(Ids) /\ Len(Tail(Queue)) = Count - 1
      /\ Head(Queue) = Queue[1]
      /\ \A k \in 1 .. Count - 1 : Tail(Queue)[k] = Queue[k + 1]
  BY <1>1, <1>4, <1>5, HeadTailProperties
<1>7. /\ Queue' \in Seq(Ids) /\ Len(Queue') = Count'
      /\ \A k \in 1 .. Count' : Queue'[k] = ids'[Place(k)']
  BY QueueIsSeqNext
<1>8. \A k \in 1 .. Count - 1 : Queue'[k] = Tail(Queue)[k]
  <2> TAKE k \in 1 .. Count - 1
  <2>1. Queue'[k] = ids[Place(k + 1)]
    BY <1>1, <1>2, <1>7
  <2>2. Tail(Queue)[k] = ids[Place(k + 1)]
    BY <1>1, <1>4, <1>6
  <2> QED
    BY <2>1, <2>2
<1>9. Queue' = Tail(Queue)
  BY <1>1, <1>6, <1>7, <1>8, SeqEqual
<1>10. ids[head] = Head(Queue)
  BY <1>1, <1>3, <1>4, <1>6
<1> QED
  BY <1>5, <1>9, <1>10

(* A step that leaves the ring, the last event and the count of losses     *)
(* alone is no step of the queue.                                          *)
LEMMA RingUntouched ==
  UNCHANGED <<ring, id, lost>> => UNCHANGED Events!vars
  BY DEF ring, Events!vars, Queue, Count, Place

(* The queue is empty at first.                                            *)
LEMMA InitQueue == Init => Events!Init
<1> SUFFICES ASSUME Init PROVE Events!Init
  OBVIOUS
<1>1. TypeOK
  BY InitTypeOK
<1>2. Count = 0
  BY DEF Init, Count
<1>3. Queue = <<>>
  BY <1>1, <1>2, QueueIsSeq, EmptySeq
<1> QED
  BY <1>3, TimerAssumption DEF Init, Events!Init, Ids

(* A tick puts an event, loses one, or leaves the queue alone.             *)
LEMMA CountQueue == TypeOK /\ TypeOK' /\ CountTimer => [Events!Next]_Events!vars
<1> SUFFICES ASSUME TypeOK, TypeOK', CountTimer PROVE [Events!Next]_Events!vars
  OBVIOUS
<1>1. irq \in Ids /\ id' = id
  BY TimerAssumption DEF TypeOK, CountTimer, Ids, locals
<1>2. Enqueue(irq) \/ UNCHANGED <<ring, lost>>
  BY DEF CountTimer
<1>3. CASE UNCHANGED <<ring, lost>>
  BY <1>1, <1>3, RingUntouched
<1>4. CASE Enqueue(irq) /\ Full
  <2>1. lost' = 1 - lost /\ UNCHANGED ring
    BY <1>4 DEF Enqueue
  <2>2. Queue' = Queue
    BY <2>1 DEF ring, Queue, Count, Place
  <2>3. Len(Queue) = Size - 1
    BY <1>4, QueueIsSeq, FullAndEmpty
  <2> QED
    BY <1>1, <2>1, <2>2, <2>3 DEF Events!Next, Events!Lose
<1>5. CASE Enqueue(irq) /\ ~Full
  <2>1. /\ ids' = [ids EXCEPT ![tail] = irq] /\ tail' = Succ(tail)
        /\ UNCHANGED <<head, lost>>
    BY <1>5 DEF Enqueue
  <2>2. Queue' = Append(Queue, irq)
    BY <1>1, <1>5, <2>1, EnqueueAppends
  <2>3. Len(Queue) < Size - 1
    BY <1>5, QueueIsSeq, FullAndEmpty, TimerAssumption
  <2> QED
    BY <1>1, <2>1, <2>2, <2>3 DEF Events!Next, Events!Put
<1> QED
  BY <1>2, <1>3, <1>4, <1>5

(* Every step is a step of the queue or leaves it alone.                   *)
LEMMA NextQueue == TypeOK /\ TypeOK' /\ [Next]_vars => [Events!Next]_Events!vars
<1> SUFFICES ASSUME TypeOK, TypeOK', [Next]_vars PROVE [Events!Next]_Events!vars
  OBVIOUS
<1>1. CASE CountTimer
  BY <1>1, CountQueue
<1>2. CASE Dequeue /\ ~Empty
  <2>1. /\ id' = ids[head] /\ head' = Succ(head) /\ UNCHANGED <<tail, ids, lost>>
    BY <1>2 DEF Dequeue
  <2> QED
    BY <1>2, <2>1, DequeueTakes DEF Events!Next, Events!Take
<1>3. CASE ~CountTimer /\ ~(Dequeue /\ ~Empty)
  <2>1. UNCHANGED <<ring, id, lost>>
    BY <1>3 DEF Next, Loop, Create, ChangePeriod, StopTimer, StartTimer, StartClear,
                StartActivate, GoOn, Dequeue, DispatchFlag, Interrupt, vars, locals, ring
  <2> QED
    BY <2>1, RingUntouched
<1> QED
  BY <1>1, <1>2, <1>3

(* The ring of timer events is a FIFO queue of Size - 1 places: the loop   *)
(* takes out what the interrupt put in, in order, each once.               *)
THEOREM Refinement == Spec => QueueSpec
  BY InitQueue, NextQueue, TypeCorrect, PTL DEF Spec, QueueSpec, Events!Spec
=============================================================================
