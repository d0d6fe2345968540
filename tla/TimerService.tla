---------------------------- MODULE TimerService ----------------------------
(***************************************************************************)
(* The software timers of the firmware (timer_service.c).  A 1 ms          *)
(* interrupt counts every active timer; one that expires puts its id into  *)
(* a ring buffer, or, if it is a flag timer, sets its pending flag.  The   *)
(* super-loop empties the ring, looks at the flags and calls back.         *)
(*                                                                         *)
(* The interrupt preempts the loop and is never preempted by it: irq is    *)
(* the timer it handles next, and while it runs the loop stands still.     *)
(* Creating a timer and stopping one are single steps, for the interrupt   *)
(* cannot tell how far they are; DequeueEvent and TakePending run with     *)
(* interrupts disabled.                                                    *)
(***************************************************************************)
EXTENDS Naturals, Sequences, FiniteSets

CONSTANTS
  NTimers,     \* TIMER_SERVICE_MAX_TIMERS (16)
  Size,        \* TIMER_EVENT_QUEUE_SIZE (16)
  WordMax,     \* largest value of the unsigned short counter (65535)
  Periods,     \* periods the application asks for
  MaxLag       \* bound: interrupts during one turn of the loop

ASSUME TimerAssumption ==
  /\ NTimers \in Nat \ {0}
  /\ Size \in Nat /\ Size >= 2
  /\ WordMax \in Nat \ {0}
  /\ Periods \subseteq 0 .. WordMax
  /\ MaxLag \in Nat \ {0}

VARIABLES
  \* g_TimerService_List; callback says whether there is one
  callback, kind, period, counter, active, pending,
  \* g_TimerEventQueue
  head, tail, ids,
  \* the interrupt: NTimers when it is not running
  irq,
  \* the loop: where it is, and its locals
  pc,
  id,          \* the event dequeued last
  scan,        \* DispatchFlag's i
  from,        \* which half of Dispatch runs, and calls back
  arg, back,   \* StartTimer's timer, and where it returns to
  \* bound and history
  lag,         \* interrupts since the turn began
  lost,        \* flips when an event is dropped
  expired      \* has the timer expired since it was started?

timers  == <<callback, kind, period>>
running == <<counter, active, pending>>
ring    == <<head, tail, ids>>
locals  == <<id, scan, from, arg, back>>
vars    == <<timers, running, ring, irq, pc, locals, lag, lost, expired>>

Ids == 0 .. NTimers - 1

Init ==
  /\ callback = [t \in Ids |-> 0] /\ kind = [t \in Ids |-> "queue"]
  /\ period = [t \in Ids |-> 0] /\ counter = [t \in Ids |-> 0]
  /\ active = [t \in Ids |-> 0] /\ pending = [t \in Ids |-> 0]
  /\ head = 0 /\ tail = 0
  /\ ids = [k \in 0 .. Size - 1 |-> 0]
  /\ irq = NTimers
  /\ pc = "loop"
  /\ id = 0 /\ scan = 0 /\ from = "queue" /\ arg = 0 /\ back = "queue"
  /\ lag = 0 /\ lost = 0 /\ expired = [t \in Ids |-> 0]

-----------------------------------------------------------------------------
(* Helpers.  A definition named Bug... is the one after it with a          *)
(* plausible mistake; no specification uses it.                            *)

(* The next place in the ring.                                             *)
Succ(k) == IF k + 1 >= Size THEN 0 ELSE k + 1

Full == Succ(tail) = head
Empty == head = tail

Counted(c) == IF c < WordMax THEN c + 1 ELSE c

BugExpiresAt(c, p) == c = p
BugExpiresLate(c, p) == c > p
Expires(c, p) == c >= p

-----------------------------------------------------------------------------
(* The interrupt.                                                          *)

(* The tick begins.  MaxLag says that the loop is not starved for good.    *)
Interrupt ==
  /\ irq = NTimers /\ lag < MaxLag
  /\ irq' = 0 /\ lag' = lag + 1
  /\ UNCHANGED <<timers, running, ring, pc, locals, lost, expired>>

BugEnqueue(t) ==     \* a full ring drops its oldest event instead
  /\ ids' = [ids EXCEPT ![tail] = t] /\ tail' = Succ(tail)
  /\ IF Full THEN lost' = 1 - lost /\ head' = Succ(head) ELSE UNCHANGED <<head, lost>>
(* EnqueueEventFromISR: a full ring drops the event.                       *)
Enqueue(t) ==
  IF Full
  THEN lost' = 1 - lost /\ UNCHANGED ring
  ELSE /\ ids' = [ids EXCEPT ![tail] = t]
       /\ tail' = Succ(tail)
       /\ UNCHANGED <<head, lost>>

(* One timer of Tick1ms.                                                   *)
CountTimer ==
  /\ irq < NTimers
  /\ irq' = irq + 1
  /\ LET counted == Counted(counter[irq])
         expires == Expires(counted, period[irq])
     IN  IF active[irq] = 1 /\ callback[irq] = 1
         THEN /\ counter' = [counter EXCEPT ![irq] = IF expires THEN 0 ELSE counted]
              /\ expired' = [expired EXCEPT ![irq] = IF expires THEN 1 ELSE @]
              /\ IF expires /\ kind[irq] = "flag"
                 THEN pending' = [pending EXCEPT ![irq] = 1]
                 ELSE UNCHANGED pending
              /\ IF expires /\ kind[irq] = "queue"
                 THEN Enqueue(irq)
                 ELSE UNCHANGED <<ring, lost>>
         ELSE UNCHANGED <<counter, pending, ring, lost, expired>>
  /\ UNCHANGED <<timers, active, pc, locals, lag>>

-----------------------------------------------------------------------------
(* The application's calls, from the loop or from a callback; one at each  *)
(* place.                                                                  *)

Calling == irq = NTimers /\ pc \in {"loop", "callback"}

(* Where the loop goes after the call: a callback returns to its caller.   *)
After == IF pc = "callback" THEN from ELSE "queue"

Free == {t \in Ids : callback[t] = 0}

(* CreateTimerQueue and CreateTimerFlag: the first free entry, or none.    *)
Create(p, k) ==
  /\ Calling
  /\ pc' = After
  /\ IF Free = {}
     THEN UNCHANGED <<timers, running>>
     ELSE \E t \in Free :
            /\ \A u \in Free : t <= u
            /\ callback' = [callback EXCEPT ![t] = 1]
            /\ kind' = [kind EXCEPT ![t] = k]
            /\ period' = [period EXCEPT ![t] = p]
            /\ counter' = [counter EXCEPT ![t] = 0]
            /\ active' = [active EXCEPT ![t] = 0]
            /\ pending' = [pending EXCEPT ![t] = 0]
  /\ UNCHANGED <<ring, irq, locals, lag, lost, expired>>

ChangePeriod(t, p) ==
  /\ Calling
  /\ pc' = After
  /\ period' = [period EXCEPT ![t] = p]
  /\ UNCHANGED <<callback, kind, running, ring, irq, locals, lag, lost, expired>>

BugStopTimer(t) ==         \* a pending expiry is kept
  /\ Calling
  /\ pc' = After
  /\ active' = [active EXCEPT ![t] = 0]
  /\ UNCHANGED <<timers, counter, pending, ring, irq, locals, lag, lost, expired>>
StopTimer(t) ==
  /\ Calling
  /\ pc' = After
  /\ active' = [active EXCEPT ![t] = 0]
  /\ pending' = [pending EXCEPT ![t] = 0]
  /\ UNCHANGED <<timers, counter, ring, irq, locals, lag, lost, expired>>

(* StartTimer in three steps: a timer that runs already may expire between *)
(* any two of them.                                                        *)
StartTimer(t) ==
  /\ Calling /\ callback[t] = 1
  /\ counter' = [counter EXCEPT ![t] = 0]
  /\ arg' = t /\ back' = After
  /\ pc' = "start"
  /\ UNCHANGED <<timers, active, pending, ring, irq, id, scan, from, lag, lost,
                 expired>>

StartClear ==
  /\ irq = NTimers /\ pc = "start"
  /\ pending' = [pending EXCEPT ![arg] = 0]
  /\ expired' = [expired EXCEPT ![arg] = 0]
  /\ pc' = "activate"
  /\ UNCHANGED <<timers, counter, active, ring, irq, locals, lag, lost>>

StartActivate ==
  /\ irq = NTimers /\ pc = "activate"
  /\ active' = [active EXCEPT ![arg] = 1]
  /\ pc' = back
  /\ arg' = 0 /\ back' = "queue"        \* out of scope
  /\ UNCHANGED <<timers, counter, pending, ring, irq, id, scan, from, lag, lost,
                 expired>>

-----------------------------------------------------------------------------
(* The dispatch, a turn of the loop.                                       *)

(* Nothing is called: the loop goes on to Dispatch, or a callback returns. *)
GoOn ==
  /\ Calling
  /\ pc' = After
  /\ UNCHANGED <<timers, running, ring, irq, locals, lag, lost, expired>>

BugDequeue ==        \* the head is advanced before the event is read
  /\ irq = NTimers /\ pc = "queue"
  /\ IF Empty
     THEN /\ pc' = "flag" /\ from' = "flag"
          /\ UNCHANGED <<ring, id, scan>>
     ELSE /\ head' = Succ(head) /\ id' = ids[Succ(head)]
          /\ pc' = "callback"
          /\ UNCHANGED <<tail, ids, scan, from>>
  /\ UNCHANGED <<timers, running, irq, arg, back, lag, lost, expired>>
(* DispatchQueue: one event, or on to the flags.                           *)
Dequeue ==
  /\ irq = NTimers /\ pc = "queue"
  /\ IF Empty
     THEN /\ pc' = "flag" /\ from' = "flag"
          /\ UNCHANGED <<ring, id, scan>>
     ELSE /\ id' = ids[head] /\ head' = Succ(head)
          /\ pc' = IF callback[ids[head]] = 1 THEN "callback" ELSE "queue"
          /\ UNCHANGED <<tail, ids, scan, from>>
  /\ UNCHANGED <<timers, running, irq, arg, back, lag, lost, expired>>

BugDispatchFlag ==   \* the scan stops at the first pending timer
  /\ irq = NTimers /\ pc = "flag"
  /\ IF scan = NTimers
     THEN /\ pc' = "loop" /\ lag' = 0 /\ scan' = 0 /\ from' = "queue"
          /\ UNCHANGED pending
     ELSE /\ IF kind[scan] = "flag" /\ active[scan] = 1 /\ callback[scan] = 1
                  /\ pending[scan] = 1
             THEN /\ pending' = [pending EXCEPT ![scan] = 0]
                  /\ pc' = "callback" /\ scan' = NTimers
             ELSE scan' = scan + 1 /\ UNCHANGED <<pending, pc>>
          /\ UNCHANGED <<lag, from>>
  /\ UNCHANGED <<timers, counter, active, ring, irq, id, arg, back, lost, expired>>
(* DispatchFlag: one timer, or the end of the turn.                        *)
DispatchFlag ==
  /\ irq = NTimers /\ pc = "flag"
  /\ IF scan = NTimers
     THEN /\ pc' = "loop" /\ lag' = 0 /\ scan' = 0 /\ from' = "queue"
          /\ UNCHANGED pending
     ELSE /\ scan' = scan + 1
          /\ IF kind[scan] = "flag" /\ active[scan] = 1 /\ callback[scan] = 1
                  /\ pending[scan] = 1
             THEN /\ pending' = [pending EXCEPT ![scan] = 0]
                  /\ pc' = "callback"
             ELSE UNCHANGED <<pending, pc>>
          /\ UNCHANGED <<lag, from>>
  /\ UNCHANGED <<timers, counter, active, ring, irq, id, arg, back, lost, expired>>

-----------------------------------------------------------------------------
Loop ==
  \/ \E p \in Periods, k \in {"queue", "flag"} : Create(p, k)
  \/ \E t \in Ids, p \in Periods : ChangePeriod(t, p)
  \/ \E t \in Ids : StopTimer(t) \/ StartTimer(t)
  \/ StartClear \/ StartActivate
  \/ GoOn \/ Dequeue \/ DispatchFlag

Next == Loop \/ Interrupt \/ CountTimer

Spec == Init /\ [][Next]_vars

(* The loop never blocks, the hardware timer runs, its handler returns.    *)
FairSpec == Spec /\ WF_vars(Loop) /\ WF_vars(Interrupt) /\ WF_vars(CountTimer)

-----------------------------------------------------------------------------
(* Properties.                                                             *)

(* Every variable stays in its range.  A counter never reaches WordMax, so *)
(* even a period of WordMax is met, and the saturation is never needed.    *)
TypeOK ==
  /\ callback \in [Ids -> {0, 1}] /\ kind \in [Ids -> {"queue", "flag"}]
  /\ period \in [Ids -> 0 .. WordMax] /\ counter \in [Ids -> 0 .. WordMax - 1]
  /\ active \in [Ids -> {0, 1}] /\ pending \in [Ids -> {0, 1}]
  /\ head \in 0 .. Size - 1 /\ tail \in 0 .. Size - 1
  /\ ids \in [0 .. Size - 1 -> Ids]
  /\ irq \in 0 .. NTimers
  /\ pc \in {"loop", "queue", "flag", "callback", "start", "activate"}
  /\ id \in Ids /\ scan \in 0 .. NTimers /\ from \in {"queue", "flag"}
  /\ arg \in Ids /\ back \in {"queue", "flag"}
  /\ lag \in 0 .. MaxLag /\ lost \in {0, 1} /\ expired \in [Ids -> {0, 1}]

(* A flag timer calls back only for an expiry of its present run: neither  *)
(* a stop nor a restart, which the interrupt may hit between two of its    *)
(* stores, leaves an old expiry pending.                                   *)
PendingIsDue ==
  \A t \in Ids : pending[t] = 1 =>
    /\ kind[t] = "flag" /\ active[t] = 1
    /\ expired[t] = 1 \/ (pc = "start" /\ arg = t)

(* The ring is an EventQueue: the loop takes events out in the order in    *)
(* which the interrupt put them in, each once, and only a queue of         *)
(* Size - 1 loses one.                                                     *)
Count == IF tail >= head THEN tail - head ELSE tail + Size - head
Place(k) == IF head + k - 1 >= Size THEN head + k - 1 - Size ELSE head + k - 1
Queue == [k \in 1 .. Count |-> ids[Place(k)]]
Events == INSTANCE EventQueue WITH Cap <- Size - 1, queue <- Queue, last <- id
QueueSpec == Events!Spec

(* An event in the ring reaches its callback.                              *)
EventRuns ==
  \A t \in Ids :
    (\E k \in 1 .. Count : Queue[k] = t) ~> (pc = "callback" /\ id = t)

(* A pending flag timer is called back, or stopped or started anew.        *)
PendingRuns == \A t \in Ids : pending[t] = 1 ~> pending[t] = 0

(* A timer that counts expires, however its period is changed under it.    *)
TimerExpires ==
  \A t \in Ids : active[t] = 1 /\ counter[t] > 0 ~> counter[t] = 0 \/ active[t] = 0

-----------------------------------------------------------------------------
(* The inductive invariant: only a timer that was created is active, and   *)
(* StartTimer works on one that was; it has wiped the old expiries before  *)
(* it activates the timer.                                                 *)
TimerInv ==
  /\ PendingIsDue
  /\ \A t \in Ids : active[t] = 1 => callback[t] = 1
  /\ pc \in {"start", "activate"} => callback[arg] = 1
  /\ pc = "activate" /\ pending[arg] = 1 => expired[arg] = 1
=============================================================================
