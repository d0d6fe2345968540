----------------------------- MODULE EventQueue -----------------------------
(***************************************************************************)
(* What the queue of timer events promises: events come out in the order   *)
(* in which they went in, each once, and one is lost only while the queue  *)
(* holds Cap others.                                                       *)
(***************************************************************************)
EXTENDS Naturals, Sequences

CONSTANTS
  Ids,     \* the events
  Cap      \* how many the queue holds

VARIABLES
  queue,   \* the events waiting, oldest first
  last,    \* the event taken out last
  lost     \* changes whenever an event is lost

vars == <<queue, last, lost>>

Init == queue = <<>> /\ last \in Ids /\ lost = 0

Put(i) ==
  /\ Len(queue) < Cap
  /\ queue' = Append(queue, i)
  /\ UNCHANGED <<last, lost>>

Lose ==
  /\ Len(queue) = Cap
  /\ lost' = 1 - lost
  /\ UNCHANGED <<queue, last>>

Take ==
  /\ queue # <<>>
  /\ last' = Head(queue) /\ queue' = Tail(queue)
  /\ UNCHANGED lost

Next == (\E i \in Ids : Put(i)) \/ Lose \/ Take

Spec == Init /\ [][Next]_vars
=============================================================================
