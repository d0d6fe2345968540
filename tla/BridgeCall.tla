---------------------------- MODULE BridgeCall ----------------------------
(***************************************************************************)
(* What the host's transport promises of a call to the bridge: the call    *)
(* ends answered or failed, its request is processed at most once, and an  *)
(* answer tells what the firmware did with that request.  A call that      *)
(* failed promises nothing: its request may have been processed, may never *)
(* be, or may be processed later.                                          *)
(*                                                                         *)
(* The promise holds within one connection.  Sequence numbers start again  *)
(* with each, so the answer to a call of an earlier one may be taken for   *)
(* the answer to this.                                                     *)
(***************************************************************************)
EXTENDS Naturals

VARIABLES
  call,        \* calls begun so far; the number of the one in hand
  busy,        \* a call is under way
  outcome,     \* of the last call: "none" | "ok" | "refused" | "failed"
  processed,   \* requests the firmware has processed
  done,        \* those of them it answered with OK
  base         \* last call of the earlier connections

vars == <<call, busy, outcome, processed, done, base>>

Init ==
  /\ call = 0 /\ busy = FALSE /\ outcome = "none"
  /\ processed = {} /\ done = {} /\ base = 0

Connect ==
  /\ ~busy
  /\ base' = call
  /\ UNCHANGED <<call, busy, outcome, processed, done>>

Begin ==
  /\ ~busy
  /\ call' = call + 1 /\ busy' = TRUE /\ outcome' = "none"
  /\ UNCHANGED <<processed, done, base>>

Process(i) ==
  /\ i \in 1 .. call \ processed
  /\ processed' = processed \union {i}
  /\ done' \in {done, done \union {i}}
  /\ UNCHANGED <<call, busy, outcome, base>>

Return ==
  /\ busy
  /\ busy' = FALSE
  /\ \/ outcome' = "ok" /\ \E i \in done : i = call \/ i <= base
     \/ outcome' = "refused" /\ \E i \in processed \ done : i = call \/ i <= base
     \/ outcome' = "failed"
  /\ UNCHANGED <<call, processed, done, base>>

(* Not connected: the call fails before it is one.                         *)
FailAtOnce ==
  /\ ~busy
  /\ call' \in {call, call + 1} /\ outcome' = "failed"
  /\ UNCHANGED <<busy, processed, done, base>>

Next == Connect \/ Begin \/ (\E i \in 1 .. call : Process(i)) \/ Return \/ FailAtOnce

Spec == Init /\ [][Next]_vars
=============================================================================
