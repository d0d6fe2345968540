---------------------------- MODULE BridgeDevice ----------------------------
(***************************************************************************)
(* What the bridge firmware promises at its two endpoints: it holds one    *)
(* request at a time, answers it once, with the request's command and      *)
(* sequence byte and a status that request may get, and gives answers in   *)
(* the order of the requests.  It restarts only after it has answered OK   *)
(* to a request for that.  Nothing else but a bus reset may lose what is   *)
(* on its way, or zero it, and not even that repeats or exchanges it.      *)
(*                                                                         *)
(* held, given and offered are empty or hold one report.                   *)
(***************************************************************************)
EXTENDS BridgeProtocol

CONSTANTS
  Inputs,        \* the reports the host may send
  MaxBusResets   \* bound: bus resets

VARIABLES
  up,        \* the application runs, and not the bootloader
  held,      \* the request taken and not yet answered
  given,     \* its answer, on the way to the IN endpoint
  offered,   \* the answer the host fetches next
  due,       \* a restart of the MCU is to come
  busResets  \* bus resets so far

vars == <<up, held, given, offered, due, busResets>>

Init ==
  /\ up = TRUE
  /\ held = {} /\ given = {} /\ offered = {}
  /\ due = FALSE /\ busResets = 0

(* No request is taken before the last one was answered.                   *)
Accept(r) ==
  /\ up /\ held = {}
  /\ held' = {r}
  /\ UNCHANGED <<up, given, offered, due, busResets>>

Answer(r) ==
  /\ held = {r} /\ given = {}
  /\ held' = {}
  /\ \E s \in Verdicts(r), n \in Reasons : given' = {Response(r, s, n)}
  /\ UNCHANGED <<up, offered, due, busResets>>

Promises(a) == a.cmd \in {"RESET_MCU", "ENTER_IAP"} /\ a.status = "OK"

(* The answer takes the place of one the host has not fetched.  In that    *)
(* case only, it may be fetched twice: the endpoint still offers its       *)
(* buffer while the new answer is copied into it, and offers it again      *)
(* afterwards.                                                             *)
Offer(a) ==
  /\ given = {a}
  /\ offered' = {a}
  /\ \/ given' = {} /\ due' \in {due, due \/ Promises(a)}
     \/ offered # {} /\ UNCHANGED <<given, due>>
  /\ UNCHANGED <<up, held, busResets>>

Fetch ==
  /\ offered # {}
  /\ offered' = {}
  /\ UNCHANGED <<up, held, given, due, busResets>>

(* A new request for a restart is accepted: the restart now waits for the  *)
(* answer to that one.                                                     *)
Postpone ==
  /\ \E r \in held : r.magic = 1 /\ Resets(r.cmd, r.len)
  /\ due' = FALSE
  /\ UNCHANGED <<up, held, given, offered, busResets>>

(* What a bus reset may leave of a request: it, nothing, or a part without *)
(* the magic byte, to be answered as such.  The length is of no account    *)
(* then.                                                                   *)
Remains(r) ==
  {{}, {r}} \union
  {{q} : q \in [magic : {0}, cmd : {r.cmd, "ZERO"}, seq : {r.seq, 0},
                len : {r.len, 0}]}

(* And of an answer: it, nothing, or a part, which may end in zeros.       *)
ReplyRemains(a) == {{}} \union {{q} : q \in LateReply(a) \union EarlyReply(a)}

BusReset ==
  /\ up /\ busResets < MaxBusResets
  /\ busResets' = busResets + 1
  /\ \/ UNCHANGED held
     \/ \E r \in held : held' \in Remains(r)
  /\ \/ UNCHANGED given
     \/ \E a \in given : given' \in ReplyRemains(a)
  /\ \/ UNCHANGED offered
     \/ offered # {} /\ offered = given /\ offered' = given'
  /\ due' \in {due, FALSE}
  /\ UNCHANGED up

(* The MCU is reset, into the application or the bootloader.               *)
Restart ==
  /\ due
  /\ up' \in BOOLEAN
  /\ held' = {} /\ given' = {} /\ offered' = {}
  /\ due' = FALSE
  /\ UNCHANGED busResets

(* The bootloader's session ends.                                          *)
Return ==
  /\ ~up
  /\ up' = TRUE
  /\ UNCHANGED <<held, given, offered, due, busResets>>

Next ==
  \/ \E r \in Inputs : Accept(r)
  \/ \E r \in held : Answer(r)
  \/ \E a \in given : Offer(a)
  \/ Fetch \/ Postpone \/ BusReset \/ Restart \/ Return

Spec == Init /\ [][Next]_vars
=============================================================================
