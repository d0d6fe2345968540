------------------------------ MODULE IapBoot ------------------------------
(***************************************************************************)
(* The USB bootloader of the bridge board (ISP_HID): what it does at every *)
(* reset, and how it takes a new application from the host, packet by      *)
(* packet, word by word, with power that may fail between any two words,   *)
(* an interrupt that takes the next packet at any time, a flash controller *)
(* that may refuse any command, and a host that loses patience.            *)
(*                                                                         *)
(* The flash is the application's part of it, in words from its start.     *)
(* The last word of an image is its checksum: the words of one image pass  *)
(* the check together, and no mixture does; its words differ from erased   *)
(* ones.  A packet carries the words of one image from a position on.      *)
(*                                                                         *)
(* FMC_Proc stops at the first command the flash refuses (ISPFF) and       *)
(* returns -1, which ParseCmd never looks at: the rest of the erase or of  *)
(* the packet is left out, and the packet is answered all the same.  The   *)
(* history variable missed holds the words so left.  The answers carry     *)
(* sums over the packet and the image, which would tell; only the host's   *)
(* tool looks at them, which is not part of the repository.  This host     *)
(* does not, and goes on, asks for a resend, begins anew or gives up as it *)
(* likes.                                                                  *)
(***************************************************************************)
EXTENDS Integers

CONSTANTS
  Images,      \* complete images, checksum included
  Size,        \* APROM_APPLICATION_SIZE, in words
  Page,        \* FMC_FLASH_PAGE_SIZE, in words
  FirstLen,    \* words of data in a CMD_UPDATE_APROM packet
  NextLen,     \* words of data in a packet that continues it
  MaxTroubles  \* bound: flash commands refused and CMD_RESEND_PACKETs sent
               \* between two resets

ASSUME IapAssumption ==
  /\ Page \in Nat \ {0} /\ Size \in Nat \ {0} /\ Size % Page = 0
  /\ FirstLen \in 1 .. Page /\ NextLen \in 1 .. Page
  /\ MaxTroubles \in Nat
  /\ Images # {} /\ {"erased", "wrong", "none"} \cap Images = {}

Words == 0 .. Size - 1

(* What a word of the flash may hold.                                      *)
Contents == Images \union {"erased", "wrong"}

VARIABLES
  mode,      \* "boot", "iap" (waiting for an update), "app"
  flash,
  missed,    \* words that a refused flash command of this update left
  \* static variables of ParseCmd
  start,     \* StartAddress
  total,     \* TotalLen
  last,      \* LastDataLen
  gcmd,      \* command under way: "update" or another
  \* one turn of the loop
  pc,
  cmd,       \* lcmd
  count,     \* srclen
  next,      \* next word or page of a flash operation
  saved,     \* aprom_buf: the flash as it was read
  \* hid_transfer.c
  ready,     \* bUsbDataReady
  rcv,       \* usb_rcvbuf
  answer,    \* EP2 holds an answer
  \* the host
  waiting,   \* for the answer to its packet
  sent,      \* that packet
  pos,       \* words it takes for delivered
  \* history
  orderly,   \* the host has kept to the protocol since it began its update
  \* bound
  troubles

rom == <<flash, missed, troubles>>
session == <<start, total, last, gcmd>>
turn == <<pc, cmd, count, next, saved>>
usb == <<ready, rcv, answer>>
host == <<waiting, sent, pos, orderly>>
vars == <<mode, rom, session, turn, usb, host>>

Packet(c, i, a) == [cmd |-> c, image |-> i, at |-> a]
NoPacket == Packet("none", "none", 0)
Commands == {"update", "data", "resend", "run", "connect"}
Nowhere == - Page    \* StartAddress 0 is not the application's
Blank == [w \in Words |-> "erased"]

Init ==
  /\ mode = "boot"
  /\ \E i \in Images : flash = [w \in Words |-> i]
  /\ missed = {} /\ troubles = 0
  /\ start = Nowhere /\ total = 0 /\ last = 0 /\ gcmd = "none"
  /\ pc = "loop" /\ cmd = "none" /\ count = 0 /\ next = 0 /\ saved = Blank
  /\ ready = FALSE /\ rcv = NoPacket /\ answer = FALSE
  /\ waiting = FALSE /\ sent = NoPacket /\ pos = 0
  /\ orderly = FALSE

(* Every reset starts the bootloader with its variables as they were, and  *)
(* takes the USB device, and with it the host's session, away.             *)
Reset ==
  /\ mode' = "boot" /\ missed' = {} /\ troubles' = 0
  /\ start' = Nowhere /\ total' = 0 /\ last' = 0 /\ gcmd' = "none"
  /\ pc' = "loop" /\ cmd' = "none" /\ count' = 0 /\ next' = 0 /\ saved' = Blank
  /\ ready' = FALSE /\ rcv' = NoPacket /\ answer' = FALSE
  /\ waiting' = FALSE /\ sent' = NoPacket /\ pos' = 0
  /\ orderly' = FALSE

-----------------------------------------------------------------------------
(* Reset and start.  A definition named Bug... is the one after it with a  *)
(* plausible mistake; no specification uses it.                            *)

(* IAP_VerifyApplication: the vectors and the checksum are there, and the  *)
(* words before the checksum have that checksum.                           *)
Present == flash[0] # "erased" /\ flash[Size - 1] # "erased"

BugVerified == Present      \* the checksum is there, but not compared
Verified ==
  /\ Present
  /\ \E i \in Images : /\ \A w \in 0 .. Size - 2 : flash[w] = i
                       /\ flash[Size - 1] = i

(* A word that cannot be read is taken for an erased one (IAP_ReadWord),   *)
(* and fails the check.  No code of the repository writes the mailbox that *)
(* would ask for an update in spite of a good application.                 *)
Boot ==
  /\ mode = "boot"
  /\ \/ Verified /\ mode' = "app"
     \/ mode' = "iap"
  /\ UNCHANGED <<rom, session, turn, usb, host>>

PowerFails == Reset /\ UNCHANGED flash

PageOf(a) == a - (a % Page)

WordsOf(page) == page .. page + Page - 1

Erased(f, page) == [w \in Words |-> IF w \in WordsOf(page) THEN "erased" ELSE f[w]]

(* ENTER_IAP of the running application erases the page of the checksum,   *)
(* or tries to.  The application runs on, at least until its answer is     *)
(* under way, and for good if a bus reset comes first (HidTool).           *)
EnterIap ==
  /\ mode = "app"
  /\ flash' \in {flash, Erased(flash, PageOf(Size - 1))}
  /\ UNCHANGED <<mode, missed, troubles, session, turn, usb, host>>

(* Its delayed reset, for ENTER_IAP or for RESET_MCU.                      *)
LeaveApp == mode = "app" /\ Reset /\ UNCHANGED flash

-----------------------------------------------------------------------------
(* ParseCmd.                                                               *)

Smaller(a, b) == IF a < b THEN a ELSE b

InRange(a, n) == n > 0 /\ a \in Words /\ n <= Size - a

Turn(at) == mode = "iap" /\ pc = at

(* CMD_UPDATE_APROM of the whole application.                              *)
TakeUpdate ==
  /\ rcv.cmd = "update"
  /\ start' = 0 /\ total' = Size /\ gcmd' = "update" /\ last' = last
  /\ pc' = "erase" /\ missed' = {}

TakeData ==
  /\ rcv.cmd = "data"
  /\ pc' = IF gcmd = "update" THEN "write" ELSE "reply"
  /\ UNCHANGED <<session, missed>>

BugTakeResend ==    \* the length still to come is forgotten
  /\ rcv.cmd = "resend"
  /\ start' = start - last /\ total' = total
  /\ pc' = IF start' >= 0 /\ PageOf(start') + Page <= Size THEN "resend" ELSE "reply"
  /\ UNCHANGED <<last, gcmd, missed>>

(* CMD_RESEND_PACKET: the last packet is taken back, also when there is    *)
(* nothing to take back in the flash.                                      *)
TakeResend ==
  /\ rcv.cmd = "resend"
  /\ start' = start - last /\ total' = total + last
  /\ pc' = IF start' >= 0 /\ PageOf(start') + Page <= Size THEN "resend" ELSE "reply"
  /\ UNCHANGED <<last, gcmd, missed>>

TakeOther ==
  /\ rcv.cmd = "connect"
  /\ gcmd' = "other" /\ pc' = "reply"
  /\ UNCHANGED <<start, total, last, missed>>

(* The packet's command and parameters are read.                           *)
TakePacket ==
  /\ Turn("loop") /\ ready
  /\ TakeUpdate \/ TakeData \/ TakeResend \/ TakeOther
  /\ cmd' = rcv.cmd /\ next' = 0
  /\ UNCHANGED <<mode, flash, troubles, count, saved, usb, host>>

(* CMD_RUN_APROM, CMD_RUN_LDROM and CMD_RESET.                             *)
Run ==
  /\ Turn("loop") /\ ready /\ rcv.cmd = "run"
  /\ Reset /\ UNCHANGED flash

(* The words ws are left out: none if the operation was complete.          *)
Miss(ws) ==
  /\ missed' = missed \union ws
  /\ \/ ws = {} /\ UNCHANGED troubles
     \/ ws # {} /\ troubles < MaxTroubles /\ troubles' = troubles + 1

(* EraseAP, a page at a time, to the end or to a refusal.                  *)
ErasePage ==
  /\ Turn("erase")
  /\ \/ /\ next < Size
        /\ flash' = Erased(flash, next) /\ next' = next + Page
        /\ UNCHANGED <<pc, missed, troubles>>
     \/ /\ pc' = "write"
        /\ Miss({w \in Words : w >= next})
        /\ UNCHANGED <<flash, next>>
  /\ UNCHANGED <<mode, session, cmd, count, saved, usb, host>>

BeginWrite ==
  /\ Turn("write")
  /\ count' = Smaller(total, IF cmd = "update" THEN FirstLen ELSE NextLen)
  /\ total' = total - count'
  /\ next' = 0
  /\ pc' = IF InRange(start, count') THEN "program" ELSE "reply"
  /\ UNCHANGED <<mode, rom, start, last, gcmd, cmd, saved, usb, host>>

(* The next word of the receive buffer is right for its place, unless the  *)
(* buffer is another packet's by now.                                      *)
Source ==
  IF rcv.cmd = cmd /\ rcv.at = start THEN rcv.image ELSE "wrong"

(* Programming only clears bits.                                           *)
Programmed(f, a, v) ==
  [f EXCEPT ![a] = IF @ = "erased" \/ @ = v THEN v ELSE "wrong"]

(* WriteData, a word at a time, to the end or to a refusal: the address    *)
(* advances by the whole packet in both cases.                             *)
ProgramWord ==
  /\ Turn("program")
  /\ \/ /\ next < count
        /\ flash' = Programmed(flash, start + next, Source)
        /\ next' = next + 1
        /\ UNCHANGED <<start, last, pc, missed, troubles>>
     \/ /\ Miss(start + next .. start + count - 1)
        /\ start' = start + count /\ last' = count
        /\ pc' = "reply"
        /\ UNCHANGED <<flash, next>>
  /\ UNCHANGED <<mode, total, gcmd, cmd, count, saved, usb, host>>

(* CMD_RESEND_PACKET: the page is erased and its words before the packet   *)
(* are written back.  If word k cannot be read, the buffer keeps there     *)
(* what it had from earlier.                                               *)
ReadBack(k) ==
  \E s \in [k .. start - 1 -> Contents] :
    saved' = [w \in Words |-> IF w \in k .. start - 1 THEN s[w] ELSE flash[w]]

ResendErase ==
  /\ Turn("resend")
  /\ \E k \in PageOf(start) .. start :
       /\ ReadBack(k)
       /\ \/ /\ flash' = Erased(flash, PageOf(start))
             /\ Miss(k .. start - 1)
          \/ /\ Miss(WordsOf(PageOf(start)))
             /\ UNCHANGED flash
  /\ next' = PageOf(start) /\ pc' = "restore"
  /\ UNCHANGED <<mode, session, cmd, count, usb, host>>

BugReachesNext == start % Page > Page - last + 1   \* off by one

(* The packet to be sent again may end in the next page.                   *)
ReachesNext == start % Page >= Page - last

RestoreWord ==
  /\ Turn("restore")
  /\ \/ /\ next < start
        /\ flash' = Programmed(flash, next, saved[next])
        /\ next' = next + 1
        /\ UNCHANGED <<pc, saved, missed, troubles>>
     \/ /\ Miss(next .. start - 1)
        /\ pc' = IF ReachesNext THEN "erasenext" ELSE "reply"
        /\ saved' = Blank
        /\ UNCHANGED <<flash, next>>
  /\ UNCHANGED <<mode, session, cmd, count, usb, host>>

(* The page after the application's last does not exist: the flash always  *)
(* refuses to erase it.                                                    *)
EraseNext ==
  /\ Turn("erasenext")
  /\ LET page == PageOf(start) + Page
     IN  \/ flash' = Erased(flash, page) /\ UNCHANGED <<missed, troubles>>
         \/ Miss(WordsOf(page) \cap Words) /\ UNCHANGED flash
  /\ pc' = "reply"
  /\ UNCHANGED <<mode, session, cmd, count, next, saved, usb, host>>

(* EP2_Handler.                                                            *)
Reply ==
  /\ Turn("reply")
  /\ answer' = TRUE
  /\ pc' = "clear" /\ next' = 0
  /\ UNCHANGED <<mode, rom, session, cmd, count, saved, ready, rcv, host>>

(* A packet that came since the last one was taken is forgotten with it.   *)
(* The buffer keeps its bytes, which nothing reads again.                  *)
ClearReady ==
  /\ Turn("clear")
  /\ ready' = FALSE /\ rcv' = NoPacket
  /\ pc' = "loop" /\ cmd' = "none" /\ count' = 0
  /\ UNCHANGED <<mode, rom, session, next, saved, answer, host>>

Loop ==
  \/ TakePacket \/ Run \/ ErasePage \/ BeginWrite \/ ProgramWord
  \/ ResendErase \/ RestoreWord \/ EraseNext \/ Reply \/ ClearReady

-----------------------------------------------------------------------------
(* The host, and the interrupt that takes its packet (EP3_Handler).        *)

Send(p) ==
  /\ mode = "iap" /\ ~waiting
  /\ waiting' = TRUE /\ sent' = p
  /\ rcv' = p /\ ready' = TRUE
  /\ UNCHANGED <<mode, flash, missed, session, turn, answer>>

(* An update begins anew; in order if nothing older is still under way.    *)
SendUpdate(i) ==
  /\ Send(Packet("update", i, 0))
  /\ pos' = 0 /\ UNCHANGED troubles
  /\ orderly' = (pc \in {"loop", "clear"} /\ ~answer)

SendData ==
  /\ pos \in Words \ {0}
  /\ Send(Packet("data", sent.image, pos))
  /\ UNCHANGED <<pos, orderly, troubles>>

(* The last packet is to be sent again, or the host thinks it is.          *)
SendResend ==
  /\ troubles < MaxTroubles /\ troubles' = troubles + 1
  /\ Send(Packet("resend", sent.image, 0))
  /\ pos' \in {p \in 0 .. pos : pos - p <= NextLen}
  /\ orderly' = (orderly /\ sent.cmd \in {"update", "data"} /\ pos' = pos - last)

SendOther(c) ==
  /\ Send(Packet(c, sent.image, 0))
  /\ orderly' = FALSE
  /\ UNCHANGED <<pos, troubles>>

Delivered ==
  CASE sent.cmd = "update" -> FirstLen
    [] sent.cmd = "data" -> Smaller(NextLen, Size - pos)
    [] OTHER -> 0

ReadAnswer ==
  /\ waiting /\ answer
  /\ waiting' = FALSE /\ answer' = FALSE
  /\ pos' = pos + Delivered
  /\ UNCHANGED <<mode, rom, session, turn, ready, rcv, sent,
                 orderly>>

GiveUp ==
  /\ waiting
  /\ waiting' = FALSE /\ orderly' = FALSE
  /\ UNCHANGED <<mode, rom, session, turn, usb, sent, pos>>

Host ==
  \/ \E i \in Images : SendUpdate(i)
  \/ SendData \/ SendResend \/ (\E c \in {"run", "connect"} : SendOther(c))
  \/ ReadAnswer \/ GiveUp

-----------------------------------------------------------------------------
Next == Boot \/ PowerFails \/ EnterIap \/ LeaveApp \/ Loop \/ Host

Spec == Init /\ [][Next]_vars

-----------------------------------------------------------------------------
Whole(i) == \A w \in Words : flash[w] = i

(* The flash seen as one place for an image implements AppSlot, whatever   *)
(* was interrupted, lost, repeated, misplaced or refused before: only a    *)
(* whole image is started; the checksum of one that runs may be erased     *)
(* under it, but nothing else comes in its place; and what becomes whole   *)
(* is what the host sends, unless the flash refused a command.             *)
Slot == INSTANCE AppSlot WITH
          image <- IF \E i \in Images : Whole(i) THEN flash[0] ELSE "none",
          runs <- mode = "app",
          offer <- sent.image,
          faulty <- missed # {}
SlotSpec == Slot!Spec

(* Between the flash operations of an update, what was taken is in the     *)
(* flash and what is to come finds it erased, also when packets are taken  *)
(* back across a page boundary, more than once, or cut short by the end:   *)
(* everywhere but in the words a refused command left.                     *)
Frontier == IF pc = "program" THEN start + next ELSE start

ErasedAhead ==
  mode = "iap" /\ gcmd = "update" /\ start >= 0
    /\ pc \in {"loop", "write", "program", "reply", "clear"} =>
  \A w \in Words \ missed : flash[w] = "erased" <=> w >= Frontier

(* The words that an orderly host takes for delivered, packets taken back  *)
(* and sent again included, are in the flash and its image's, but for      *)
(* those a refused command left.  (The packet is answered in spite of it.) *)
DeliveredIsWritten ==
  orderly /\ ~waiting =>
    \A w \in Words \ missed : w < pos => flash[w] = sent.image
=============================================================================
