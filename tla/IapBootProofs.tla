--------------------------- MODULE IapBootProofs ---------------------------
(***************************************************************************)
(* The bootloader's promises about the flash for every size of the         *)
(* application, of a page and of a packet.  What is written where is       *)
(* followed with three lemmas about pages; FlashInv says for every place   *)
(* ParseCmd can be in which words are erased, and OrderlyInv what an       *)
(* orderly host's image and ParseCmd's counts have to do with each other.  *)
(***************************************************************************)
EXTENDS IapBoot, TLAPS

(* The next page boundary lies beyond a, but not beyond the end.           *)
LEMMA PageBounds ==
  ASSUME IapAssumption, NEW a \in Nat
  PROVE  PageOf(a) \in 0 .. a /\ a < PageOf(a) + Page
BY DEF IapAssumption, PageOf

LEMMA PageInside ==
  ASSUME IapAssumption, NEW a \in Words
  PROVE  PageOf(a) + Page <= Size
<1> DEFINE j == a \div Page
           k == Size \div Page
<1>1. a \in Nat /\ a < Size /\ Page \in Nat /\ Page > 0 /\ Size \in Nat /\ Size % Page = 0
  BY DEF IapAssumption, Words
<1>2. j \in Nat /\ k \in Nat
  BY <1>1
<1>3. a = (Page * j) + (a % Page) /\ Size = Page * k
  BY <1>1
<1>4. a % Page \in Nat
  BY <1>1
<1>5. Page * j < Page * k
  BY <1>1, <1>2, <1>3, <1>4
<1>6. j < k
  BY <1>1, <1>2, <1>5
<1>7. Page * (j + 1) <= Page * k
  BY <1>1, <1>2, <1>6
<1>8. QED
  BY <1>1, <1>2, <1>3, <1>4, <1>7 DEF PageOf

(* What InRange lets through ends within the application.                  *)
LEMMA Fits ==
  ASSUME IapAssumption, NEW a \in Int, NEW n \in Int, InRange(a, n)
  PROVE  a >= 0 /\ a + n <= Size
BY DEF IapAssumption, InRange, Words

-----------------------------------------------------------------------------
(* The ranges of the variables the flash depends on.  A buffer that holds  *)
(* data holds the host's packet.                                           *)
Types ==
  /\ flash \in [Words -> Contents] /\ saved \in [Words -> Contents]
  /\ start \in Int /\ start <= Size
  /\ total \in Nat /\ last \in 0 .. Page /\ count \in 0 .. Page /\ next \in Nat
  /\ rcv \in {sent, NoPacket}
  /\ sent.image \in Images \/ (pos = 0 /\ sent.cmd \notin {"update", "data"})
  /\ pc \in {"erase", "write", "program"} => cmd \in {"update", "data"}

(* Words from a on, and no others, are erased: none that a refused command *)
(* left is meant.                                                          *)
ErasedFrom(f, a) == \A w \in Words \ missed : f[w] = "erased" <=> w >= a

(* Taking a packet back: behind the page it began in, the flash is still   *)
(* as the packet left it.                                                  *)
Restoring(done) ==
  /\ start >= 0 /\ done <= start
  /\ \A w \in Words \ missed :
       flash[w] = "erased" <=> /\ w >= done
                              /\ \/ w < PageOf(start) + Page
                                 \/ w >= start + last

(* What is erased when, while an update is under way.                      *)
FlashInv ==
  /\ mode # "iap" => gcmd # "update"
  /\ pc = "program" => start >= 0 /\ start + count <= Size /\ next <= count
  /\ gcmd = "update" /\ pc = "erase" => start = 0 /\ \A w \in Words : w < next => flash[w] = "erased"
  /\ gcmd = "update" /\ pc \in {"loop", "write", "reply", "clear"} /\ start >= 0
       => ErasedFrom(flash, start)
  /\ gcmd = "update" /\ pc = "program" => ErasedFrom(flash, start + next)
  /\ gcmd = "update" /\ pc = "resend" => start >= 0 /\ ErasedFrom(flash, start + last)
  /\ gcmd = "update" /\ pc = "restore"
       => /\ Restoring(next) /\ next >= PageOf(start)
          /\ \A w \in Words \ missed : w < start => saved[w] # "erased"
  /\ gcmd = "update" /\ pc = "erasenext" => Restoring(start)
  /\ pc \in {"resend", "restore", "erasenext"} => start >= 0

(* The word at which a packet taken back begins is erased before those     *)
(* ahead of it are written again.                                          *)
GapInv ==
  /\ pc \in {"resend", "restore"} => start \in Words
  /\ pc = "restore" => flash[start] = "erased" \/ start \in missed

IapInv == Types /\ FlashInv /\ GapInv

-----------------------------------------------------------------------------
(* Programming and erasing keep flash contents flash contents.             *)
LEMMA FlashOps ==
  ASSUME NEW f \in [Words -> Contents], NEW a, NEW v \in Contents
  PROVE  Programmed(f, a, v) \in [Words -> Contents]
BY DEF Programmed, Contents

LEMMA ErasedOps ==
  ASSUME NEW f \in [Words -> Contents], NEW p
  PROVE  Erased(f, p) \in [Words -> Contents]
BY DEF Erased, Contents

(* A word of the buffer is never an erased one, and if it is an image's,   *)
(* it is the image the host sends.                                         *)
LEMMA SourceWord ==
  ASSUME IapAssumption, Types, pc = "program"
  PROVE  Source \in Contents /\ Source # "erased" /\ Source \in {sent.image, "wrong"}
<1>1. CASE rcv.cmd = cmd /\ rcv.at = start
  <2>1. rcv.cmd \in {"update", "data"}
    BY <1>1 DEF Types
  <2>2. rcv = sent
    BY <2>1 DEF Types, NoPacket, Packet
  <2>3. sent.image \in Images /\ Source = sent.image
    BY <1>1, <2>1, <2>2 DEF Types, Source
  <2> QED BY <2>3 DEF IapAssumption, Contents
<1>2. CASE ~(rcv.cmd = cmd /\ rcv.at = start)
  BY <1>2 DEF Source, Contents
<1> QED BY <1>1, <1>2

(* Programming the first erased word moves the frontier by one.            *)
LEMMA ProgrammedNext ==
  ASSUME NEW f \in [Words -> Contents], NEW a \in Words, ErasedFrom(f, a),
         NEW v \in Contents, v # "erased", IapAssumption
  PROVE  ErasedFrom(Programmed(f, a, v), a + 1)
BY DEF ErasedFrom, Programmed, Words, IapAssumption

(* An operation that left words out left what is said of the others.       *)
LEMMA Missed ==
  ASSUME NEW ws, Miss(ws)
  PROVE  missed' = missed \union ws
BY DEF Miss

(* Every reset satisfies the invariant, whatever is in the flash.          *)
LEMMA ResetKeeps ==
  ASSUME IapAssumption, IapInv, Reset, UNCHANGED flash
  PROVE  IapInv'
<1>1. Blank \in [Words -> Contents]
  BY DEF Blank, Contents
<1>2. Types'
  BY <1>1 DEF Reset, IapInv, Types, Nowhere, NoPacket, Packet, IapAssumption
<1>3. FlashInv' /\ GapInv'
  BY DEF Reset, FlashInv, GapInv
<1> QED BY <1>2, <1>3 DEF IapInv

-----------------------------------------------------------------------------
(* The steps that leave the flash and ParseCmd's variables alone.          *)
LEMMA HostKeeps ==
  ASSUME IapAssumption, IapInv, Host
  PROVE  IapInv'
<1>1. UNCHANGED <<mode, flash, missed, session, turn>>
  BY DEF Host, SendUpdate, SendData, SendResend, SendOther, Send, ReadAnswer, GiveUp, rom
<1>2. rcv' \in {sent', NoPacket}
  BY DEF Host, SendUpdate, SendData, SendResend, SendOther, Send, ReadAnswer, GiveUp,
     IapInv, Types, usb
<1>3. sent'.image \in Images \/ (pos' = 0 /\ sent'.cmd \notin {"update", "data"})
  <2>1. sent.image \in Images \/ (pos = 0 /\ sent.cmd \notin {"update", "data"})
    BY DEF IapInv, Types
  <2>2. ASSUME NEW i \in Images, SendUpdate(i) PROVE sent'.image \in Images
    BY <2>2 DEF SendUpdate, Send, Packet
  <2>3. CASE SendData
    BY <2>1, <2>3 DEF SendData, Send, Packet, Words
  <2>4. CASE SendResend
    BY <2>1, <2>4 DEF SendResend, Send, Packet
  <2>5. ASSUME NEW c \in {"run", "connect"}, SendOther(c) 
                  PROVE  sent'.image \in Images \/ (pos' = 0 /\ sent'.cmd \notin {"update", "data"})
    BY <2>1, <2>5 DEF SendOther, Send, Packet
  <2>6. CASE ReadAnswer
    <3>1. sent' = sent /\ pos' = pos + Delivered
      BY <2>6 DEF ReadAnswer
    <3>2. sent.cmd \notin {"update", "data"} => Delivered = 0
      BY DEF Delivered
    <3> QED BY <2>1, <3>1, <3>2
  <2>7. CASE GiveUp
    BY <2>1, <2>7 DEF GiveUp
  <2> QED BY <2>2, <2>3, <2>4, <2>5, <2>6, <2>7 DEF Host
<1>4. Types'
  BY <1>1, <1>2, <1>3 DEF IapInv, Types, session, turn
<1>5. FlashInv' /\ GapInv'
  BY <1>1 DEF IapInv, FlashInv, GapInv, Restoring, ErasedFrom, session, turn
<1> QED BY <1>4, <1>5 DEF IapInv

LEMMA ResetsKeep ==
  ASSUME IapAssumption, IapInv, Boot \/ PowerFails \/ EnterIap \/ LeaveApp \/ Run
  PROVE  IapInv'
<1>1. CASE Boot
  BY <1>1 DEF Boot, IapInv, Types, FlashInv, GapInv, Restoring, ErasedFrom, rom, session, turn,
     usb, host
<1>2. CASE PowerFails \/ LeaveApp \/ Run
  BY <1>2, ResetKeeps DEF PowerFails, LeaveApp, Run
<1>3. CASE EnterIap
  <2>1. /\ mode = "app" /\ flash' \in {flash, Erased(flash, PageOf(Size - 1))}
        /\ UNCHANGED <<mode, missed, session, turn, usb, host>>
    BY <1>3 DEF EnterIap
  <2>2. flash' \in [Words -> Contents]
    BY <2>1, ErasedOps DEF IapInv, Types
  <2>3. Types'
    BY <2>1, <2>2 DEF IapInv, Types, session, turn, usb, host
  <2>4. \A w \in Words : flash[w] = "erased" => flash'[w] = "erased"
    BY <2>1 DEF Erased
  <2>5. FlashInv' /\ GapInv'
    BY <2>1, <2>4 DEF IapInv, FlashInv, GapInv, session, turn
  <2> QED BY <2>3, <2>5 DEF IapInv
<1> QED BY <1>1, <1>2, <1>3

-----------------------------------------------------------------------------
(* The parts of ParseCmd.                                                  *)
LEMMA TakeKeeps ==
  ASSUME IapAssumption, IapInv, TakePacket
  PROVE  IapInv'
<1>1. /\ mode = "iap" /\ pc = "loop" /\ next' = 0 /\ cmd' = rcv.cmd
      /\ UNCHANGED <<mode, flash, count, saved, usb, host>>
  BY DEF TakePacket, Turn
<1>2. CASE TakeUpdate
  <2>1. Types'
    BY <1>1, <1>2 DEF TakeUpdate, IapInv, Types, IapAssumption, usb, host
  <2>2. FlashInv' /\ GapInv'
    BY <1>1, <1>2 DEF TakeUpdate, IapInv, FlashInv, GapInv, Types, Words, IapAssumption
  <2> QED BY <2>1, <2>2 DEF IapInv
<1>3. CASE TakeData
  <2>1. pc' \in {"write", "reply"} /\ rcv.cmd = "data" /\ UNCHANGED <<session, missed>>
        /\ (pc' = "write" => gcmd = "update")
    BY <1>3 DEF TakeData
  <2>2. Types'
    BY <1>1, <2>1 DEF IapInv, Types, session, usb, host
  <2>3. FlashInv' /\ GapInv'
    BY <1>1, <2>1 DEF IapInv, FlashInv, GapInv, ErasedFrom, session
  <2> QED BY <2>2, <2>3 DEF IapInv
<1>4. CASE TakeResend
  <2>1. /\ start' = start - last /\ total' = total + last
        /\ pc' = IF start' >= 0 /\ PageOf(start') + Page <= Size THEN "resend" ELSE "reply"
        /\ UNCHANGED <<last, gcmd, missed>>
    BY <1>4 DEF TakeResend
  <2>2. Types'
    BY <1>1, <2>1 DEF IapInv, Types, usb, host
  <2>3. start' \in Int /\ start' <= start /\ start = start' + last
    BY <2>1 DEF IapInv, Types
  <2>4. CASE pc' = "resend"
    <3>1. start' >= 0 /\ PageOf(start') + Page <= Size
      BY <2>1, <2>4
    <3>2. gcmd = "update" => ErasedFrom(flash, start' + last')
      BY <1>1, <2>1, <2>3, <3>1 DEF IapInv, FlashInv, Types
    <3>3. FlashInv'
      BY <1>1, <2>1, <2>4, <3>1, <3>2 DEF IapInv, FlashInv, ErasedFrom
    <3>4. start' \in Words
      <4>1. start' \in Nat
        BY <2>3, <3>1
      <4>2. start' < PageOf(start') + Page /\ PageOf(start') \in 0 .. start'
        BY <4>1, PageBounds
      <4> QED BY <3>1, <4>1, <4>2 DEF Words, IapAssumption
    <3> QED BY <2>2, <2>4, <3>3, <3>4 DEF IapInv, GapInv
  <2>5. CASE pc' = "reply" /\ start' >= 0
    <3>1. start' \notin Words
      BY <2>1, <2>5, PageInside
    <3>2. start' = start /\ start >= 0
      <4>1. start \in Int /\ start <= Size /\ Size \in Nat
        BY DEF IapInv, Types, IapAssumption
      <4>2. ~(start' <= Size - 1)
        BY <2>3, <2>5, <3>1, <4>1 DEF Words
      <4>3. QED
        BY <2>3, <2>5, <4>1, <4>2
    <3>3. gcmd = "update" => ErasedFrom(flash, start')
      BY <1>1, <3>2 DEF IapInv, FlashInv
    <3>4. FlashInv' /\ GapInv'
      BY <1>1, <2>1, <2>5, <3>3 DEF IapInv, FlashInv, GapInv, ErasedFrom
    <3> QED BY <2>2, <3>4 DEF IapInv
  <2>6. CASE pc' = "reply" /\ ~(start' >= 0)
    BY <1>1, <2>1, <2>2, <2>6 DEF IapInv, FlashInv, GapInv
  <2>7. QED
    BY <2>1, <2>4, <2>5, <2>6
<1>5. CASE TakeOther
  BY <1>1, <1>5 DEF TakeOther, IapInv, Types, FlashInv, GapInv, usb, host
<1>6. QED
  BY <1>2, <1>3, <1>4, <1>5 DEF TakePacket

LEMMA EraseKeeps ==
  ASSUME IapAssumption, IapInv, ErasePage
  PROVE  IapInv'
<1>1. /\ mode = "iap" /\ pc = "erase"
      /\ UNCHANGED <<mode, session, cmd, count, saved, usb, host>>
  BY DEF ErasePage, Turn
<1>2. CASE /\ flash' = Erased(flash, next) /\ next' = next + Page
           /\ UNCHANGED <<pc, missed>>
  <2>1. Types'
    <3>1. flash' \in [Words -> Contents]
      BY <1>2, ErasedOps DEF IapInv, Types
    <3>2. next' \in Nat
      BY <1>2 DEF IapInv, Types, IapAssumption
    <3> QED BY <1>1, <1>2, <3>1, <3>2 DEF IapInv, Types, session, usb, host
  <2>2. gcmd = "update" => \A w \in Words : w < next' => flash'[w] = "erased"
    BY <1>1, <1>2 DEF IapInv, Types, FlashInv, Erased, WordsOf, Words, IapAssumption
  <2>3. FlashInv' /\ GapInv'
    BY <1>1, <1>2, <2>2 DEF IapInv, FlashInv, GapInv, session
  <2> QED BY <2>1, <2>3 DEF IapInv
<1>3. CASE /\ pc' = "write" /\ missed' = missed \union {w \in Words : w >= next}
           /\ UNCHANGED <<flash, next>>
  <2>1. Types'
    BY <1>1, <1>3 DEF IapInv, Types, session, usb, host
  <2>2. gcmd = "update" => start = 0 /\ ErasedFrom(flash, start)'
    BY <1>1, <1>3 DEF IapInv, Types, FlashInv, ErasedFrom, Words, IapAssumption, session
  <2>3. FlashInv' /\ GapInv'
    BY <1>1, <1>3, <2>2 DEF IapInv, FlashInv, GapInv, ErasedFrom, session
  <2> QED BY <2>1, <2>3 DEF IapInv
<1> QED BY <1>2, <1>3 DEF ErasePage, Miss

LEMMA BeginKeeps ==
  ASSUME IapAssumption, IapInv, BeginWrite
  PROVE  IapInv'
<1>1. /\ mode = "iap" /\ pc = "write" /\ next' = 0
      /\ pc' = IF InRange(start, count') THEN "program" ELSE "reply"
      /\ UNCHANGED <<mode, flash, missed, start, last, gcmd, cmd, saved, usb, host>>
  BY DEF BeginWrite, Turn, rom
<1>2. count' \in 0 .. Page /\ total' \in Nat
  BY DEF BeginWrite, Smaller, IapInv, Types, IapAssumption
<1>3. Types'
  BY <1>1, <1>2 DEF IapInv, Types, usb, host
<1>4. CASE InRange(start, count')
  <2>1. start >= 0 /\ start + count' <= Size /\ pc' = "program"
    <3>1. start \in Int /\ count' \in Int
      BY <1>2 DEF IapInv, Types
    <3>2. start >= 0 /\ start + count' <= Size
      BY <1>4, <3>1, Fits
    <3>3. pc' = "program"
      BY <1>1, <1>4, Zenon
    <3>4. QED
      BY <3>2, <3>3
  <2>2. start + next' = start
    BY <1>1 DEF IapInv, Types
  <2>3. gcmd = "update" => ErasedFrom(flash, start + next')
    BY <1>1, <2>1, <2>2 DEF IapInv, FlashInv
  <2>4. FlashInv' /\ GapInv'
    BY <1>1, <1>2, <2>1, <2>3 DEF IapInv, FlashInv, GapInv, ErasedFrom
  <2> QED BY <1>3, <2>4 DEF IapInv
<1>5. CASE ~InRange(start, count')
  BY <1>1, <1>3, <1>5 DEF IapInv, FlashInv, GapInv, ErasedFrom
<1>6. QED
  BY <1>4, <1>5

LEMMA ProgramKeeps ==
  ASSUME IapAssumption, IapInv, ProgramWord
  PROVE  IapInv'
<1>1. /\ mode = "iap" /\ pc = "program"
      /\ start >= 0 /\ start + count <= Size /\ next <= count
      /\ (gcmd = "update" => ErasedFrom(flash, start + next))
      /\ UNCHANGED <<mode, total, gcmd, cmd, count, saved, usb, host>>
  BY DEF ProgramWord, Turn, IapInv, FlashInv
<1>2. CASE /\ next < count
           /\ flash' = Programmed(flash, start + next, Source)
           /\ next' = next + 1
           /\ UNCHANGED <<start, last, pc, missed>>
  <2>1. Source \in Contents /\ Source # "erased"
    BY <1>1, SourceWord DEF IapInv
  <2>2. start + next \in Words /\ start + next' = (start + next) + 1
        /\ next' \in Nat /\ next' <= count
    BY <1>1, <1>2 DEF IapInv, Types, Words, IapAssumption
  <2>3. Types'
    BY <1>1, <1>2, <2>1, <2>2, FlashOps DEF IapInv, Types, usb, host
  <2>4. gcmd = "update" => ErasedFrom(flash', start + next')
    BY <1>1, <1>2, <2>1, <2>2, ProgrammedNext DEF IapInv, Types
  <2>5. FlashInv' /\ GapInv'
    BY <1>1, <1>2, <2>2, <2>4 DEF IapInv, FlashInv, GapInv, ErasedFrom
  <2> QED BY <2>3, <2>5 DEF IapInv
<1>3. CASE /\ missed' = missed \union (start + next .. start + count - 1)
           /\ start' = start + count /\ last' = count
           /\ pc' = "reply"
           /\ UNCHANGED <<flash, next>>
  <2>1. Types'
    BY <1>1, <1>3 DEF IapInv, Types, usb, host, IapAssumption
  <2>2. gcmd = "update" => ErasedFrom(flash, start)'
    BY <1>1, <1>3 DEF ErasedFrom, IapInv, Types, Words, IapAssumption
  <2>3. FlashInv' /\ GapInv'
    BY <1>1, <1>3, <2>2 DEF IapInv, FlashInv, GapInv, ErasedFrom
  <2> QED BY <2>1, <2>3 DEF IapInv
<1> QED BY <1>2, <1>3 DEF ProgramWord, Miss

-----------------------------------------------------------------------------
(* CMD_RESEND_PACKET.                                                      *)
LEMMA ResendKeeps ==
  ASSUME IapAssumption, IapInv, ResendErase
  PROVE  IapInv'
<1> DEFINE P == PageOf(start)
<1>1. /\ mode = "iap" /\ pc = "resend" /\ start >= 0 /\ start \in Words
      /\ pc' = "restore" /\ next' = P
      /\ UNCHANGED <<mode, session, cmd, count, usb, host>>
  BY DEF ResendErase, Turn, IapInv, FlashInv, GapInv
<1>2. start \in Nat /\ last \in Nat /\ Page \in Nat /\ Size \in Nat
      /\ flash \in [Words -> Contents]
  BY <1>1 DEF IapInv, Types, IapAssumption
<1>3. P \in 0 .. start /\ start < P + Page
  BY <1>2, PageBounds
<1>4. UNCHANGED <<start, last, gcmd>> /\ PageOf(start') = P
  BY <1>1 DEF session, PageOf
<1>5. PICK k \in P .. start :
        /\ ReadBack(k)
        /\ \/ flash' = Erased(flash, P) /\ missed' = missed \union (k .. start - 1)
           \/ flash' = flash /\ missed' = missed \union WordsOf(P)
  BY DEF ResendErase, Miss
<1>6. saved' \in [Words -> Contents] /\ \A w \in Words \ missed' : saved'[w] = flash[w]
  <2>1. PICK s \in [k .. start - 1 -> Contents] :
          saved' = [w \in Words |-> IF w \in k .. start - 1 THEN s[w] ELSE flash[w]]
    BY <1>5 DEF ReadBack
  <2>2. saved' \in [Words -> Contents]
    BY <1>2, <2>1
  <2>3. \A w \in Words \ missed' : w \notin k .. start - 1
    BY <1>2, <1>3, <1>5 DEF WordsOf, Words
  <2> QED BY <2>1, <2>2, <2>3
<1>7. flash' \in [Words -> Contents]
  BY <1>2, <1>5, ErasedOps
<1>8. Types'
  BY <1>1, <1>3, <1>6, <1>7 DEF IapInv, Types, session, usb, host
<1>9. ASSUME gcmd = "update"
      PROVE  Restoring(next)' /\ \A w \in Words \ missed' : w < start => saved'[w] # "erased"
  <2>1. ErasedFrom(flash, start + last) /\ missed \subseteq missed'
    BY <1>1, <1>5, <1>9 DEF IapInv, FlashInv
  <2>2. \A w \in Words \ missed' : w < start => saved'[w] # "erased"
    BY <1>2, <1>6, <2>1 DEF ErasedFrom, Words
  <2>3. \A w \in Words \ missed' :
          flash'[w] = IF w \in P .. P + Page - 1 THEN "erased" ELSE flash[w]
    BY <1>5 DEF Erased, WordsOf
  <2>4. \A w \in Words \ missed' :
          flash'[w] = "erased" <=> w >= P /\ (w < P + Page \/ w >= start + last)
    BY <1>2, <1>3, <2>1, <2>3 DEF ErasedFrom, Words
  <2>5. QED
    BY <1>1, <1>3, <1>4, <2>2, <2>4 DEF Restoring
<1>10. FlashInv'
  BY <1>1, <1>3, <1>4, <1>9 DEF IapInv, FlashInv
<1>11. GapInv'
  <2>1. start \in WordsOf(P)
    BY <1>2, <1>3 DEF WordsOf
  <2>2. flash'[start] = "erased" \/ start \in missed'
    BY <1>1, <1>5, <2>1 DEF Erased
  <2> QED BY <1>1, <1>4, <2>2 DEF GapInv
<1> QED
  BY <1>8, <1>10, <1>11 DEF IapInv

LEMMA RestoreKeeps ==
  ASSUME IapAssumption, IapInv, RestoreWord
  PROVE  IapInv'
<1> DEFINE P == PageOf(start)
<1>1. /\ mode = "iap" /\ pc = "restore" /\ start >= 0 /\ start \in Words
      /\ UNCHANGED <<mode, session, cmd, count, usb, host>>
  BY DEF RestoreWord, Turn, IapInv, FlashInv, GapInv
<1>2. start \in Nat /\ last \in 0 .. Page /\ next \in Nat /\ Page \in Nat /\ Size \in Nat
      /\ start <= Size /\ flash \in [Words -> Contents] /\ saved \in [Words -> Contents]
  BY <1>1 DEF IapInv, Types, IapAssumption
<1>3. P \in 0 .. start /\ start < P + Page
  BY <1>2, PageBounds
<1>4. UNCHANGED <<start, last, gcmd>> /\ PageOf(start') = P
  BY <1>1 DEF session, PageOf
<1>5. CASE /\ next < start
           /\ flash' = Programmed(flash, next, saved[next]) /\ next' = next + 1
           /\ UNCHANGED <<pc, saved, missed>>
  <2>1. next \in Words /\ saved[next] \in Contents
    BY <1>2, <1>5 DEF Words
  <2>2. flash' \in [Words -> Contents] /\ \A w \in Words : w # next => flash'[w] = flash[w]
    BY <1>2, <1>5, <2>1, FlashOps DEF Programmed
  <2>3. Types'
    BY <1>1, <1>5, <2>2 DEF IapInv, Types, session, usb, host
  <2>4. ASSUME gcmd = "update"
        PROVE  /\ Restoring(next)' /\ next' >= P
               /\ \A w \in Words \ missed : w < start => saved[w] # "erased"
    <3>1. /\ next >= P
          /\ \A w \in Words \ missed : w < start => saved[w] # "erased"
          /\ \A w \in Words \ missed :
               flash[w] = "erased" <=> w >= next /\ (w < P + Page \/ w >= start + last)
      BY <1>1, <2>4 DEF IapInv, FlashInv, Restoring
    <3>2. next \notin missed => flash[next] = "erased" /\ saved[next] # "erased"
      BY <1>2, <1>3, <1>5, <2>1, <3>1
    <3>3. next \notin missed => flash'[next] # "erased"
      BY <1>2, <1>5, <2>1, <3>2 DEF Programmed
    <3>4. \A w \in Words \ missed :
            flash'[w] = "erased" <=> w >= next + 1 /\ (w < P + Page \/ w >= start + last)
      BY <1>2, <2>1, <2>2, <3>1, <3>3 DEF Words
    <3>5. start >= 0 /\ next' <= start /\ next' >= P
      BY <1>2, <1>3, <1>5, <3>1
    <3>6. \A w \in Words \ missed' :
            flash'[w] = "erased"
              <=> w >= next' /\ (w < PageOf(start') + Page \/ w >= start' + last')
      BY <1>4, <1>5, <3>4
    <3>7. Restoring(next)'
      BY <1>4, <3>5, <3>6 DEF Restoring
    <3>8. QED
      BY <3>1, <3>5, <3>7
  <2>5. FlashInv'
    BY <1>1, <1>4, <1>5, <2>4 DEF IapInv, FlashInv
  <2>6. GapInv'
    <3>1. next # start /\ (flash[start] = "erased" \/ start \in missed)
      BY <1>1, <1>2, <1>5 DEF IapInv, GapInv
    <3> QED BY <1>1, <1>4, <1>5, <2>2, <3>1 DEF GapInv
  <2>7. QED
    BY <2>3, <2>5, <2>6 DEF IapInv
<1>6. CASE /\ missed' = missed \union (next .. start - 1)
           /\ pc' = IF ReachesNext THEN "erasenext" ELSE "reply"
           /\ saved' = Blank
           /\ UNCHANGED <<flash, next>>
  <2>1. Blank \in [Words -> Contents] /\ pc' \in {"erasenext", "reply"}
    BY <1>6 DEF Blank, Contents
  <2>2. Types' /\ GapInv'
    BY <1>1, <1>6, <2>1 DEF IapInv, Types, GapInv, session, usb, host
  <2>3. gcmd = "update" => Restoring(start)'
    <3>1. gcmd = "update" => Restoring(next)
      BY <1>1 DEF IapInv, FlashInv
    <3>2. ASSUME gcmd = "update", NEW w \in Words \ missed'
          PROVE  w \in Words \ missed /\ (w >= next <=> w >= start)
      <4>1. next <= start
        BY <3>1, <3>2 DEF Restoring
      <4>2. w \in Words /\ w \notin missed /\ w \notin next .. start - 1
        BY <1>6
      <4>3. w \in Int
        BY <1>2 DEF Words
      <4> QED BY <1>2, <4>1, <4>2, <4>3
    <3> QED BY <1>2, <1>4, <1>6, <3>1, <3>2 DEF Restoring
  <2>4. CASE ReachesNext
    BY <1>1, <1>4, <1>6, <2>2, <2>3, <2>4 DEF IapInv, FlashInv
  <2>5. CASE ~ReachesNext
    <3>1. start + last < P + Page
      <4>1. start % Page \in Int /\ P = start - (start % Page)
        BY <1>2 DEF PageOf, IapAssumption
      <4>2. start % Page < Page - last
        BY <1>2, <2>5, <4>1 DEF ReachesNext
      <4>3. QED
        BY <1>2, <4>1, <4>2
    <3>2. gcmd = "update" => ErasedFrom(flash, start)'
      BY <1>2, <1>3, <1>4, <2>3, <3>1 DEF Restoring, ErasedFrom, Words
    <3>3. FlashInv'
      BY <1>1, <1>4, <1>6, <2>5, <3>2 DEF IapInv, FlashInv, ErasedFrom
    <3>4. QED
      BY <2>2, <3>3 DEF IapInv
  <2>6. QED
    BY <2>4, <2>5
<1> QED
  BY <1>5, <1>6 DEF RestoreWord, Miss

LEMMA EraseNextKeeps ==
  ASSUME IapAssumption, IapInv, EraseNext
  PROVE  IapInv'
<1> DEFINE P == PageOf(start)
           Q == PageOf(start) + Page
<1>1. /\ mode = "iap" /\ pc = "erasenext" /\ start >= 0 /\ pc' = "reply"
      /\ \/ flash' = Erased(flash, Q) /\ missed' = missed
         \/ flash' = flash /\ missed' = missed \union (WordsOf(Q) \cap Words)
      /\ UNCHANGED <<mode, session, cmd, count, next, saved, usb, host>>
  BY DEF EraseNext, Turn, Miss, IapInv, FlashInv
<1>2. start \in Nat /\ last \in 0 .. Page /\ Page \in Nat /\ Size \in Nat
      /\ flash \in [Words -> Contents]
  BY <1>1 DEF IapInv, Types, IapAssumption
<1>3. P \in 0 .. start /\ start < P + Page
  BY <1>2, PageBounds
<1>4. flash' \in [Words -> Contents]
  BY <1>1, <1>2, ErasedOps
<1>5. Types' /\ GapInv'
  BY <1>1, <1>4 DEF IapInv, Types, GapInv, session, usb, host
<1>6. gcmd = "update" => ErasedFrom(flash, start)'
  <2>1. gcmd = "update" => Restoring(start)
    BY <1>1 DEF IapInv, FlashInv
  <2>2. \A w \in Words \ missed' :
          /\ w \in Words \ missed
          /\ flash'[w] = IF w \in Q .. Q + Page - 1 THEN "erased" ELSE flash[w]
    BY <1>1 DEF Erased, WordsOf
  <2>3. QED
    BY <1>1, <1>2, <1>3, <2>1, <2>2 DEF Restoring, ErasedFrom, Words, session
<1>7. FlashInv'
  BY <1>1, <1>6 DEF IapInv, FlashInv, ErasedFrom, session
<1> QED
  BY <1>5, <1>7 DEF IapInv

LEMMA AnswerKeeps ==
  ASSUME IapAssumption, IapInv, Reply \/ ClearReady
  PROVE  IapInv'
<1>1. /\ UNCHANGED <<mode, flash, missed, session, saved, host>> /\ count' \in 0 .. Page
      /\ next' \in Nat /\ pc \in {"reply", "clear"} /\ pc' \in {"clear", "loop"}
  BY DEF Reply, ClearReady, Turn, IapInv, Types, IapAssumption, rom
<1>2. rcv' \in {sent', NoPacket}
  BY DEF Reply, ClearReady, IapInv, Types, host
<1>3. Types'
  BY <1>1, <1>2 DEF IapInv, Types, session, host
<1>4. FlashInv' /\ GapInv'
  BY <1>1 DEF IapInv, FlashInv, GapInv, ErasedFrom, session
<1> QED BY <1>3, <1>4 DEF IapInv

-----------------------------------------------------------------------------
LEMMA IapStart == ASSUME IapAssumption, Init PROVE IapInv
<1>1. Blank \in [Words -> Contents] /\ flash \in [Words -> Contents]
  BY DEF Blank, Contents, Init
<1>2. Types
  BY <1>1 DEF Init, Types, Nowhere, NoPacket, Packet, IapAssumption
<1>3. FlashInv /\ GapInv
  BY DEF Init, FlashInv, GapInv, Nowhere
<1> QED BY <1>2, <1>3 DEF IapInv

LEMMA IapStep ==
  ASSUME IapAssumption, IapInv, [Next]_vars
  PROVE  IapInv'
<1>1. CASE Next
  BY <1>1, HostKeeps, ResetsKeep, TakeKeeps, EraseKeeps, BeginKeeps, ProgramKeeps,
     ResendKeeps, RestoreKeeps, EraseNextKeeps, AnswerKeeps DEF Next, Loop
<1>2. CASE UNCHANGED vars
  BY <1>2 DEF vars, rom, session, turn, usb, host, IapInv, Types, FlashInv, GapInv,
     Restoring, ErasedFrom
<1>3. QED
  BY <1>1, <1>2

LEMMA IapAlways == Spec => []IapInv
<1>1. Init => IapInv
  BY IapAssumption, IapStart
<1>2. IapInv /\ [Next]_vars => IapInv'
  BY IapAssumption, IapStep
<1>3. QED
  BY <1>1, <1>2, PTL DEF Spec

(* Between two flash operations of an update, what was taken is in the     *)
(* flash and what is to come finds it erased, but for the words that a     *)
(* refused command left: for pages and packets of any size, however often  *)
(* packets are taken back and commands refused.                            *)
THEOREM ErasesAhead == Spec => []ErasedAhead
<1>1. IapInv => ErasedAhead
  BY DEF IapInv, FlashInv, ErasedAhead, ErasedFrom, Frontier
<1>2. QED
  BY <1>1, IapAlways, PTL

-----------------------------------------------------------------------------
(* The session of an orderly host.  n words of its image are in the flash, *)
(* those a refused command left apart, and ParseCmd counts them all.       *)
Held(n) == \A w \in Words \ missed : w < n => flash[w] = sent.image

Settled(p) ==
  gcmd = "update" /\ p \in 0 .. Size /\ start = p /\ total = Size - p /\ Held(p)

(* ... after the packet sent, which a resend could take back.              *)
After(p) == Settled(p) /\ (sent.cmd \in {"update", "data"} => last \in 1 .. p)

AtRest == pc \in {"loop", "clear"}

(* No packet will be taken: there is none, or it will be forgotten.        *)
Deaf == AtRest /\ (pc = "loop" => ~ready)

Sending ==
  /\ pos \in Words
  /\ sent.cmd = "update" => pos = 0
  /\ sent.cmd # "resend" => sent.at = pos

(* A packet that ParseCmd will take, ...                                   *)
Arriving ==
  /\ rcv = sent
  /\ sent.cmd = "data" => Settled(pos)
  /\ sent.cmd = "resend" => last >= 1 /\ Settled(pos + last)

(* ... and one in its hands.                                               *)
Taken ==
  /\ waiting /\ ~answer /\ rcv = sent /\ cmd = sent.cmd /\ gcmd = "update"
  /\ pc \in {"erase", "write", "program"} => sent.cmd \in {"update", "data"}
  /\ pc = "erase" => sent.cmd = "update"
  /\ pc \in {"resend", "restore", "erasenext"} => sent.cmd = "resend"
  /\ pc = "reply" => After(pos + Delivered)
  /\ pc \notin {"reply", "program"} => start = pos /\ total = Size - pos
  /\ pc \in {"write", "resend", "erasenext"} => Held(pos)
  /\ pc = "program" => /\ start = pos /\ total = Size - pos - count
                       /\ count = Delivered /\ Held(pos + next)
  /\ pc = "restore" => /\ Held(next)
                       /\ \A w \in Words \ missed : w < pos => saved[w] = sent.image

Orderly ==
  /\ mode = "iap" /\ pos \in 0 .. Size
  /\ sent.cmd \in {"update", "data", "resend"}
  /\ waiting => Sending
  /\ ~waiting => ~answer /\ Deaf /\ After(pos)
  /\ answer => Deaf /\ After(pos + Delivered)
  /\ waiting /\ ~answer /\ pc = "loop" /\ ready => Arriving
  /\ ~AtRest => Taken

OrderlyInv == orderly => Orderly

(* The words a packet brings fit behind those delivered.                   *)
LEMMA PacketFits ==
  ASSUME IapAssumption, Sending
  PROVE  /\ sent.cmd \in {"update", "data"} => Delivered \in 1 .. Size - pos
         /\ sent.cmd = "update" => Delivered = FirstLen
         /\ sent.cmd = "data" => Delivered = Smaller(NextLen, Size - pos)
         /\ sent.cmd = "resend" => Delivered = 0
         /\ FirstLen <= Size
<1>1. Size \in Nat \ {0} /\ FirstLen \in 1 .. Page /\ NextLen \in 1 .. Page
      /\ Page \in Nat \ {0} /\ pos \in Words /\ (sent.cmd = "update" => pos = 0)
  BY DEF IapAssumption, Sending
<1>2. Page <= Size
  <2>1. 0 \in Words /\ 0 \in Nat
    BY <1>1 DEF Words
  <2>2. PageOf(0) + Page <= Size /\ PageOf(0) \in 0 .. 0
    BY <2>1, PageInside, PageBounds
  <2> QED BY <1>1, <2>2
<1>3. /\ sent.cmd = "update" => Delivered = FirstLen
      /\ sent.cmd = "data" => Delivered = Smaller(NextLen, Size - pos)
      /\ sent.cmd = "resend" => Delivered = 0
  BY DEF Delivered
<1>4. Smaller(NextLen, Size - pos) \in 1 .. Size - pos
  BY <1>1 DEF Smaller, Words
<1> QED
  BY <1>1, <1>2, <1>3, <1>4

-----------------------------------------------------------------------------
LEMMA OrderlyTake ==
  ASSUME IapAssumption, IapInv, OrderlyInv, TakePacket
  PROVE  OrderlyInv'
<1> SUFFICES ASSUME orderly PROVE Orderly'
  BY DEF OrderlyInv, TakePacket, host
<1>1. /\ pc = "loop" /\ ready /\ cmd' = rcv.cmd
      /\ UNCHANGED <<mode, flash, usb, host>>
  BY DEF TakePacket, Turn
<1>2. Orderly
  BY DEF OrderlyInv
<1>3. waiting /\ ~answer /\ Sending /\ Arriving
  BY <1>1, <1>2 DEF Orderly, Deaf, AtRest
<1>4. rcv = sent /\ sent.cmd \in {"update", "data", "resend"} /\ pos \in Words
      /\ Size \in Nat \ {0} /\ start \in Int /\ last \in Nat
  BY <1>2, <1>3 DEF Orderly, Arriving, Sending, IapAssumption, IapInv, Types
<1>5. /\ Sending' /\ mode' = "iap" /\ pos' \in 0 .. Size /\ waiting' /\ ~answer'
      /\ rcv' = sent' /\ cmd' = sent'.cmd /\ sent' = sent /\ pos' = pos
  BY <1>1, <1>2, <1>3, <1>4 DEF Orderly, Sending, usb, host
<1>6. CASE sent.cmd = "update"
  <2>1. start' = pos' /\ total' = Size - pos' /\ gcmd' = "update" /\ pc' = "erase"
    BY <1>3, <1>4, <1>5, <1>6 DEF TakePacket, TakeUpdate, TakeData, TakeResend, TakeOther, Sending
  <2> QED BY <1>4, <1>5, <1>6, <2>1 DEF Orderly, Taken, AtRest
<1>7. CASE sent.cmd = "data"
  <2>1. Settled(pos)
    BY <1>3, <1>7 DEF Arriving
  <2>2. pc' = "write" /\ UNCHANGED <<session, missed>>
    BY <1>4, <1>7, <2>1 DEF TakePacket, TakeUpdate, TakeData, TakeResend, TakeOther, Settled
  <2>3. start' = pos' /\ total' = Size - pos' /\ gcmd' = "update" /\ Held(pos)'
    BY <1>1, <1>5, <2>1, <2>2 DEF Settled, Held, session
  <2> QED BY <1>4, <1>5, <1>7, <2>2, <2>3 DEF Orderly, Taken, AtRest
<1>8. CASE sent.cmd = "resend"
  <2>1. last >= 1 /\ Settled(pos + last)
    BY <1>3, <1>8 DEF Arriving
  <2>2. /\ start' = start - last /\ total' = total + last /\ UNCHANGED <<gcmd, missed>>
        /\ pc' = IF start' >= 0 /\ PageOf(start') + Page <= Size THEN "resend" ELSE "reply"
    BY <1>4, <1>8 DEF TakePacket, TakeUpdate, TakeData, TakeResend, TakeOther
  <2>3. start' = pos /\ total' = Size - pos /\ gcmd' = "update"
    BY <1>4, <2>1, <2>2 DEF Settled, Words
  <2>4. pos >= 0 /\ PageOf(pos) + Page <= Size
    BY <1>4, PageInside DEF Words
  <2>5. pc' = "resend"
    BY <2>2, <2>3, <2>4
  <2>6. Held(pos)'
    BY <1>1, <1>4, <1>5, <2>1, <2>2 DEF Settled, Held, Words
  <2> QED BY <1>4, <1>5, <1>8, <2>3, <2>5, <2>6 DEF Orderly, Taken, AtRest
<1> QED BY <1>4, <1>6, <1>7, <1>8

(* What ParseCmd does with a packet it has taken.                          *)
LEMMA OrderlyTurn ==
  ASSUME IapAssumption, IapInv, orderly, Orderly, ~AtRest
  PROVE  /\ Taken /\ Sending /\ mode = "iap" /\ waiting /\ ~answer
         /\ pos \in Words /\ pos \in Nat /\ Size \in Nat \ {0} /\ start \in Int /\ count \in Nat
         /\ next \in Nat /\ last \in Nat
         /\ flash \in [Words -> Contents] /\ Page \in Nat \ {0}
         /\ sent.cmd \in {"update", "data", "resend"}
BY DEF Orderly, Taken, Sending, IapInv, Types, IapAssumption, Words

LEMMA OrderlyErase ==
  ASSUME IapAssumption, IapInv, OrderlyInv, ErasePage
  PROVE  OrderlyInv'
<1> SUFFICES ASSUME orderly PROVE Orderly'
  BY DEF OrderlyInv, ErasePage, host
<1>1. /\ pc = "erase" /\ pc' \in {"erase", "write"}
      /\ UNCHANGED <<mode, session, cmd, count, saved, usb, host>>
  BY DEF ErasePage, Turn
<1>2. Orderly /\ ~AtRest
  BY <1>1 DEF OrderlyInv, AtRest
<1>3. Taken /\ Sending /\ mode = "iap" /\ waiting /\ ~answer /\ pos \in Words /\ Size \in Nat
      /\ sent.cmd \in {"update", "data", "resend"}
  BY <1>2, OrderlyTurn
<1>4. sent.cmd = "update" /\ pos = 0 /\ start = pos /\ total = Size - pos
  BY <1>1, <1>3 DEF Taken, Sending
<1>5. Held(pos)'
  BY <1>1, <1>4 DEF Held, Words, host
<1>6. Taken'
  BY <1>1, <1>3, <1>4, <1>5 DEF Taken, session, usb, host
<1> QED
  BY <1>1, <1>3, <1>4, <1>6 DEF Orderly, Sending, AtRest, Words, usb, host

LEMMA OrderlyBegin ==
  ASSUME IapAssumption, IapInv, OrderlyInv, BeginWrite
  PROVE  OrderlyInv'
<1> SUFFICES ASSUME orderly PROVE Orderly'
  BY DEF OrderlyInv, BeginWrite, host
<1>1. /\ pc = "write" /\ next' = 0
      /\ count' = Smaller(total, IF cmd = "update" THEN FirstLen ELSE NextLen)
      /\ total' = total - count'
      /\ pc' = IF InRange(start, count') THEN "program" ELSE "reply"
      /\ UNCHANGED <<mode, flash, missed, start, last, gcmd, cmd, saved, usb, host>>
  BY DEF BeginWrite, Turn, rom
<1>2. Orderly /\ ~AtRest
  BY <1>1 DEF OrderlyInv, AtRest
<1>3. Taken /\ Sending /\ mode = "iap" /\ waiting /\ ~answer /\ pos \in Words /\ pos \in Nat
      /\ Size \in Nat \ {0} /\ sent.cmd \in {"update", "data", "resend"}
  BY <1>2, OrderlyTurn
<1>4. /\ sent.cmd \in {"update", "data"} /\ start = pos /\ total = Size - pos /\ Held(pos)
      /\ cmd = sent.cmd
  BY <1>1, <1>3 DEF Taken
<1>5. count' = Delivered /\ Delivered \in 1 .. Size - pos
  <2>1. /\ Delivered \in 1 .. Size - pos /\ FirstLen <= Size
        /\ sent.cmd = "update" => Delivered = FirstLen /\ pos = 0
        /\ sent.cmd = "data" => Delivered = Smaller(NextLen, Size - pos)
    BY <1>3, <1>4, PacketFits DEF Sending
  <2> QED BY <1>1, <1>3, <1>4, <2>1 DEF Smaller, IapAssumption
<1>6. pc' = "program"
  BY <1>1, <1>3, <1>4, <1>5 DEF InRange
<1>7. Delivered' = Delivered /\ Held(pos + next)'
  BY <1>1, <1>3, <1>4 DEF Delivered, Held, host
<1>8. Taken'
  BY <1>1, <1>3, <1>4, <1>5, <1>6, <1>7 DEF Taken, usb, host
<1> QED
  BY <1>1, <1>3, <1>6, <1>8 DEF Orderly, Sending, AtRest, Words, usb, host

LEMMA OrderlyProgram ==
  ASSUME IapAssumption, IapInv, OrderlyInv, ProgramWord
  PROVE  OrderlyInv'
<1> SUFFICES ASSUME orderly PROVE Orderly'
  BY DEF OrderlyInv, ProgramWord, host
<1>1. pc = "program" /\ UNCHANGED <<mode, total, gcmd, cmd, count, saved, usb, host>>
  BY DEF ProgramWord, Turn
<1>2. Orderly /\ ~AtRest
  BY <1>1 DEF OrderlyInv, AtRest
<1>3. Taken /\ Sending /\ mode = "iap" /\ waiting /\ ~answer /\ pos \in Words /\ pos \in Nat
      /\ Size \in Nat \ {0} /\ sent.cmd \in {"update", "data", "resend"} /\ next \in Nat
      /\ flash \in [Words -> Contents]
  BY <1>2, OrderlyTurn
<1>4. /\ sent.cmd \in {"update", "data"} /\ start = pos /\ total = Size - pos - count
      /\ count = Delivered /\ Held(pos + next) /\ cmd = sent.cmd /\ rcv = sent
      /\ gcmd = "update" /\ sent.at = pos
  BY <1>1, <1>3 DEF Taken, Sending
<1>5. count \in 1 .. Size - pos /\ Delivered' = Delivered
  BY <1>1, <1>3, <1>4, PacketFits DEF Delivered, host
<1>6. next <= count /\ ErasedFrom(flash, pos + next)
  BY <1>1, <1>4 DEF IapInv, FlashInv
<1>7. CASE /\ next < count
           /\ flash' = Programmed(flash, pos + next, Source)
           /\ next' = next + 1 /\ UNCHANGED <<start, last, pc, missed>>
  <2>1. pos + next \in Words
    BY <1>3, <1>5, <1>7 DEF Words
  <2>2. Source = sent.image
    BY <1>4 DEF Source
  <2>3. pos + next \notin missed => flash[pos + next] = "erased"
    BY <1>3, <1>6, <2>1 DEF ErasedFrom
  <2>4. \A w \in Words \ missed : flash'[w] = IF w = pos + next THEN sent.image ELSE flash[w]
    BY <1>3, <1>7, <2>1, <2>2, <2>3 DEF Programmed
  <2>5. Held(pos + next)'
    <3>1. \A w \in Words \ missed : w < pos + next => flash[w] = sent.image
      BY <1>4 DEF Held
    <3>2. \A w \in Words \ missed : w < pos + (next + 1) => flash'[w] = sent.image
      BY <1>3, <2>4, <3>1 DEF Words
    <3> QED BY <1>1, <1>7, <3>2 DEF Held, host
  <2>6. Taken'
    BY <1>1, <1>3, <1>4, <1>5, <1>7, <2>5 DEF Taken, usb, host
  <2> QED
    BY <1>1, <1>3, <1>7, <2>6 DEF Orderly, Sending, AtRest, Words, usb, host
<1>8. CASE /\ missed' = missed \union (pos + next .. pos + count - 1)
           /\ start' = pos + count /\ last' = count /\ pc' = "reply"
           /\ UNCHANGED <<flash, next>>
  <2>1. Held(pos + count)'
    BY <1>1, <1>3, <1>4, <1>5, <1>8 DEF Held, Words, host
  <2>2. After(pos + Delivered)'
    BY <1>1, <1>3, <1>4, <1>5, <1>8, <2>1 DEF After, Settled, host
  <2>3. Taken'
    BY <1>1, <1>3, <1>4, <1>8, <2>2 DEF Taken, usb, host
  <2> QED
    BY <1>1, <1>3, <1>8, <2>3 DEF Orderly, Sending, AtRest, Words, usb, host
<1> QED BY <1>4, <1>7, <1>8 DEF ProgramWord, Miss

(* CMD_RESEND_PACKET gives the words before the packet back.               *)
LEMMA OrderlyResend ==
  ASSUME IapAssumption, IapInv, OrderlyInv, ResendErase \/ RestoreWord \/ EraseNext
  PROVE  OrderlyInv'
<1> SUFFICES ASSUME orderly PROVE Orderly'
  BY DEF OrderlyInv, ResendErase, RestoreWord, EraseNext, host
<1>1. /\ pc \in {"resend", "restore", "erasenext"}
      /\ pc' \in {"restore", "erasenext", "reply"}
      /\ UNCHANGED <<mode, session, cmd, count, usb, host>>
  BY DEF ResendErase, RestoreWord, EraseNext, Turn
<1>2. Orderly /\ ~AtRest
  BY <1>1 DEF OrderlyInv, AtRest
<1>3. Taken /\ Sending /\ mode = "iap" /\ waiting /\ ~answer /\ pos \in Words /\ pos \in Nat
      /\ Size \in Nat \ {0} /\ sent.cmd \in {"update", "data", "resend"} /\ next \in Nat
      /\ flash \in [Words -> Contents] /\ Page \in Nat \ {0}
  BY <1>2, OrderlyTurn
<1>4. /\ sent.cmd = "resend" /\ start = pos /\ total = Size - pos /\ gcmd = "update"
      /\ PageOf(pos) \in 0 .. pos /\ pos < PageOf(pos) + Page
  BY <1>1, <1>3, PageBounds DEF Taken
<1>5. UNCHANGED <<start, total, last, gcmd, waiting, sent, pos, orderly, ready, rcv, answer>>
  BY <1>1 DEF session, usb, host
<1>6. /\ pc' = "restore" => /\ Held(next)'
                          /\ \A w \in Words \ missed' : w < pos => saved'[w] = sent.image
      /\ pc' \in {"erasenext", "reply"} => Held(pos)'
  <2>1. CASE ResendErase
    <3>1. /\ pc' = "restore" /\ next' = PageOf(pos) /\ pc = "resend"
      BY <1>4, <2>1 DEF ResendErase, Turn
    <3>2. PICK k \in PageOf(pos) .. pos :
            /\ ReadBack(k)
            /\ \/ flash' = Erased(flash, PageOf(pos)) /\ missed' = missed \union (k .. pos - 1)
               \/ flash' = flash /\ missed' = missed \union WordsOf(PageOf(pos))
      BY <1>4, <2>1 DEF ResendErase, Miss
    <3>3. missed \subseteq missed' /\ \A w \in Words \ missed' : saved'[w] = flash[w]
      <4>1. PICK s \in [k .. start - 1 -> Contents] :
              saved' = [w \in Words |-> IF w \in k .. start - 1 THEN s[w] ELSE flash[w]]
        BY <3>2 DEF ReadBack
      <4>2. \A w \in Words \ missed' : w \notin k .. pos - 1
        BY <1>3, <1>4, <3>2 DEF WordsOf, Words
      <4> QED BY <1>4, <3>2, <4>1, <4>2
    <3>4. Held(pos)
      BY <1>3, <3>1 DEF Taken
    <3>5. \A w \in Words \ missed' : w < next' => flash'[w] = flash[w]
      BY <1>3, <1>4, <3>1, <3>2 DEF Erased, WordsOf, Words
    <3>6. Held(next)'
      BY <1>3, <1>4, <1>5, <3>1, <3>3, <3>4, <3>5 DEF Held, Words
    <3> QED BY <1>5, <3>1, <3>3, <3>4, <3>6 DEF Held
  <2>2. CASE RestoreWord
    <3>1. /\ pc = "restore" /\ Held(next)
          /\ \A w \in Words \ missed : w < pos => saved[w] = sent.image
      BY <1>3, <2>2 DEF Taken, RestoreWord, Turn
    <3>2. CASE /\ next < pos /\ flash' = Programmed(flash, next, saved[next])
               /\ next' = next + 1 /\ UNCHANGED <<pc, saved, missed>>
      <4>1. next \in Words /\ (next \notin missed => saved[next] = sent.image)
        BY <1>3, <3>1, <3>2 DEF Words
      <4>2. next \notin missed => flash[next] = "erased"
        BY <1>3, <1>4, <3>1, <3>2, <4>1 DEF IapInv, FlashInv, Restoring
      <4>3. \A w \in Words \ missed : flash'[w] = IF w = next THEN sent.image ELSE flash[w]
        BY <1>3, <3>2, <4>1, <4>2 DEF Programmed
      <4>4. Held(next)'
        BY <1>3, <1>5, <3>1, <3>2, <4>3 DEF Held, Words
      <4> QED BY <1>5, <3>1, <3>2, <4>4
    <3>3. CASE /\ missed' = missed \union (next .. pos - 1)
               /\ pc' # "restore" /\ UNCHANGED <<flash, next>>
      <4>1. Held(pos)'
        BY <1>3, <1>5, <3>1, <3>3 DEF Held, Words
      <4> QED BY <3>3, <4>1
    <3> QED BY <1>4, <2>2, <3>2, <3>3 DEF RestoreWord, Miss
  <2>3. CASE EraseNext
    <3>1. /\ pc = "erasenext" /\ pc' = "reply" /\ missed \subseteq missed'
          /\ flash' \in {flash, Erased(flash, PageOf(pos) + Page)}
      BY <1>4, <2>3 DEF EraseNext, Turn, Miss
    <3>2. Held(pos)
      BY <1>3, <3>1 DEF Taken
    <3>3. Held(pos)'
      BY <1>3, <1>4, <1>5, <3>1, <3>2 DEF Held, Erased, WordsOf, Words
    <3> QED BY <3>1, <3>3
  <2> QED BY <2>1, <2>2, <2>3
<1>7. Delivered = 0 /\ Delivered' = Delivered
  BY <1>3, <1>4, <1>5, PacketFits DEF Delivered
<1>8. pc' = "reply" => After(pos + Delivered)'
  BY <1>3, <1>4, <1>5, <1>6, <1>7 DEF After, Settled, Words, Held
<1>9. Taken'
  BY <1>1, <1>3, <1>4, <1>5, <1>6, <1>8 DEF Taken
<1> QED
  BY <1>1, <1>3, <1>5, <1>9 DEF Orderly, Sending, AtRest, Words

LEMMA OrderlyAnswer ==
  ASSUME IapAssumption, IapInv, OrderlyInv, Reply \/ ClearReady
  PROVE  OrderlyInv'
<1> SUFFICES ASSUME orderly PROVE Orderly'
  BY DEF OrderlyInv, Reply, ClearReady, host
<1>1. Orderly
  BY DEF OrderlyInv
<1>2. UNCHANGED <<mode, flash, missed, start, total, last, gcmd, waiting, sent, pos>>
  BY DEF Reply, ClearReady, rom, session, host
<1>3. /\ Sending' <=> Sending
      /\ After(pos)' <=> After(pos)
      /\ After(pos + Delivered)' <=> After(pos + Delivered)
  BY <1>2 DEF Sending, After, Settled, Held, Delivered
<1>4. CASE Reply
  <2>1. pc = "reply" /\ pc' = "clear" /\ answer'
    BY <1>4 DEF Reply, Turn
  <2>2. After(pos + Delivered) /\ waiting
    BY <1>1, <2>1 DEF Orderly, AtRest, Taken
  <2> QED BY <1>1, <1>2, <1>3, <2>1, <2>2 DEF Orderly, AtRest, Deaf
<1>5. CASE ClearReady
  <2>1. pc = "clear" /\ pc' = "loop" /\ ~ready' /\ answer' = answer
    BY <1>5 DEF ClearReady, Turn
  <2> QED BY <1>1, <1>2, <1>3, <2>1 DEF Orderly, AtRest, Deaf
<1> QED BY <1>4, <1>5

-----------------------------------------------------------------------------
(* The host's steps.                                                       *)
LEMMA OrderlySend ==
  ASSUME IapAssumption, IapInv, OrderlyInv, Host, orderly'
  PROVE  Orderly'
<1>1. Size \in Nat \ {0} /\ 0 \in Words /\ last \in Nat
  BY DEF IapAssumption, Words, IapInv, Types
<1>2. UNCHANGED <<mode, flash, missed, session, turn>>
  BY DEF Host, SendUpdate, SendData, SendResend, SendOther, Send, ReadAnswer, GiveUp, rom
<1>3. ASSUME NEW i \in Images, SendUpdate(i) PROVE Orderly'
  <2>1. /\ mode = "iap" /\ waiting' /\ sent' = Packet("update", i, 0) /\ rcv' = sent'
        /\ ready' /\ answer' = answer /\ pos' = 0 /\ AtRest /\ ~answer
    BY <1>3 DEF SendUpdate, Send, AtRest
  <2>2. Sending' /\ Arriving'
    BY <1>1, <2>1 DEF Sending, Arriving, Packet
  <2> QED BY <1>1, <1>2, <2>1, <2>2 DEF Orderly, AtRest, Packet, turn
<1>4. CASE SendData
  <2>1. /\ mode = "iap" /\ ~waiting /\ waiting' /\ sent' = Packet("data", sent.image, pos)
        /\ rcv' = sent' /\ ready' /\ answer' = answer /\ pos' = pos /\ orderly
        /\ pos \in Words \ {0}
    BY <1>4 DEF SendData, Send
  <2>2. ~answer /\ AtRest /\ Settled(pos) /\ pos \in 0 .. Size
    BY <2>1 DEF OrderlyInv, Orderly, Deaf, After
  <2>3. Sending' /\ Arriving'
    BY <1>1, <1>2, <2>1, <2>2 DEF Sending, Arriving, Packet, Settled, Held, session
  <2> QED BY <1>1, <1>2, <2>1, <2>2, <2>3 DEF Orderly, AtRest, Packet, turn
<1>5. CASE SendResend
  <2>1. /\ mode = "iap" /\ ~waiting /\ waiting' /\ sent' = Packet("resend", sent.image, 0)
        /\ rcv' = sent' /\ ready' /\ answer' = answer /\ orderly
        /\ sent.cmd \in {"update", "data"} /\ pos' = pos - last
    BY <1>5 DEF SendResend, Send
  <2>2. ~answer /\ AtRest /\ Settled(pos) /\ pos \in 0 .. Size /\ last \in 1 .. pos
    BY <2>1 DEF OrderlyInv, Orderly, Deaf, After
  <2>3. pos' \in Words /\ pos' + last' = pos /\ last' = last
    BY <1>1, <1>2, <2>1, <2>2 DEF Words, session
  <2>4. Sending' /\ Arriving'
    BY <1>1, <1>2, <2>1, <2>2, <2>3 DEF Sending, Arriving, Packet, Settled, Held, session
  <2> QED BY <1>1, <1>2, <2>1, <2>2, <2>3, <2>4 DEF Orderly, AtRest, Packet, turn, Words
<1>6. CASE ReadAnswer
  <2>1. /\ waiting /\ answer /\ ~waiting' /\ ~answer' /\ pos' = pos + Delivered /\ orderly
        /\ UNCHANGED <<ready, sent>>
    BY <1>6 DEF ReadAnswer
  <2>2. /\ mode = "iap" /\ sent.cmd \in {"update", "data", "resend"} /\ Deaf
        /\ After(pos + Delivered)
    BY <2>1 DEF OrderlyInv, Orderly
  <2>3. After(pos)' /\ Deaf' /\ pos' \in 0 .. Size
    BY <1>2, <2>1, <2>2 DEF After, Settled, Held, Deaf, AtRest, session, turn
  <2> QED BY <1>2, <2>1, <2>2, <2>3 DEF Orderly, Deaf
<1>7. ~(\E c \in {"run", "connect"} : SendOther(c)) /\ ~GiveUp
  BY DEF SendOther, GiveUp
<1> QED
  BY <1>3, <1>4, <1>5, <1>6, <1>7 DEF Host

LEMMA OrderlyStep ==
  ASSUME IapAssumption, IapInv, OrderlyInv, [Next]_vars
  PROVE  OrderlyInv'
<1>1. CASE Boot
  <2>1. ~orderly /\ orderly' = orderly
    BY <1>1 DEF Boot, OrderlyInv, Orderly, host
  <2> QED BY <2>1 DEF OrderlyInv
<1>2. CASE PowerFails \/ LeaveApp \/ Run
  BY <1>2 DEF PowerFails, LeaveApp, Run, Reset, OrderlyInv
<1>3. CASE EnterIap
  <2>1. ~orderly /\ orderly' = orderly
    BY <1>3 DEF EnterIap, OrderlyInv, Orderly, host
  <2> QED BY <2>1 DEF OrderlyInv
<1>4. CASE Host
  BY <1>4, OrderlySend DEF OrderlyInv
<1>5. CASE UNCHANGED vars
  BY <1>5 DEF vars, rom, session, turn, usb, host, OrderlyInv, Orderly, Sending, Deaf, AtRest,
     After, Settled, Held, Arriving, Taken, Delivered
<1> QED
  BY <1>1, <1>2, <1>3, <1>4, <1>5, OrderlyTake, OrderlyErase, OrderlyBegin, OrderlyProgram,
     OrderlyResend, OrderlyAnswer DEF Next, Loop

(* The words an orderly host takes for delivered, packets taken back and   *)
(* sent again included, are in the flash and its image's, but for those    *)
(* that a refused command left.                                            *)
THEOREM DeliveriesAreWritten == Spec => []DeliveredIsWritten
<1>1. Init => OrderlyInv
  BY DEF Init, OrderlyInv
<1>2. IapInv /\ OrderlyInv /\ [Next]_vars => OrderlyInv'
  BY IapAssumption, OrderlyStep
<1>3. OrderlyInv => DeliveredIsWritten
  BY DEF OrderlyInv, Orderly, After, Settled, Held, DeliveredIsWritten
<1> QED
  BY <1>1, <1>2, <1>3, IapAlways, PTL DEF Spec

-----------------------------------------------------------------------------
(* The refinement.  What the flash holds as a whole changes only where it  *)
(* is programmed: an erased word is no image's.                            *)
Holds(f, i) == \A w \in Words : f[w] = i
SlotImage(f) == IF \E i \in Images : Holds(f, i) THEN f[0] ELSE "none"

(* A whole image is the slot's, and no other.                              *)
LEMMA HoldsOne ==
  ASSUME IapAssumption, NEW f, NEW i \in Images, Holds(f, i)
  PROVE  SlotImage(f) = i
<1>1. 0 \in Words
  BY DEF IapAssumption, Words
<1> QED BY <1>1 DEF SlotImage, Holds

LEMMA SlotRange ==
  ASSUME IapAssumption, NEW f
  PROVE  /\ SlotImage(f) \in Images => Holds(f, SlotImage(f))
         /\ SlotImage(f) \in Images \union {"none"}
         /\ ~(\E i \in Images : Holds(f, i)) => SlotImage(f) = "none"
<1>1. "none" \notin Images /\ 0 \in Words
  BY DEF IapAssumption, Words
<1>2. CASE \E i \in Images : Holds(f, i)
  BY <1>2, HoldsOne
<1>3. CASE ~(\E i \in Images : Holds(f, i))
  BY <1>1, <1>3 DEF SlotImage
<1> QED BY <1>2, <1>3

(* Erasing leaves the image or takes it away.                              *)
LEMMA SlotErased ==
  ASSUME IapAssumption, NEW f \in [Words -> Contents], NEW p
  PROVE  SlotImage(Erased(f, p)) \in {SlotImage(f), "none"}
<1>1. ASSUME NEW i \in Images, Holds(Erased(f, p), i) PROVE Holds(f, i)
  BY <1>1 DEF Holds, Erased, IapAssumption
<1>2. CASE \E i \in Images : Holds(Erased(f, p), i)
  BY <1>1, <1>2, HoldsOne
<1>3. CASE ~(\E i \in Images : Holds(Erased(f, p), i))
  BY <1>3, SlotRange
<1> QED BY <1>2, <1>3

(* Programming a word may complete only the image of that word, and only   *)
(* where there was none.                                                   *)
LEMMA SlotProgrammed ==
  ASSUME IapAssumption, NEW f \in [Words -> Contents], NEW a \in Words, NEW v \in Contents
  PROVE  \/ SlotImage(Programmed(f, a, v)) \in {SlotImage(f), "none"}
         \/ /\ SlotImage(f) = "none" /\ v \in Images
            /\ SlotImage(Programmed(f, a, v)) = v /\ Holds(Programmed(f, a, v), v)
<1> DEFINE g == Programmed(f, a, v)
<1>1. \A w \in Words : g[w] = IF w = a THEN (IF f[a] = "erased" \/ f[a] = v THEN v ELSE "wrong")
                      ELSE f[w]
  BY DEF Programmed
<1>2. ASSUME NEW i \in Images, Holds(g, i) PROVE v = i /\ (Holds(f, i) \/ f[a] = "erased")
  BY <1>1, <1>2 DEF Holds, IapAssumption
<1>3. ASSUME NEW i \in Images, Holds(g, i), f[a] = "erased" PROVE SlotImage(f) = "none"
  <2>1. ~(\E j \in Images : Holds(f, j))
    BY <1>3 DEF Holds, IapAssumption
  <2> QED BY <2>1, SlotRange
<1>4. CASE \E i \in Images : Holds(g, i)
  <2>1. PICK i \in Images : Holds(g, i)
    BY <1>4
  <2>2. SlotImage(g) = i /\ v = i
    BY <1>2, <2>1, HoldsOne
  <2>3. CASE Holds(f, i)
    BY <2>2, <2>3, HoldsOne
  <2>4. CASE f[a] = "erased"
    BY <1>3, <2>1, <2>2, <2>4
  <2> QED BY <1>2, <2>1, <2>3, <2>4
<1>5. CASE ~(\E i \in Images : Holds(g, i))
  BY <1>5, SlotRange
<1> QED BY <1>4, <1>5

LEMMA SlotStart == ASSUME IapAssumption, Init PROVE Slot!Init
<1>1. PICK i \in Images : flash = [w \in Words |-> i]
  BY DEF Init
<1>2. SlotImage(flash) = i
  BY <1>1, HoldsOne DEF Holds
<1> QED
  BY <1>2 DEF Init, Slot!Init, SlotImage, Holds, Whole, NoPacket, Packet

(* Every step is one of the slot, or none.                                 *)
LEMMA SlotStep ==
  ASSUME IapAssumption, IapInv, [Next]_vars
  PROVE  [Slot!Next]_(Slot!vars)
<1> DEFINE image == SlotImage(flash)
           faulty == missed # {}
           runs == mode = "app"
           offer == sent.image
<1>0. /\ image = (IF \E i \in Images : Whole(i) THEN flash[0] ELSE "none")
      /\ image' = (IF \E i \in Images : Whole(i) THEN flash[0] ELSE "none")'
  BY DEF SlotImage, Holds, Whole
<1>1. ASSUME UNCHANGED <<flash, missed, mode, sent>>
      PROVE  UNCHANGED Slot!vars
  BY <1>1 DEF Slot!vars, Whole
<1>2. ASSUME image' \in {image, "none"}, UNCHANGED <<mode, sent>>, mode # "app"
      PROVE  Slot!Spoil
  BY <1>0, <1>2 DEF Slot!Spoil
<1>3. CASE Boot
  <2>1. /\ mode = "boot" /\ UNCHANGED <<flash, missed, sent>>
        /\ (Verified /\ mode' = "app") \/ mode' = "iap"
    BY <1>3 DEF Boot, rom, host
  <2>2. CASE Verified /\ mode' = "app"
    <3>1. PICK i \in Images : Holds(flash, i)
      <4>1. PICK i \in Images : /\ \A w \in 0 .. Size - 2 : flash[w] = i
                                /\ flash[Size - 1] = i
        BY <2>2 DEF Verified
      <4>2. \A w \in Words : w \in 0 .. Size - 2 \/ w = Size - 1
        BY DEF Words, IapAssumption
      <4> QED BY <4>1, <4>2 DEF Holds
    <3>2. image \in Images /\ image # "none" /\ image' = image
      BY <2>1, <3>1, HoldsOne DEF IapAssumption, SlotImage, Holds
    <3>3. Slot!Start
      BY <1>0, <2>1, <2>2, <3>2 DEF Slot!Start
    <3> QED BY <3>3 DEF Slot!Next
  <2>3. CASE mode' = "iap"
    BY <2>1, <2>3 DEF Slot!vars, Whole
  <2> QED BY <2>1, <2>2, <2>3
<1>4. CASE PowerFails \/ LeaveApp \/ Run
  <2>1. Slot!Reset
    BY <1>4 DEF PowerFails, LeaveApp, Run, Reset, Slot!Reset, NoPacket, Packet, Whole
  <2> QED BY <2>1 DEF Slot!Next
<1>5. CASE EnterIap
  <2>1. image' \in {image, "none"} /\ UNCHANGED <<mode, missed, sent>>
    BY <1>5, SlotErased DEF EnterIap, IapInv, Types, host, SlotImage, Holds
  <2>2. Slot!Spoil
    BY <1>0, <2>1 DEF Slot!Spoil
  <2> QED BY <2>2 DEF Slot!Next
<1>6. CASE TakePacket
  <2>1. UNCHANGED <<flash, mode, sent>> /\ mode # "app"
    BY <1>6 DEF TakePacket, Turn, host
  <2>2. image' = image
    BY <2>1 DEF SlotImage, Holds
  <2> QED BY <1>2, <2>1, <2>2 DEF Slot!Next
<1>7. CASE ErasePage \/ ResendErase \/ EraseNext
  <2>1. UNCHANGED <<mode, sent>> /\ mode # "app"
    BY <1>7 DEF ErasePage, ResendErase, EraseNext, Turn, host
  <2>2. \E p : flash' \in {flash, Erased(flash, p)}
    BY <1>7 DEF ErasePage, ResendErase, EraseNext
  <2>3. image' \in {image, "none"}
    BY <2>2, SlotErased DEF IapInv, Types, SlotImage, Holds
  <2> QED BY <1>2, <2>1, <2>3 DEF Slot!Next
<1>8. CASE ProgramWord
  <2>1. UNCHANGED <<mode, sent>> /\ mode = "iap" /\ pc = "program"
    BY <1>8 DEF ProgramWord, Turn, host
  <2>2. CASE UNCHANGED flash
    <3>1. image' = image
      BY <2>2 DEF SlotImage, Holds
    <3> QED BY <1>2, <2>1, <3>1 DEF Slot!Next
  <2>3. CASE next < count /\ flash' = Programmed(flash, start + next, Source)
             /\ UNCHANGED missed
    <3>1. start + next \in Words
      BY <2>1, <2>3 DEF IapInv, Types, FlashInv, Words, IapAssumption
    <3>2. Source \in Contents /\ Source \in {sent.image, "wrong"}
      BY <2>1, SourceWord DEF IapInv
    <3>3. \/ image' \in {image, "none"}
          \/ image = "none" /\ Source \in Images /\ image' = Source
      <4>1. image' = SlotImage(flash')
        BY DEF SlotImage, Holds
      <4> QED BY <2>3, <3>1, <3>2, <4>1, SlotProgrammed DEF IapInv, Types
    <3>4. ASSUME image = "none", Source \in Images, image' = Source
          PROVE  Slot!Install(Source)
      <4>1. Source = sent.image
        BY <3>2, <3>4 DEF IapAssumption
      <4> QED BY <1>0, <2>1, <2>3, <3>4, <4>1 DEF Slot!Install
    <3> QED BY <1>2, <2>1, <3>3, <3>4 DEF Slot!Next
  <2> QED BY <1>8, <2>2, <2>3 DEF ProgramWord
<1>9. CASE RestoreWord
  <2>1. UNCHANGED <<mode, sent>> /\ mode = "iap" /\ pc = "restore"
    BY <1>9 DEF RestoreWord, Turn, host
  <2>2. CASE UNCHANGED flash
    <3>1. image' = image
      BY <2>2 DEF SlotImage, Holds
    <3> QED BY <1>2, <2>1, <3>1 DEF Slot!Next
  <2>3. CASE next < start /\ flash' = Programmed(flash, next, saved[next])
             /\ UNCHANGED missed
    <3>1. next \in Words /\ saved[next] \in Contents /\ start \in Words /\ next # start
      BY <2>1, <2>3 DEF IapInv, Types, GapInv, Words, IapAssumption
    <3>2. flash[start] = "erased" \/ faulty
      BY <2>1 DEF IapInv, GapInv
    <3>3. \/ image' \in {image, "none"}
          \/ /\ image = "none" /\ saved[next] \in Images /\ image' = saved[next]
             /\ Holds(flash', saved[next])
      <4>1. image' = SlotImage(flash')
        BY DEF SlotImage, Holds
      <4> QED BY <2>3, <3>1, <4>1, SlotProgrammed DEF IapInv, Types
    <3>4. ASSUME image = "none", saved[next] \in Images, image' = saved[next],
                 Holds(flash', saved[next])
          PROVE  Slot!Install(saved[next])
      <4>1. flash'[start] = flash[start]
        BY <2>3, <3>1 DEF Programmed, IapInv, Types
      <4>2. faulty
        BY <3>1, <3>2, <3>4, <4>1 DEF Holds, IapAssumption
      <4> QED BY <1>0, <2>1, <2>3, <3>4, <4>2 DEF Slot!Install
    <3> QED BY <1>2, <2>1, <3>3, <3>4 DEF Slot!Next
  <2> QED BY <1>9, <2>2, <2>3 DEF RestoreWord
<1>10. CASE BeginWrite \/ Reply \/ ClearReady
  BY <1>1, <1>10 DEF BeginWrite, Reply, ClearReady, rom, host
<1>11. CASE Host
  <2>1. UNCHANGED <<flash, missed, mode>>
    BY <1>11 DEF Host, SendUpdate, SendData, SendResend, SendOther, Send, ReadAnswer, GiveUp, rom
  <2>2. ASSUME NEW i \in Images, SendUpdate(i) PROVE Slot!Offer
    <3>1. mode = "iap" /\ sent'.image = i
      BY <2>2 DEF SendUpdate, Send, Packet
    <3> QED BY <2>1, <3>1 DEF Slot!Offer, Whole
  <2>3. CASE SendData \/ SendResend \/ (\E c \in {"run", "connect"} : SendOther(c))
             \/ ReadAnswer \/ GiveUp
    <3>1. sent'.image = sent.image
      BY <2>3 DEF SendData, SendResend, SendOther, Send, ReadAnswer, GiveUp, Packet
    <3> QED BY <2>1, <3>1 DEF Slot!vars, Whole
  <2> QED BY <1>11, <2>2, <2>3 DEF Host, Slot!Next
<1>12. CASE UNCHANGED vars
  BY <1>1, <1>12 DEF vars, rom, host
<1> QED
  BY <1>3, <1>4, <1>5, <1>6, <1>7, <1>8, <1>9, <1>10, <1>11, <1>12 DEF Next, Loop

(* The bootloader implements AppSlot, for every size of the application,   *)
(* of a page and of a packet, whatever is interrupted, lost, sent again or *)
(* refused: only a whole image is started, and one that becomes whole is   *)
(* what the host sends, unless the flash refused a command.                *)
THEOREM Refinement == Spec => SlotSpec
<1>1. Init => Slot!Init
  BY IapAssumption, SlotStart
<1>2. IapInv /\ [Next]_vars => [Slot!Next]_(Slot!vars)
  BY IapAssumption, SlotStep
<1> QED
  BY <1>1, <1>2, IapAlways, PTL DEF Spec, SlotSpec, Slot!Spec
=============================================================================
