---------------------------- MODULE StorageProofs ----------------------------
(***************************************************************************)
(* Theorems about the images and cards.  FileMounter: whatever is lost on  *)
(* the bus, a sector gets to the image or the core as it is, or is not     *)
(* said to.  SdCard and MscMode, for every size of a card, contents and    *)
(* length of a call: whatever goes wrong in a call, the driver and its     *)
(* card agree on the transfer that is open, a sector is the one that was   *)
(* asked for, and only one side uses a card.                               *)
(***************************************************************************)
EXTENDS FileMounter, MscMode, SequenceTheorems, TLAPS

Ops      == {"READ", "WRITE"}
UpFrames == [cmd : {"LBA"}, addr : Byte, data : Byte] \cup [cmd : {"SEC"}, addr : {0}, data : Ops]
            \cup [cmd : {"BANK"}, addr : {0}, data : Bank] \cup [cmd : {"BANK"}, addr : {16}, data : Content]
            \cup [cmd : {"DATA"}, addr : {0}, data : Content]
Answers  == {"DONE", "ERROR", "PROTECTED"}
Pcs      == {"rest", "read", "bank", "data", "sum", "receive", "answer"}

MountTypes ==
  /\ mount \in [wp : BOOLEAN, caps : BOOLEAN]
  /\ req \in [lba : Lba, mask : SUBSET Byte, op : Ops, complete : BOOLEAN, pending : BOOLEAN,
              started : BOOLEAN]
  /\ wr \in [bank : Bank, buf : [Bank -> Content], seen : SUBSET Bank, sum : Content, sum_seen : BOOLEAN]
  /\ serve \in [pc : Pcs, op : Ops, lba : Lba, next : Bank, res : Answers]
  /\ dirty \in BOOLEAN
  /\ disk \in [Lba -> Content]
  /\ core \in [state : {"idle", "wait", "again", "reset"}, op : Ops, lba : Lba, data : Content,
               bank : Bank, buf : [Bank -> Content], seen : SUBSET Bank, sum : Content]
  /\ up \in Seq(UpFrames)
  /\ faults \in Nat /\ faults <= MaxFaults /\ cuts \in Nat

\* A frame of the request the core has made: of its LBA, its operation or its data.
OfData(f, c) == /\ c.op = "WRITE"
                /\ \/ f.cmd = "BANK" /\ f.addr = 0 /\ f.data \in Bank
                   \/ f.cmd = "BANK" /\ f.addr = 16 /\ f.data = c.data
                   \/ f.cmd = "DATA" /\ f.addr = 0 /\ f.data = c.data
OfLba(f, c) == f.cmd = "LBA" /\ f.addr \in Byte /\ f.data = c.lba[f.addr + 1]
OfSec(f, c) == f.cmd = "SEC" /\ f.addr = 0 /\ f.data = c.op
IsSum(f) == f.cmd = "BANK" /\ f.addr = 16

\* A request was received and is not answered yet.
Busy == req.pending \/ serve.pc # "rest"

\* What is on its way is of the request the core waits for; the operation comes once,
\* then its data, the sum as the last of it.
OfRequest == \A i \in 1 .. Len(up) : OfData(up[i], core) \/ OfLba(up[i], core) \/ OfSec(up[i], core)
SecLast   == \A i \in 1 .. Len(up) : up[i].cmd = "SEC" => \A j \in i + 1 .. Len(up) : OfData(up[j], core)
SumLast   == \A i \in 1 .. Len(up) : IsSum(up[i]) => i = Len(up) \/ up[i + 1].cmd = "LBA"
OnlyData  == \A i \in 1 .. Len(up) : OfData(up[i], core)
OnTheWay ==
  /\ OfRequest /\ SecLast /\ SumLast
  /\ Busy => OnlyData /\ core.state \in {"wait", "reset"}
  /\ core.state = "again" => OnlyData
  /\ core.state = "idle" => up = <<>>
  /\ core.state = "reset" => cuts # 0
  /\ core.state # "idle" => core.lba \in Asked /\ core.data \in WriteData \cup {Blank}

\* The bytes of the LBA that were received are those of the request, or its first
\* frame is still to come and forgets them.
Goods == \A a \in req.mask : req.lba[a + 1] = core.lba[a + 1]
FirstOne(i) == \E j \in 1 .. i - 1 : up[j].cmd = "LBA" /\ up[j].addr = 0
LbaRight ==
  /\ Busy => req.mask = {}
  /\ cuts = 0 => Goods /\ (core.state = "idle" => req.mask = {})
  /\ faults = 0 => \A i \in 1 .. Len(up) : up[i].cmd = "SEC" => Goods \/ FirstOne(i)
  /\ CutOrLost /\ req.pending /\ req.complete => req.lba = core.lba
  /\ CutOrLost /\ serve.pc # "rest" /\ (serve.pc = "answer" => serve.res # "ERROR") => serve.lba = core.lba

\* The data of a write, as far as it was received.
WriteRight ==
  Busy /\ core.op = "WRITE" =>
    /\ \A b \in wr.seen : wr.buf[b] = core.data
    /\ wr.sum_seen => wr.sum = core.data /\ up = <<>>

\* What is served is the request of the core; what is in the sector buffer and what
\* the core has of it.
Sends == serve.pc \in {"bank", "data", "sum", "answer"} /\ serve.op = "READ" /\ serve.res # "ERROR"
ServeRight ==
  /\ req.pending => req.op = core.op /\ serve.pc = "rest"
  /\ serve.pc # "rest" => serve.op = core.op
  /\ serve.pc \in {"read", "bank", "data", "sum"} => serve.op = "READ"
  /\ serve.pc = "receive" => serve.op = "WRITE"
  /\ serve.pc \in {"read", "receive"} => serve.res # "ERROR"
  /\ Sends => \A b \in Bank : wr.buf[b] = disk[serve.lba]
  /\ core.state = "wait" /\ core.op = "READ" =>
       /\ (\E i \in 1 .. Len(up) : up[i].cmd = "SEC") \/ req.pending \/ serve.pc = "read" => core.seen = {}
       /\ Sends => \A b \in core.seen : core.buf[b] = disk[serve.lba]
  /\ serve.pc = "answer" /\ serve.op = "WRITE" /\ serve.res # "ERROR" =>
       /\ mount.wp \/ disk[serve.lba] = core.data
       /\ wr.sum_seen

MountInv == MountTypes /\ OnTheWay /\ LbaRight /\ WriteRight /\ ServeRight

-----------------------------------------------------------------------------
(* Sequences of frames.                                                    *)

\* What is left without the first element.
LEMMA TailIs ==
  ASSUME NEW S, NEW s \in Seq(S), s # <<>>
  PROVE  /\ Tail(s) \in Seq(S) /\ Len(Tail(s)) = Len(s) - 1 /\ Len(s) \in Nat
         /\ 1 \in 1 .. Len(s) /\ Head(s) = s[1] /\ Head(s) \in S
         /\ \A i \in 1 .. Len(Tail(s)) : i + 1 \in 1 .. Len(s) /\ Tail(s)[i] = s[i + 1]
<1>1. Len(s) \in Nat /\ Len(s) >= 1
  BY EmptySeq, LenProperties
<1>2. Head(s) = s[1] /\ Len(Tail(s)) = Len(s) - 1 /\ Tail(s) \in Seq(S)
  BY <1>1, HeadTailProperties
<1>3. s[1] \in S
  BY <1>1, ElementOfSeq
<1>4. \A i \in 1 .. Len(Tail(s)) : Tail(s)[i] = s[i + 1]
  BY <1>1, HeadTailProperties
<1> QED
  BY <1>1, <1>2, <1>3, <1>4

\* The two parts of a sequence that was made longer.
LEMMA JoinIs ==
  ASSUME NEW S, NEW s \in Seq(S), NEW u \in Seq(S)
  PROVE  /\ s \o u \in Seq(S) /\ Len(s) \in Nat /\ Len(u) \in Nat
         /\ Len(s \o u) = Len(s) + Len(u)
         /\ \A i \in 1 .. Len(s) : (s \o u)[i] = s[i]
         /\ \A i \in 1 .. Len(u) : (s \o u)[Len(s) + i] = u[i]
<1>1. Len(s) \in Nat /\ Len(u) \in Nat
  BY LenProperties
<1> QED
  BY <1>1, ConcatProperties

\* The first elements of a sequence.
LEMMA FirstsAre ==
  ASSUME NEW S, NEW s \in Seq(S), NEW n \in 0 .. Len(s)
  PROVE  /\ SubSeq(s, 1, n) \in Seq(S) /\ Len(SubSeq(s, 1, n)) = n /\ Len(s) \in Nat
         /\ \A i \in 1 .. n : i \in 1 .. Len(s) /\ SubSeq(s, 1, n)[i] = s[i]
<1>1. Len(s) \in Nat
  BY LenProperties
<1>2. 1 \in 1 .. Len(s) + 1 /\ n \in Nat /\ n >= 0 /\ n <= Len(s)
  BY <1>1
<1>3. SubSeq(s, 1, n) \in Seq(S) /\ Len(SubSeq(s, 1, n)) = n
  BY <1>1, <1>2, SubSeqProperties
<1>4. \A i \in 1 .. n : SubSeq(s, 1, n)[i] = s[i]
  BY <1>1, <1>2, SubSeqProperties
<1> QED
  BY <1>1, <1>2, <1>3, <1>4

\* The frames of a request.
FramesOf(r, op, lba, data) ==
  /\ r \in Seq(UpFrames) /\ Len(r) = IF op = "READ" THEN 3 ELSE 8
  /\ r[1] = Frame("LBA", 0, lba[1]) /\ r[2] = Frame("LBA", 1, lba[2]) /\ r[3] = Frame("SEC", 0, op)
  /\ op = "WRITE" => /\ r[4] = Frame("BANK", 0, 0) /\ r[5] = Frame("DATA", 0, data)
                     /\ r[6] = Frame("BANK", 0, 1) /\ r[7] = Frame("DATA", 0, data)
                     /\ r[8] = Frame("BANK", 16, data)
\* A request is these frames, one by one.
LEMMA FramesAre ==
  ASSUME NEW op \in Ops, NEW lba \in Lba, NEW data \in Content
  PROVE  FramesOf(RequestFrames(op, lba, data), op, lba, data)
<1> DEFINE r == RequestFrames(op, lba, data)
           three == <<Frame("LBA", 0, lba[1]), Frame("LBA", 1, lba[2]), Frame("SEC", 0, op)>>
           five == <<Frame("BANK", 0, 0), Frame("DATA", 0, data), Frame("BANK", 0, 1), Frame("DATA", 0, data),
                     Frame("BANK", 16, data)>>
<1>1. lba[1] \in Byte /\ lba[2] \in Byte
  BY DEF Lba
<1>2. /\ Frame("LBA", 0, lba[1]) \in UpFrames /\ Frame("LBA", 1, lba[2]) \in UpFrames
      /\ Frame("SEC", 0, op) \in UpFrames
  BY <1>1 DEF Frame, UpFrames, Byte
<1>3. /\ Frame("BANK", 0, 0) \in UpFrames /\ Frame("BANK", 0, 1) \in UpFrames
      /\ Frame("DATA", 0, data) \in UpFrames /\ Frame("BANK", 16, data) \in UpFrames
  BY DEF Frame, UpFrames, Bank
<1> HIDE DEF UpFrames
<1>4. three \in Seq(UpFrames) /\ Len(three) = 3
  BY <1>2
<1>5. five \in Seq(UpFrames) /\ Len(five) = 5
  BY <1>3
<1>6. CASE op = "READ"
  <2>1. r = three \o <<>>
    BY <1>6 DEF RequestFrames
  <2>2. r = three
    BY <1>4, <2>1, ConcatEmptySeq
  <2>3. three[1] = Frame("LBA", 0, lba[1]) /\ three[2] = Frame("LBA", 1, lba[2]) /\ three[3] = Frame("SEC", 0, op)
    OBVIOUS
  <2>4. op # "WRITE"
    BY <1>6
  <2> HIDE DEF three, r
  <2>5. r \in Seq(UpFrames) /\ Len(r) = 3
    BY <1>4, <2>2
  <2> QED
    BY <1>6, <2>2, <2>3, <2>4, <2>5 DEF r, FramesOf
<1>7. CASE op = "WRITE"
  <2>1. r = three \o five
    BY <1>7 DEF RequestFrames
  <2>2. three[1] = Frame("LBA", 0, lba[1]) /\ three[2] = Frame("LBA", 1, lba[2]) /\ three[3] = Frame("SEC", 0, op)
    OBVIOUS
  <2>3. /\ five[1] = Frame("BANK", 0, 0) /\ five[2] = Frame("DATA", 0, data) /\ five[3] = Frame("BANK", 0, 1)
        /\ five[4] = Frame("DATA", 0, data) /\ five[5] = Frame("BANK", 16, data)
    OBVIOUS
  <2> HIDE DEF three, five
  <2>4. /\ r \in Seq(UpFrames) /\ Len(r) = 8
        /\ \A i \in 1 .. 3 : r[i] = three[i]
        /\ \A i \in 1 .. 5 : r[3 + i] = five[i]
    <3>1. /\ three \o five \in Seq(UpFrames) /\ Len(three \o five) = Len(three) + Len(five)
          /\ \A i \in 1 .. Len(three) : (three \o five)[i] = three[i]
          /\ \A i \in 1 .. Len(five) : (three \o five)[Len(three) + i] = five[i]
      <4>1. three \in Seq(UpFrames)
        BY <1>4
      <4>2. five \in Seq(UpFrames)
        BY <1>5
      <4> QED
        BY <4>1, <4>2, JoinIs
    <3>2. Len(three) = 3 /\ Len(five) = 5
      BY <1>4, <1>5
    <3> HIDE DEF r
    <3> QED
      BY <2>1, <3>1, <3>2, SMTT(30)
  <2>5. r[1] = three[1] /\ r[2] = three[2] /\ r[3] = three[3]
    BY <2>4
  <2>6. r[4] = five[1] /\ r[5] = five[2] /\ r[6] = five[3] /\ r[7] = five[4] /\ r[8] = five[5]
    <3>1. r[3 + 1] = five[1] /\ r[3 + 2] = five[2] /\ r[3 + 3] = five[3] /\ r[3 + 4] = five[4] /\ r[3 + 5] = five[5]
      BY <2>4
    <3> QED
      BY <3>1
  <2>7. op # "READ"
    BY <1>7
  <2> HIDE DEF r
  <2> QED
    BY <1>7, <2>2, <2>3, <2>4, <2>5, <2>6, <2>7 DEF r, FramesOf
<1> QED
  BY <1>6, <1>7 DEF Ops

\* What its frames are.
LEMMA RequestIs ==
  ASSUME NEW c, c.op \in Ops, c.lba \in Lba, c.data \in Content
  PROVE  LET r == RequestFrames(c.op, c.lba, c.data)
         IN /\ r \in Seq(UpFrames) /\ Len(r) \in Nat /\ Len(r) >= 3
            /\ OfLba(r[1], c) /\ OfLba(r[2], c) /\ OfSec(r[3], c) /\ r[1].addr = 0
            /\ \A k \in 4 .. Len(r) : OfData(r[k], c)
            /\ \A k \in 1 .. Len(r) : IsSum(r[k]) => k = Len(r)
<1> DEFINE r == RequestFrames(c.op, c.lba, c.data)
<1>1. FramesOf(r, c.op, c.lba, c.data)
  BY FramesAre
<1> HIDE DEF r
<1>2. Len(r) \in {3, 8} /\ Len(r) \in Nat /\ (Len(r) = 8 => c.op = "WRITE")
  BY <1>1 DEF FramesOf, Ops
<1>3. OfLba(r[1], c) /\ OfLba(r[2], c) /\ OfSec(r[3], c) /\ r[1].addr = 0
  BY <1>1 DEF FramesOf, OfLba, OfSec, Frame, Byte
<1>4. \A k \in 4 .. Len(r) : OfData(r[k], c)
  <2> SUFFICES ASSUME NEW k \in 4 .. Len(r) PROVE OfData(r[k], c)
    OBVIOUS
  <2>1. c.op = "WRITE" /\ k \in {4, 5, 6, 7, 8}
    <3>1. ASSUME Len(r) = 3 PROVE FALSE
      <4>1. k \in 4 .. 3
        BY <3>1
      <4> QED
        BY <4>1
    <3>2. Len(r) = 8
      BY <1>2, <3>1
    <3>3. k \in 4 .. 8
      BY <3>2
    <3> QED
      BY <1>2, <3>2, <3>3
  <2>2. k = 4 => OfData(r[k], c)
    BY <1>1, <2>1 DEF FramesOf, OfData, Frame, Bank
  <2>3. k = 5 \/ k = 7 => OfData(r[k], c)
    BY <1>1, <2>1 DEF FramesOf, OfData, Frame
  <2>4. k = 6 => OfData(r[k], c)
    BY <1>1, <2>1 DEF FramesOf, OfData, Frame, Bank
  <2>5. k = 8 => OfData(r[k], c)
    BY <1>1, <2>1 DEF FramesOf, OfData, Frame
  <2> QED
    BY <2>1, <2>2, <2>3, <2>4, <2>5
<1>5. \A k \in 1 .. Len(r) : IsSum(r[k]) => k = Len(r)
  <2> SUFFICES ASSUME NEW k \in 1 .. Len(r), IsSum(r[k]) PROVE k = Len(r)
    OBVIOUS
  <2>1. k \in {1, 2, 3} => FALSE
    BY <1>1 DEF FramesOf, IsSum, Frame
  <2>2. k \in {4, 5, 6, 7} => FALSE
    BY <1>1, <1>2 DEF FramesOf, IsSum, Frame
  <2>3. CASE Len(r) = 3
    <3>1. k \in 1 .. 3
      BY <2>3
    <3> QED
      BY <2>1, <3>1
  <2>4. CASE Len(r) = 8
    <3>1. k \in 1 .. 8
      BY <2>4
    <3> QED
      BY <2>1, <2>2, <2>4, <3>1
  <2> QED
    BY <1>2, <2>3, <2>4
<1> QED
  BY <1>1, <1>2, <1>3, <1>4, <1>5 DEF r, FramesOf

\* A request that is made, or made again: its frames are behind what is on its way.
LEMMA RequestMade ==
  ASSUME up \in Seq(UpFrames), SumLast, NEW c,
         c.op \in Ops, c.lba \in Lba, c.data \in Content,
         \A i \in 1 .. Len(up) : OfData(up[i], c),
         core' = c, up' = up \o RequestFrames(c.op, c.lba, c.data)
  PROVE  /\ up' \in Seq(UpFrames)
         /\ OfRequest' /\ SecLast' /\ SumLast'
         /\ \A i \in 1 .. Len(up') : up'[i].cmd = "SEC" => FirstOne(i)'
<1> DEFINE r == RequestFrames(c.op, c.lba, c.data)
           n == Len(up)
<1>1. r \in Seq(UpFrames)
  BY RequestIs
<1>2. Len(r) \in Nat /\ Len(r) >= 3
  BY RequestIs
<1>3. OfLba(r[1], c) /\ OfLba(r[2], c) /\ OfSec(r[3], c) /\ r[1].addr = 0
  BY RequestIs
<1>4. \A k \in 4 .. Len(r) : OfData(r[k], c)
  BY RequestIs
<1>5. \A k \in 1 .. Len(r) : IsSum(r[k]) => k = Len(r)
  BY RequestIs
<1> HIDE DEF r
<1>6. /\ up' \in Seq(UpFrames) /\ n \in Nat /\ Len(up') = n + Len(r)
      /\ \A i \in 1 .. n : up'[i] = up[i]
      /\ \A k \in 1 .. Len(r) : up'[n + k] = r[k]
  <2>1. up' = up \o r
    BY DEF r
  <2>2. r \in Seq(UpFrames)
    BY <1>1
  <2>3. /\ up \o r \in Seq(UpFrames) /\ Len(up) \in Nat /\ Len(up \o r) = Len(up) + Len(r)
        /\ \A i \in 1 .. Len(up) : (up \o r)[i] = up[i]
        /\ \A k \in 1 .. Len(r) : (up \o r)[Len(up) + k] = r[k]
    BY <2>2, JoinIs
  <2> QED
    BY <2>1, <2>3
<1> HIDE DEF n
<1>7. \A i \in 1 .. Len(up') : i \in 1 .. n \/ i - n \in 1 .. Len(r)
  BY <1>2, <1>6
<1>8. \A i \in 1 .. Len(up') : i - n \in 1 .. Len(r) => up'[i] = r[i - n]
  <2> SUFFICES ASSUME NEW i \in 1 .. Len(up'), i - n \in 1 .. Len(r) PROVE up'[i] = r[i - n]
    OBVIOUS
  <2>1. up'[n + (i - n)] = r[i - n]
    BY <1>6
  <2>2. n + (i - n) = i
    BY <1>6
  <2> QED
    BY <2>1, <2>2
<1>9. \A k \in 1 .. Len(r) : k \in {1, 2, 3} \/ k \in 4 .. Len(r)
  BY <1>2
<1>10. OfRequest'
  <2> SUFFICES ASSUME NEW i \in 1 .. Len(up')
               PROVE  OfData(up'[i], c) \/ OfLba(up'[i], c) \/ OfSec(up'[i], c)
    BY DEF OfRequest
  <2>1. CASE i \in 1 .. n
    BY <1>6, <2>1 DEF n
  <2>2. CASE i - n \in 1 .. Len(r)
    BY <1>3, <1>4, <1>8, <1>9, <2>2
  <2> QED
    BY <1>7, <2>1, <2>2
<1>11. \A i \in 1 .. Len(up') : up'[i].cmd = "SEC" => i = n + 3
  <2> SUFFICES ASSUME NEW i \in 1 .. Len(up'), up'[i].cmd = "SEC" PROVE i = n + 3
    OBVIOUS
  <2>1. ~(i \in 1 .. n)
    BY <1>6 DEF OfData, n
  <2>2. up'[i] = r[i - n] /\ i - n \in 1 .. Len(r)
    BY <1>7, <1>8, <2>1
  <2>3. i - n \notin 4 .. Len(r)
    BY <1>4, <2>2 DEF OfData
  <2>4. i - n # 1 /\ i - n # 2
    BY <1>3, <2>2 DEF OfLba
  <2>5. i - n = 3
    BY <1>9, <2>2, <2>3, <2>4
  <2> QED
    BY <1>6, <2>5
<1>12. SecLast'
  <2> SUFFICES ASSUME NEW i \in 1 .. Len(up'), up'[i].cmd = "SEC", NEW j \in i + 1 .. Len(up')
               PROVE  OfData(up'[j], c)
    BY DEF SecLast
  <2>1. i = n + 3
    BY <1>11
  <2>2. j - n \in 4 .. Len(r) /\ j \in 1 .. Len(up') /\ j - n \in 1 .. Len(r)
    BY <1>2, <1>6, <2>1
  <2> QED
    BY <1>4, <1>8, <2>2
<1>13. SumLast'
  <2> SUFFICES ASSUME NEW i \in 1 .. Len(up'), IsSum(up'[i]), i # Len(up')
               PROVE  up'[i + 1].cmd = "LBA"
    BY DEF SumLast
  <2>1. CASE i \in 1 .. n
    <3>1. i = n \/ up[i + 1].cmd = "LBA"
      BY <1>6, <2>1 DEF SumLast, n
    <3>2. CASE i = n
      <4>1. 1 \in 1 .. Len(r) /\ up'[n + 1] = r[1]
        BY <1>2, <1>6
      <4> QED
        BY <1>3, <3>2, <4>1 DEF OfLba
    <3>3. CASE i # n
      <4>1. i + 1 \in 1 .. n
        BY <1>6, <2>1, <3>3
      <4> QED
        BY <1>6, <3>1, <3>3, <4>1
    <3> QED
      BY <3>2, <3>3
  <2>2. CASE i - n \in 1 .. Len(r)
    <3>1. i - n = Len(r)
      BY <1>5, <1>8, <2>2
    <3> QED
      BY <1>2, <1>6, <3>1
  <2> QED
    BY <1>7, <2>1, <2>2
<1>14. ASSUME NEW i \in 1 .. Len(up'), up'[i].cmd = "SEC" PROVE FirstOne(i)'
  <2>1. i = n + 3 /\ n + 1 \in 1 .. i - 1
    BY <1>6, <1>11, <1>14
  <2>2. up'[n + 1] = r[1]
    <3>1. 1 \in 1 .. Len(r)
      BY <1>2
    <3> QED
      BY <1>6, <3>1
  <2> QED
    BY <1>3, <2>1, <2>2 DEF FirstOne, OfLba
<1> QED
  BY <1>6, <1>10, <1>12, <1>13, <1>14

-----------------------------------------------------------------------------
(* What the next frame of the core does, in whichever transfer it comes.   *)

\* A transfer brings none, or one that is lost, or one that is handled.
Pulls ==
  \/ UNCHANGED <<up, req, wr>>
  \/ up # <<>> /\ up' = Tail(up) /\ UNCHANGED <<req, wr>> /\ faults' # 0
  \/ up # <<>> /\ up' = Tail(up) /\ Handle(Head(up))

ReqType == [lba : Lba, mask : SUBSET Byte, op : Ops, complete : BOOLEAN, pending : BOOLEAN, started : BOOLEAN]
WrType  == [bank : Bank, buf : [Bank -> Content], seen : SUBSET Bank, sum : Content, sum_seen : BOOLEAN]

\* A transfer does one of them, and what it sends reaches the core or not.
LEMMA PullOf ==
  ASSUME MountTypes, NEW f, Transfer(f)
  PROVE  /\ Pulls /\ core' \in {core, CoreTakes(f)}
         /\ faults' \in Nat /\ faults' <= MaxFaults /\ (faults' = 0 => faults = 0)
<1>1. PICK pulled \in BOOLEAN, down_lost \in BOOLEAN, up_lost \in BOOLEAN :
        /\ pulled => up # <<>>
        /\ up_lost => pulled
        /\ faults' = faults + (IF down_lost THEN 1 ELSE 0) + (IF up_lost THEN 1 ELSE 0)
        /\ faults' <= MaxFaults
        /\ core' = IF down_lost THEN core ELSE CoreTakes(f)
        /\ IF pulled THEN up' = Tail(up) ELSE UNCHANGED up
        /\ IF pulled /\ ~up_lost THEN Handle(Head(up)) ELSE UNCHANGED <<mount, req, wr>>
  BY DEF Transfer
<1>2. faults \in Nat
  BY DEF MountTypes
<1>3. faults' \in Nat /\ (faults' = 0 => faults = 0) /\ (up_lost => faults' # 0)
  BY <1>1, <1>2
<1>4. core' \in {core, CoreTakes(f)}
  BY <1>1
<1>5. CASE ~pulled
  <2>1. UNCHANGED <<up, req, wr>>
    BY <1>1, <1>5
  <2> QED
    BY <1>1, <1>3, <1>4, <2>1 DEF Pulls
<1>6. CASE pulled /\ up_lost
  <2>1. up # <<>> /\ up' = Tail(up) /\ UNCHANGED <<req, wr>> /\ faults' # 0
    BY <1>1, <1>3, <1>6
  <2> QED
    BY <1>1, <1>3, <1>4, <2>1 DEF Pulls
<1>7. CASE pulled /\ ~up_lost
  <2>1. up # <<>> /\ up' = Tail(up) /\ Handle(Head(up))
    BY <1>1, <1>7
  <2> QED
    BY <1>1, <1>3, <1>4, <2>1 DEF Pulls
<1> QED
  BY <1>5, <1>6, <1>7

\* The four handlers, by the frame.
LEMMA HandleOf ==
  ASSUME NEW f \in UpFrames, Handle(f)
  PROVE  \/ f.cmd = "LBA" /\ f.addr \in Byte /\ f.data \in Byte /\ on_img_lba(f.addr, f.data)
         \/ f.cmd = "SEC" /\ f.data \in Ops /\ on_img_sec(f.data)
         \/ f.cmd = "BANK" /\ f.addr = 0 /\ f.data \in Bank /\ on_img_buf_bank(0, f.data)
         \/ f.cmd = "BANK" /\ f.addr = 16 /\ f.data \in Content /\ on_img_buf_bank(16, f.data)
         \/ f.cmd = "DATA" /\ f.data \in Content /\ on_img_buf_data(f.data)
<1>1. CASE f \in [cmd : {"LBA"}, addr : Byte, data : Byte]
  BY <1>1 DEF Handle
<1>2. CASE f \in [cmd : {"SEC"}, addr : {0}, data : Ops]
  BY <1>2 DEF Handle
<1>3. CASE f \in [cmd : {"BANK"}, addr : {0}, data : Bank]
  BY <1>3 DEF Handle
<1>4. CASE f \in [cmd : {"BANK"}, addr : {16}, data : Content]
  BY <1>4 DEF Handle
<1>5. CASE f \in [cmd : {"DATA"}, addr : {0}, data : Content]
  BY <1>5 DEF Handle
<1> QED
  BY <1>1, <1>2, <1>3, <1>4, <1>5 DEF UpFrames

\* A LBA whose byte is set.
LEMMA LbaSet ==
  ASSUME NEW l \in Lba, NEW a \in Byte, NEW d \in Byte
  PROVE  /\ [l EXCEPT ![a + 1] = d] \in Lba
         /\ [l EXCEPT ![a + 1] = d][a + 1] = d
         /\ \A b \in Byte : b # a => [l EXCEPT ![a + 1] = d][b + 1] = l[b + 1]
BY DEF Lba, Byte

\* The types, whatever is pulled.
LEMMA PullTypes ==
  ASSUME MountTypes, Pulls
  PROVE  req' \in ReqType /\ wr' \in WrType /\ up' \in Seq(UpFrames)
<1>1. req \in ReqType /\ wr \in WrType /\ up \in Seq(UpFrames)
  BY DEF MountTypes, ReqType, WrType
<1>2. CASE up # <<>> /\ up' = Tail(up)
  <2>1. Head(up) \in UpFrames /\ up' \in Seq(UpFrames)
    BY <1>1, <1>2, TailIs
  <2>2. CASE UNCHANGED <<req, wr>>
    BY <1>1, <2>1, <2>2
  <2>3. CASE Handle(Head(up))
    <3>1. ASSUME NEW a \in Byte, NEW d \in Byte, on_img_lba(a, d) PROVE req' \in ReqType /\ wr' \in WrType
      <4>1. [req.lba EXCEPT ![a + 1] = d] \in Lba
        BY <1>1, LbaSet DEF ReqType
      <4>2. (IF a = 0 THEN {0} ELSE req.mask \cup {a}) \in SUBSET Byte
        BY <1>1 DEF ReqType, Byte
      <4>3. (req.started \/ a = 0) \in BOOLEAN
        BY <1>1 DEF ReqType
      <4>4. \A l \in Lba, m \in SUBSET Byte, s \in BOOLEAN :
              [req EXCEPT !.started = s, !.mask = m, !.lba = l] \in ReqType
        BY <1>1 DEF ReqType
      <4>5. req' = [req EXCEPT !.started = req.started \/ a = 0, !.mask = IF a = 0 THEN {0} ELSE req.mask \cup {a},
                               !.lba = [req.lba EXCEPT ![a + 1] = d]]
        BY <1>1, <3>1 DEF on_img_lba, ReqType
      <4> QED
        <5>1. req' \in ReqType
          BY <4>1, <4>2, <4>3, <4>4, <4>5
        <5>2. wr' = wr
          BY <3>1 DEF on_img_lba
        <5> QED
          BY <1>1, <5>1, <5>2
    <3>2. ASSUME NEW op \in Ops, on_img_sec(op) PROVE req' \in ReqType /\ wr' \in WrType
      <4>1. req' \in ReqType
        BY <1>1, <3>2 DEF on_img_sec, ReqType, all_bytes
      <4>2. \A b \in Bank, s \in SUBSET Bank, t \in BOOLEAN :
              [wr EXCEPT !.bank = b, !.seen = s, !.sum_seen = t] \in WrType
        BY <1>1 DEF WrType
      <4>3. 0 \in Bank /\ {} \in SUBSET Bank /\ FALSE \in BOOLEAN
        BY DEF Bank
      <4>4. wr_reset(wr) \in WrType
        BY <4>2, <4>3 DEF wr_reset
      <4> QED
        BY <1>1, <3>2, <4>1, <4>4 DEF on_img_sec
    <3>3. ASSUME NEW b \in Bank, on_img_buf_bank(0, b) PROVE req' \in ReqType /\ wr' \in WrType
      BY <1>1, <3>3 DEF on_img_buf_bank, WrType
    <3>4. ASSUME NEW d \in Content, on_img_buf_bank(16, d) PROVE req' \in ReqType /\ wr' \in WrType
      <4>1. \A t \in BOOLEAN : [wr EXCEPT !.sum = d, !.sum_seen = t] \in WrType
        BY <1>1 DEF WrType
      <4>2. wr' = [wr EXCEPT !.sum = d, !.sum_seen = TRUE] /\ req' = req
        BY <3>4 DEF on_img_buf_bank
      <4> QED
        BY <1>1, <4>1, <4>2
    <3>5. ASSUME NEW d \in Content, on_img_buf_data(d) PROVE req' \in ReqType /\ wr' \in WrType
      BY <1>1, <3>5 DEF on_img_buf_data, WrType
    <3> QED
      BY <2>1, <2>3, <3>1, <3>2, <3>3, <3>4, <3>5, HandleOf
  <2> QED
    BY <1>2, <2>2, <2>3 DEF Pulls
<1>3. CASE UNCHANGED <<up, req, wr>>
  BY <1>1, <1>3
<1> QED
  BY <1>2, <1>3 DEF Pulls

\* What is on its way stays in order.
LEMMA PullWay ==
  ASSUME MountTypes, OfRequest, SecLast, SumLast, Pulls,
         core'.op = core.op, core'.lba = core.lba, core'.data = core.data
  PROVE  /\ OfRequest' /\ SecLast' /\ SumLast'
         /\ OnlyData => OnlyData'
         /\ up = <<>> => up' = <<>>
         /\ \A i \in 1 .. Len(up') : \E k \in 1 .. Len(up) : up'[i] = up[k]
<1>1. up \in Seq(UpFrames)
  BY DEF MountTypes
<1>2. \A g : OfData(g, core') = OfData(g, core) /\ OfLba(g, core') = OfLba(g, core) /\ OfSec(g, core') = OfSec(g, core)
  BY DEF OfData, OfLba, OfSec
<1>3. CASE up' = up
  BY <1>2, <1>3 DEF OfRequest, SecLast, SumLast, OnlyData
<1>4. CASE up # <<>> /\ up' = Tail(up)
  <2>1. Len(up') = Len(up) - 1 /\ Len(up) \in Nat
    BY <1>1, <1>4, TailIs
  <2>2. \A i \in 1 .. Len(up') : i + 1 \in 1 .. Len(up) /\ up'[i] = up[i + 1]
    BY <1>1, <1>4, TailIs
  <2>3. OfRequest'
    BY <1>2, <2>2 DEF OfRequest
  <2>4. SecLast'
    <3> SUFFICES ASSUME NEW i \in 1 .. Len(up'), up'[i].cmd = "SEC", NEW j \in i + 1 .. Len(up')
                 PROVE  OfData(up'[j], core')
      BY DEF SecLast
    <3>1. up[i + 1].cmd = "SEC" /\ i + 1 \in 1 .. Len(up) /\ j \in 1 .. Len(up')
      BY <2>1, <2>2
    <3>2. j + 1 \in (i + 1) + 1 .. Len(up) /\ up'[j] = up[j + 1]
      BY <2>1, <2>2, <3>1
    <3> QED
      BY <1>2, <3>1, <3>2 DEF SecLast
  <2>5. SumLast'
    <3> SUFFICES ASSUME NEW i \in 1 .. Len(up'), IsSum(up'[i]), i # Len(up')
                 PROVE  up'[i + 1].cmd = "LBA"
      BY DEF SumLast
    <3>1. up'[i] = up[i + 1] /\ i + 1 \in 1 .. Len(up) /\ i + 1 # Len(up)
      BY <2>1, <2>2
    <3>2. i + 1 \in 1 .. Len(up')
      BY <2>1
    <3>3. up'[i + 1] = up[(i + 1) + 1]
      BY <2>2, <3>2
    <3> QED
      BY <3>1, <3>3 DEF SumLast
  <2>6. OnlyData => OnlyData'
    BY <1>2, <2>2 DEF OnlyData
  <2> QED
    BY <1>4, <2>2, <2>3, <2>4, <2>5, <2>6
<1> QED
  BY <1>3, <1>4 DEF Pulls

\* While a request is served there is only data of a write to be pulled.
LEMMA PullBusy ==
  ASSUME MountInv, Busy, Pulls
  PROVE  /\ req' = req
         /\ core.op = "READ" => up = <<>> /\ UNCHANGED <<up, wr>>
         /\ core.op = "WRITE" => /\ \A b \in wr'.seen : wr'.buf[b] = core.data
                                 /\ wr'.sum_seen => wr'.sum = core.data /\ up' = <<>>
                                 /\ wr.sum_seen => wr'.sum_seen
<1>1. MountTypes /\ OnlyData /\ OfRequest /\ SumLast /\ up \in Seq(UpFrames) /\ wr \in WrType /\ core.op \in Ops
  BY DEF MountInv, OnTheWay, MountTypes, WrType
<1>2. core.op = "WRITE" => /\ \A b \in wr.seen : wr.buf[b] = core.data
                           /\ wr.sum_seen => wr.sum = core.data /\ up = <<>>
  BY DEF MountInv, WriteRight
<1>3. CASE up = <<>>
  <2>1. UNCHANGED <<up, req, wr>>
    BY <1>3 DEF Pulls
  <2> QED
    BY <1>2, <1>3, <2>1
<1>4. CASE up # <<>>
  <2>1. Head(up) = up[1] /\ 1 \in 1 .. Len(up) /\ Head(up) \in UpFrames /\ Len(Tail(up)) = Len(up) - 1 /\ Len(up) \in Nat
        /\ Tail(up) \in Seq(UpFrames)
    BY <1>1, <1>4, TailIs
  <2>2. OfData(Head(up), core)
    BY <1>1, <2>1 DEF OnlyData
  <2>3. core.op = "WRITE" /\ Head(up).cmd # "LBA" /\ Head(up).cmd # "SEC" /\ core.op # "READ"
    BY <2>2 DEF OfData
  <2>4. ~wr.sum_seen
    BY <1>2, <1>4, <2>3
  <2>5. CASE UNCHANGED <<req, wr>>
    BY <1>2, <2>3, <2>4, <2>5
  <2>6. CASE up' = Tail(up) /\ Handle(Head(up))
    <3>1. CASE Head(up).cmd = "BANK" /\ Head(up).addr = 0 /\ Head(up).data \in Bank /\ on_img_buf_bank(0, Head(up).data)
      <4>1. req' = req /\ wr' = [wr EXCEPT !.bank = Head(up).data]
        BY <3>1 DEF on_img_buf_bank
      <4>2. wr'.seen = wr.seen /\ wr'.buf = wr.buf /\ wr'.sum_seen = wr.sum_seen
        BY <1>1, <4>1 DEF WrType
      <4> QED
        BY <1>2, <2>3, <2>4, <4>1, <4>2
    <3>2. CASE Head(up).cmd = "BANK" /\ Head(up).addr = 16 /\ Head(up).data \in Content
               /\ on_img_buf_bank(16, Head(up).data)
      <4>1. req' = req /\ wr' = [wr EXCEPT !.sum = Head(up).data, !.sum_seen = TRUE]
        BY <3>2 DEF on_img_buf_bank
      <4>2. wr'.seen = wr.seen /\ wr'.buf = wr.buf /\ wr'.sum = Head(up).data
        BY <1>1, <4>1 DEF WrType
      <4>3. Head(up).data = core.data
        BY <2>2, <3>2 DEF OfData
      <4>4. IsSum(up[1])
        BY <2>1, <3>2 DEF IsSum
      <4>5. 1 = Len(up)
        <5>1. 1 = Len(up) \/ up[1 + 1].cmd = "LBA"
          BY <1>1, <2>1, <4>4 DEF SumLast
        <5>2. ASSUME 1 # Len(up) PROVE up[1 + 1].cmd # "LBA"
          <6>1. 2 \in 1 .. Len(up) /\ 1 + 1 = 2
            BY <2>1, <5>2
          <6> QED
            BY <1>1, <6>1 DEF OnlyData, OfData
        <5> QED
          BY <5>1, <5>2
      <4>6. up' = <<>>
        <5>1. Len(Tail(up)) = 0
          <6>1. Len(Tail(up)) = Len(up) - 1 /\ Len(up) \in Nat
            BY <2>1
          <6>2. Len(up) = 1
            BY <4>5
          <6> QED
            BY <6>1, <6>2
        <5> QED
          BY <2>1, <2>6, <5>1, EmptySeq
      <4>7. wr'.sum_seen
        BY <1>1, <4>1 DEF WrType
      <4> QED
        BY <1>2, <2>3, <4>1, <4>2, <4>3, <4>6, <4>7
    <3>3. CASE Head(up).cmd = "DATA" /\ Head(up).data \in Content /\ on_img_buf_data(Head(up).data)
      <4>1. req' = req /\ wr' = [wr EXCEPT !.buf[wr.bank] = Head(up).data, !.seen = wr.seen \cup {wr.bank}]
        BY <1>1, <3>3 DEF on_img_buf_data, WrType
      <4>2. /\ wr'.seen = wr.seen \cup {wr.bank} /\ wr'.buf = [wr.buf EXCEPT ![wr.bank] = Head(up).data]
            /\ wr'.sum_seen = wr.sum_seen
        BY <1>1, <4>1 DEF WrType
      <4>3. Head(up).data = core.data
        BY <2>2, <3>3 DEF OfData
      <4>4. \A b \in wr'.seen : wr'.buf[b] = core.data
        BY <1>1, <1>2, <2>3, <4>2, <4>3 DEF WrType
      <4> QED
        BY <2>3, <2>4, <4>1, <4>2, <4>4
    <3> QED
      BY <2>1, <2>3, <2>6, <3>1, <3>2, <3>3, HandleOf
  <2> QED
    BY <1>4, <2>5, <2>6 DEF Pulls
<1> QED
  BY <1>3, <1>4

\* A new request: the bytes of its LBA, up to the operation that makes it whole.
LEMMA PullIdle ==
  ASSUME MountInv, ~Busy, Pulls, core'.lba = core.lba
  PROVE  /\ cuts = 0 => Goods'
         /\ faults = 0 /\ faults' = 0 => \A i \in 1 .. Len(up') : up'[i].cmd = "SEC" => Goods' \/ FirstOne(i)'
         /\ req'.pending =>
              /\ up # <<>> /\ up[1].cmd = "SEC" /\ up' = Tail(up)
              /\ req'.mask = {} /\ req'.op = core.op
              /\ CutOrLost /\ req'.complete => req'.lba = core.lba
              /\ core.op = "WRITE" => wr'.seen = {} /\ ~wr'.sum_seen
<1>1. /\ up \in Seq(UpFrames) /\ req \in ReqType /\ wr \in WrType /\ core.op \in Ops /\ core.lba \in Lba
      /\ ~req.pending /\ OfRequest
  BY DEF MountInv, MountTypes, OnTheWay, ReqType, WrType, Busy
<1>2. cuts = 0 => Goods
  BY DEF MountInv, LbaRight
<1>3. faults = 0 => \A i \in 1 .. Len(up) : up[i].cmd = "SEC" => Goods \/ FirstOne(i)
  BY DEF MountInv, LbaRight
<1>4. CASE UNCHANGED <<up, req, wr>>
  BY <1>1, <1>2, <1>3, <1>4 DEF Goods, FirstOne
<1>5. CASE up # <<>> /\ up' = Tail(up) /\ UNCHANGED <<req, wr>> /\ faults' # 0
  BY <1>1, <1>2, <1>5 DEF Goods
<1>6. CASE up # <<>> /\ up' = Tail(up) /\ Handle(Head(up))
  <2>1. Head(up) = up[1] /\ 1 \in 1 .. Len(up) /\ Head(up) \in UpFrames /\ Len(Tail(up)) = Len(up) - 1 /\ Len(up) \in Nat
        /\ \A i \in 1 .. Len(Tail(up)) : i + 1 \in 1 .. Len(up) /\ Tail(up)[i] = up[i + 1]
    BY <1>1, <1>6, TailIs
  <2>2. OfData(up[1], core) \/ OfLba(up[1], core) \/ OfSec(up[1], core)
    BY <1>1, <2>1 DEF OfRequest
  \* What was good stays good, if the frame says nothing else; a first frame of the
  \* LBA makes it good.
  <2>3. ASSUME Goods => Goods', up[1].cmd = "LBA" /\ up[1].addr = 0 => Goods', faults = 0,
               NEW i \in 1 .. Len(up'), up'[i].cmd = "SEC"
        PROVE  Goods' \/ FirstOne(i)'
    <3>1. i + 1 \in 1 .. Len(up) /\ up[i + 1].cmd = "SEC"
      BY <1>6, <2>1, <2>3
    <3>2. Goods \/ FirstOne(i + 1)
      BY <1>3, <2>3, <3>1
    <3>3. CASE FirstOne(i + 1)
      <4>1. PICK j \in 1 .. (i + 1) - 1 : up[j].cmd = "LBA" /\ up[j].addr = 0
        BY <3>3 DEF FirstOne
      <4>2. CASE j = 1
        BY <2>3, <4>1, <4>2
      <4>3. CASE j # 1
        <5>1. j - 1 \in 1 .. Len(Tail(up)) /\ j - 1 \in 1 .. i - 1 /\ (j - 1) + 1 = j
          BY <1>6, <2>1, <4>1, <4>3
        <5>2. up'[j - 1] = up[j]
          BY <1>6, <2>1, <5>1
        <5> QED
          BY <4>1, <5>1, <5>2 DEF FirstOne
      <4> QED
        BY <4>2, <4>3
    <3> QED
      BY <2>3, <3>2, <3>3
  <2>4. CASE Head(up).cmd = "LBA" /\ Head(up).addr \in Byte /\ Head(up).data \in Byte
             /\ on_img_lba(Head(up).addr, Head(up).data)
    <3> DEFINE a == Head(up).addr
               d == Head(up).data
    <3>1. /\ req'.mask = IF a = 0 THEN {0} ELSE req.mask \cup {a}
          /\ req'.lba = [req.lba EXCEPT ![a + 1] = d]
          /\ req'.pending = req.pending
      BY <1>1, <2>4 DEF on_img_lba, ReqType
    <3>2. d = core.lba[a + 1] /\ a \in Byte /\ d \in Byte /\ req.lba \in Lba /\ req.mask \subseteq Byte
      BY <1>1, <2>1, <2>2, <2>4 DEF OfLba, OfData, OfSec, ReqType
    <3> HIDE DEF a, d
    <3>3. req'.lba[a + 1] = core.lba[a + 1] /\ \A b \in Byte : b # a => req'.lba[b + 1] = req.lba[b + 1]
      BY <3>1, <3>2, LbaSet
    <3>4. Goods => Goods'
      BY <3>1, <3>2, <3>3 DEF Goods, Byte
    <3>5. a = 0 => Goods'
      BY <3>1, <3>3 DEF Goods
    <3>6. up[1].addr = a
      BY <2>1 DEF a
    <3>7. ~req'.pending
      BY <1>1, <3>1
    <3> QED
      BY <1>2, <2>3, <3>4, <3>5, <3>6, <3>7
  <2>5. CASE Head(up).cmd = "SEC" /\ Head(up).data \in Ops /\ on_img_sec(Head(up).data)
    <3>1. req' = [req EXCEPT !.op = Head(up).data, !.complete = req.mask = Byte, !.mask = {}, !.pending = TRUE,
                             !.started = FALSE]
      BY <1>1, <2>5 DEF on_img_sec, all_bytes, ReqType
    <3>2. req'.mask = {} /\ req'.op = Head(up).data /\ req'.lba = req.lba /\ (req'.complete = (req.mask = Byte))
      BY <1>1, <3>1 DEF ReqType
    <3>3. Head(up).data = core.op /\ up[1].cmd = "SEC"
      BY <2>1, <2>2, <2>5 DEF OfData, OfLba, OfSec
    <3>4. Goods'
      BY <3>2 DEF Goods
    <3>5. CutOrLost => Goods
      <4>1. ~FirstOne(1)
        BY DEF FirstOne
      <4>2. faults = 0 => Goods
        BY <1>3, <2>1, <3>3, <4>1
      <4> QED
        BY <1>2, <4>2 DEF CutOrLost
    <3>6. req.mask = Byte /\ Goods => req.lba = core.lba
      BY <1>1 DEF Goods, ReqType, Lba, Byte
    <3>7. core.op = "WRITE" => wr'.seen = {} /\ ~wr'.sum_seen
      <4>1. core.op = "WRITE" => wr' = wr_reset(wr)
        BY <2>5, <3>3 DEF on_img_sec
      <4> QED
        BY <1>1, <4>1 DEF wr_reset, WrType
    <3> QED
      BY <1>6, <3>2, <3>3, <3>4, <3>5, <3>6, <3>7
  <2>6. CASE req' = req /\ Head(up).cmd # "LBA"
    <3>1. Goods => Goods'
      BY <2>6 DEF Goods
    <3> QED
      BY <1>1, <1>2, <2>1, <2>3, <2>6, <3>1
  <2>7. CASE Head(up).cmd = "BANK" /\ Head(up).addr = 0 /\ Head(up).data \in Bank /\ on_img_buf_bank(0, Head(up).data)
    BY <2>6, <2>7 DEF on_img_buf_bank
  <2>8. CASE Head(up).cmd = "BANK" /\ Head(up).addr = 16 /\ Head(up).data \in Content
             /\ on_img_buf_bank(16, Head(up).data)
    BY <2>6, <2>8 DEF on_img_buf_bank
  <2>9. CASE Head(up).cmd = "DATA" /\ Head(up).data \in Content /\ on_img_buf_data(Head(up).data)
    BY <2>6, <2>9 DEF on_img_buf_data
  <2> QED
    BY <1>6, <2>1, <2>4, <2>5, <2>7, <2>8, <2>9, HandleOf
<1> QED
  BY <1>4, <1>5, <1>6 DEF Pulls

-----------------------------------------------------------------------------
(* The start, and the steps of the core.                                   *)

\* What a new request, or a repeated one, starts from.
LEMMA FreshOf ==
  ASSUME NEW c, NEW s, NEW op, NEW lba, NEW data,
         DOMAIN c = {"state", "op", "lba", "data", "bank", "buf", "seen", "sum"}
  PROVE  /\ DOMAIN Fresh(c) = DOMAIN c
         /\ Fresh(c).state = c.state /\ Fresh(c).op = c.op /\ Fresh(c).lba = c.lba /\ Fresh(c).data = c.data
         /\ Fresh(c).seen = {}
BY DEF Fresh

CoreType == [state : {"idle", "wait", "again", "reset"}, op : Ops, lba : Lba, data : Content,
             bank : Bank, buf : [Bank -> Content], seen : SUBSET Bank, sum : Content]

\* The contents, and a buffer that is empty.
LEMMA ContentOf ==
  /\ Blank \in Content /\ Mixed \in Content /\ WriteData \subseteq Content
  /\ \A l \in Lba : Old(l) \in Content
  /\ NoData \in [Bank -> Content] /\ 0 \in Bank /\ {} \in SUBSET Bank
BY DEF Content, NoData, Bank

\* It has the types of the core.
LEMMA FreshType ==
  ASSUME NEW c \in CoreType
  PROVE  Fresh(c) \in CoreType
<1>1. \A b \in Bank, f \in [Bank -> Content], s \in SUBSET Bank, m \in Content :
        [c EXCEPT !.bank = b, !.buf = f, !.seen = s, !.sum = m] \in CoreType
  BY DEF CoreType
<1> QED
  BY <1>1, ContentOf DEF Fresh

\* At the start nothing is on its way and the card holds what it held.
LEMMA MountStarts == ASSUME Init PROVE MountInv
<1>1. MountTypes
  <2>1. mount \in [wp : BOOLEAN, caps : BOOLEAN]
    BY MounterAssumption DEF Init
  <2>2. req \in ReqType
    <3>1. <<0, 0>> \in Lba /\ {} \in SUBSET Byte /\ "READ" \in Ops /\ FALSE \in BOOLEAN
      BY DEF Lba, Byte, Ops
    <3> QED
      BY <3>1 DEF Init, ReqType
  <2>3. wr \in WrType
    <3>1. FALSE \in BOOLEAN
      OBVIOUS
    <3> QED
      BY <3>1, ContentOf DEF Init, WrType
  <2>4. serve \in [pc : Pcs, op : Ops, lba : Lba, next : Bank, res : Answers]
    <3>1. <<0, 0>> \in Lba /\ "rest" \in Pcs /\ "READ" \in Ops /\ 0 \in Bank /\ "DONE" \in Answers
      BY DEF Lba, Byte, Ops, Pcs, Bank, Answers
    <3> QED
      BY <3>1 DEF Init, Resting
  <2>5. disk \in [Lba -> Content] /\ dirty \in BOOLEAN
    BY ContentOf DEF Init
  <2>6. core \in CoreType
    <3>1. <<0, 0>> \in Lba /\ "READ" \in Ops /\ "idle" \in {"idle", "wait", "again", "reset"}
      BY DEF Lba, Byte, Ops
    <3> QED
      BY <3>1, ContentOf DEF Init, CoreType
  <2>7. up \in Seq(UpFrames) /\ faults \in Nat /\ faults <= MaxFaults /\ cuts \in Nat
    BY MounterAssumption DEF Init
  <2> QED
    BY <2>1, <2>2, <2>3, <2>4, <2>5, <2>6, <2>7 DEF MountTypes, ReqType, WrType, CoreType
<1>2. serve.pc = "rest" /\ ~req.pending /\ core.state = "idle" /\ up = <<>> /\ req.mask = {} /\ cuts = 0
  BY DEF Init, Resting
<1>3. \A i \in 1 .. Len(up) : FALSE
  BY <1>2
<1>4. OnTheWay
  BY <1>2, <1>3 DEF OnTheWay, OfRequest, SecLast, SumLast, Busy
<1>5. LbaRight
  BY <1>2, <1>3 DEF LbaRight, Busy, Goods
<1>6. WriteRight /\ ServeRight
  BY <1>2 DEF WriteRight, ServeRight, Busy, Sends
<1> QED
  BY <1>1, <1>4, <1>5, <1>6 DEF MountInv

\* A request that is made or repeated when nothing is served and only data is on its
\* way.
LEMMA AskedAgain ==
  ASSUME MountInv, ~Busy, NEW c \in CoreType, core' = c, c.state = "wait", c.seen = {},
         \A i \in 1 .. Len(up) : OfData(up[i], c),
         up' = up \o RequestFrames(c.op, c.lba, c.data),
         c.lba \in Asked /\ c.data \in WriteData \cup {Blank},
         c.lba = core.lba \/ (core.state = "idle"),
         UNCHANGED <<mount, req, wr, serve, disk, dirty, faults, cuts>>
  PROVE  MountInv'
<1>1. up \in Seq(UpFrames) /\ SumLast /\ c.op \in Ops /\ c.lba \in Lba /\ c.data \in Content
  BY DEF MountInv, MountTypes, OnTheWay, CoreType
<1>2. /\ up' \in Seq(UpFrames)
      /\ OfRequest' /\ SecLast' /\ SumLast'
      /\ \A i \in 1 .. Len(up') : up'[i].cmd = "SEC" => FirstOne(i)'
  BY <1>1, RequestMade
<1>3. ~Busy' /\ ~req'.pending /\ serve'.pc = "rest"
  BY DEF Busy
<1>4. MountTypes'
  BY <1>2 DEF MountInv, MountTypes, CoreType
<1>5. OnTheWay'
  BY <1>2, <1>3 DEF OnTheWay
<1>6. LbaRight'
  <2>1. cuts' = 0 => Goods'
    BY DEF MountInv, LbaRight, Goods
  <2> QED
    BY <1>2, <1>3, <2>1 DEF LbaRight
<1>7. WriteRight' /\ ServeRight'
  BY <1>3 DEF WriteRight, ServeRight, Sends
<1> QED
  BY <1>4, <1>5, <1>6, <1>7 DEF MountInv

\* A new request.
LEMMA RequestKept == ASSUME MountInv, CoreRequest PROVE MountInv'
<1>1. PICK op \in {"READ", "WRITE"}, lba \in Asked, data \in WriteData :
        /\ core' = Fresh([core EXCEPT !.state = "wait", !.op = op, !.lba = lba,
                            !.data = IF op = "WRITE" THEN data ELSE Blank])
        /\ up' = up \o RequestFrames(op, lba, data)
  BY DEF CoreRequest
<1> DEFINE d == IF op = "WRITE" THEN data ELSE Blank
           b == [core EXCEPT !.state = "wait", !.op = op, !.lba = lba, !.data = d]
           c == Fresh(b)
<1>2. core \in CoreType /\ core.state = "idle" /\ up = <<>> /\ ~Busy
  BY DEF MountInv, MountTypes, OnTheWay, CoreType, CoreRequest
<1>3. d \in Content /\ d \in WriteData \cup {Blank} /\ op \in Ops /\ lba \in Lba
  BY ContentOf, MounterAssumption DEF Ops
<1>4. b \in CoreType /\ b.state = "wait" /\ b.op = op /\ b.lba = lba /\ b.data = d
  BY <1>2, <1>3 DEF CoreType
<1>5. c \in CoreType
  BY <1>4, FreshType
<1>6. c.state = "wait" /\ c.op = op /\ c.lba = lba /\ c.data = d /\ c.seen = {}
  BY <1>4, FreshOf, ZenonT(60) DEF CoreType
<1>7. RequestFrames(op, lba, data) = RequestFrames(c.op, c.lba, c.data)
  BY <1>6 DEF RequestFrames
<1>8. core' = c /\ up' = up \o RequestFrames(c.op, c.lba, c.data)
  BY <1>1, <1>7
<1>9. \A i \in 1 .. Len(up) : OfData(up[i], c)
  BY <1>2
<1>10. UNCHANGED <<mount, req, wr, serve, disk, dirty, faults, cuts>>
  BY DEF CoreRequest
<1> HIDE DEF c
<1> QED
  BY <1>2, <1>3, <1>5, <1>6, <1>8, <1>9, <1>10, AskedAgain

\* The same request again, because no answer came or an error.
LEMMA TimeoutKept == ASSUME MountInv, CoreTimeout, Prompt = TRUE PROVE MountInv'
<1> DEFINE c == Fresh(core)
<1>1. core \in CoreType /\ core.state = "wait" /\ up = <<>> /\ ~Busy
  BY DEF MountInv, MountTypes, CoreType, CoreTimeout, Quiet, Serving, Busy
<1>2. c \in CoreType
  BY <1>1, FreshType
<1>3. c.state = "wait" /\ c.op = core.op /\ c.lba = core.lba /\ c.data = core.data /\ c.seen = {}
  BY <1>1, FreshOf DEF CoreType
<1>4. core' = c /\ up' = up \o RequestFrames(c.op, c.lba, c.data)
  BY <1>3 DEF CoreTimeout
<1>5. \A i \in 1 .. Len(up) : OfData(up[i], c)
  BY <1>1
<1>6. UNCHANGED <<mount, req, wr, serve, disk, dirty, faults, cuts>>
  BY DEF CoreTimeout
<1>7. c.lba \in Asked /\ c.data \in WriteData \cup {Blank}
  BY <1>1, <1>3 DEF MountInv, OnTheWay
<1> HIDE DEF c
<1> QED
  BY <1>1, <1>2, <1>3, <1>4, <1>5, <1>6, <1>7, AskedAgain

\* It was answered with an error, or the sector is not whole.
LEMMA RepeatKept == ASSUME MountInv, CoreRepeat PROVE MountInv'
<1> DEFINE b == [core EXCEPT !.state = "wait"]
           c == Fresh(b)
<1>1. core \in CoreType /\ core.state = "again" /\ OnlyData
  BY DEF MountInv, MountTypes, CoreType, CoreRepeat, OnTheWay
<1>2. ~Busy
  BY <1>1 DEF MountInv, OnTheWay
<1>3. b \in CoreType /\ b.state = "wait" /\ b.op = core.op /\ b.lba = core.lba /\ b.data = core.data
  BY <1>1 DEF CoreType
<1>4. c \in CoreType
  BY <1>3, FreshType
<1>5. c.state = "wait" /\ c.op = core.op /\ c.lba = core.lba /\ c.data = core.data /\ c.seen = {}
  BY <1>3, FreshOf DEF CoreType
<1>6. core' = c /\ up' = up \o RequestFrames(c.op, c.lba, c.data)
  BY <1>5 DEF CoreRepeat
<1>7. \A i \in 1 .. Len(up) : OfData(up[i], c)
  BY <1>1, <1>5 DEF OnlyData, OfData
<1>8. UNCHANGED <<mount, req, wr, serve, disk, dirty, faults, cuts>>
  BY DEF CoreRepeat
<1>9. c.lba \in Asked /\ c.data \in WriteData \cup {Blank}
  BY <1>1, <1>5 DEF MountInv, OnTheWay
<1> HIDE DEF c
<1> QED
  BY <1>2, <1>4, <1>5, <1>6, <1>7, <1>8, <1>9, AskedAgain

\* A reset of the machine: a part of what is on its way does not come.
LEMMA ResetKept == ASSUME MountInv, CoreReset PROVE MountInv'
<1>1. PICK n \in 0 .. Len(up) : up' = SubSeq(up, 1, n)
  BY DEF CoreReset
<1>2. /\ core \in CoreType /\ core.state = "wait" /\ up \in Seq(UpFrames) /\ cuts \in Nat
      /\ core' = [core EXCEPT !.state = "reset"] /\ cuts' = cuts + 1
      /\ UNCHANGED <<mount, req, wr, serve, dirty, disk, faults>>
  BY DEF MountInv, MountTypes, CoreType, CoreReset
<1>3. /\ core' \in CoreType /\ core'.state = "reset" /\ core'.op = core.op /\ core'.lba = core.lba
      /\ core'.data = core.data /\ cuts' \in Nat /\ cuts' # 0
  BY <1>2 DEF CoreType
<1>4. /\ up' \in Seq(UpFrames) /\ Len(up') = n /\ Len(up) \in Nat
      /\ \A i \in 1 .. n : i \in 1 .. Len(up) /\ up'[i] = up[i]
  BY <1>1, <1>2, FirstsAre
<1>5. \A g : OfData(g, core') = OfData(g, core) /\ OfLba(g, core') = OfLba(g, core) /\ OfSec(g, core') = OfSec(g, core)
  BY <1>3 DEF OfData, OfLba, OfSec
<1>6. up = <<>> => up' = <<>>
  <2>1. up = <<>> => n = 0
    OBVIOUS
  <2> QED
    BY <1>4, <2>1, EmptySeq
<1>7. MountTypes'
  BY <1>2, <1>3, <1>4 DEF MountInv, MountTypes, CoreType
<1>8. OfRequest'
  BY <1>4, <1>5 DEF MountInv, OnTheWay, OfRequest
<1>9. SecLast'
  <2> SUFFICES ASSUME NEW i \in 1 .. Len(up'), up'[i].cmd = "SEC", NEW j \in i + 1 .. Len(up')
               PROVE  OfData(up'[j], core')
    BY DEF SecLast
  <2>1. i \in 1 .. n /\ j \in 1 .. n /\ j \in i + 1 .. Len(up)
    BY <1>4
  <2> QED
    BY <1>4, <1>5, <2>1 DEF MountInv, OnTheWay, SecLast
<1>10. SumLast'
  <2> SUFFICES ASSUME NEW i \in 1 .. Len(up'), IsSum(up'[i]), i # Len(up')
               PROVE  up'[i + 1].cmd = "LBA"
    BY DEF SumLast
  <2>1. i \in 1 .. n /\ i + 1 \in 1 .. n /\ i # Len(up)
    BY <1>4
  <2> QED
    BY <1>4, <2>1 DEF MountInv, OnTheWay, SumLast
<1>11. Busy' = Busy /\ (OnlyData => OnlyData')
  BY <1>2, <1>4, <1>5 DEF Busy, OnlyData
<1>12. OnTheWay'
  BY <1>2, <1>3, <1>8, <1>9, <1>10, <1>11 DEF MountInv, OnTheWay
<1>13. LbaRight'
  <2>1. ASSUME faults = 0, NEW i \in 1 .. Len(up'), up'[i].cmd = "SEC" PROVE Goods' \/ FirstOne(i)'
    <3>1. i \in 1 .. Len(up) /\ up[i].cmd = "SEC" /\ i \in 1 .. n
      BY <1>4, <2>1
    <3>2. Goods \/ FirstOne(i)
      BY <2>1, <3>1 DEF MountInv, LbaRight
    <3>3. Goods => Goods'
      BY <1>2, <1>3 DEF Goods
    <3>4. FirstOne(i) => FirstOne(i)'
      <4>1. \A j \in 1 .. i - 1 : j \in 1 .. n
        BY <1>4, <3>1
      <4> QED
        BY <1>4, <4>1 DEF FirstOne
    <3> QED
      BY <3>2, <3>3, <3>4
  <2>2. CutOrLost' => CutOrLost
    BY <1>2, <1>3 DEF CutOrLost
  <2> QED
    BY <1>2, <1>3, <1>11, <2>1, <2>2 DEF MountInv, LbaRight
<1>14. WriteRight'
  BY <1>2, <1>3, <1>6, <1>11 DEF MountInv, WriteRight
<1>15. ServeRight'
  BY <1>2, <1>3 DEF MountInv, ServeRight, Sends
<1> QED
  BY <1>7, <1>12, <1>13, <1>14, <1>15 DEF MountInv

\* The machine asks for sectors again.
LEMMA BootKept == ASSUME MountInv, CoreBoot, Prompt = TRUE PROVE MountInv'
<1>1. /\ core \in CoreType /\ core.state = "reset" /\ up = <<>> /\ ~Busy /\ core' = [core EXCEPT !.state = "idle"]
      /\ UNCHANGED <<mount, req, wr, serve, dirty, disk, up, faults, cuts>>
  BY DEF MountInv, MountTypes, CoreType, CoreBoot, Quiet, Serving, Busy
<1>2. core' \in CoreType /\ core'.state = "idle" /\ core'.lba = core.lba
  BY <1>1 DEF CoreType
<1>3. ~Busy' /\ cuts # 0
  BY <1>1 DEF Busy, MountInv, OnTheWay
<1>4. \A i \in 1 .. Len(up) : FALSE
  BY <1>1
<1>5. MountTypes'
  BY <1>1, <1>2 DEF MountInv, MountTypes, CoreType
<1>6. OnTheWay'
  BY <1>1, <1>2, <1>3, <1>4 DEF OnTheWay, OfRequest, SecLast, SumLast, OnlyData
<1>7. LbaRight'
  BY <1>1, <1>3, <1>4 DEF LbaRight, Busy
<1>8. WriteRight' /\ ServeRight'
  BY <1>1, <1>2, <1>3 DEF WriteRight, ServeRight, Busy, Sends
<1> QED
  BY <1>5, <1>6, <1>7, <1>8 DEF MountInv

-----------------------------------------------------------------------------
(* The steps of the firmware.                                              *)

ServeType == [pc : Pcs, op : Ops, lba : Lba, next : Bank, res : Answers]

\* The parts of the invariant that a transfer disturbs, while a request is served: the
\* core may move on when the answer comes.
LEMMA BusyWay ==
  ASSUME MountInv, serve.pc # "rest", Pulls, core'.op = core.op, core'.lba = core.lba, core'.data = core.data,
         faults' \in Nat, faults' = 0 => faults = 0, cuts' = cuts,
         core'.state = core.state \/ (core'.state \in {"again", "idle"} /\ serve'.pc = "rest"),
         core'.state = "idle" => up = <<>>,
         serve'.pc = "rest" \/ serve'.lba = serve.lba,
         serve'.pc # "rest" /\ (serve'.pc = "answer" => serve'.res # "ERROR")
           => (serve.pc = "answer" => serve.res # "ERROR")
  PROVE  OnTheWay' /\ LbaRight' /\ WriteRight'
<1>1. Busy /\ MountTypes /\ OfRequest /\ SecLast /\ SumLast /\ OnlyData /\ core.state \in {"wait", "reset"}
      /\ core.lba \in Asked /\ core.data \in WriteData \cup {Blank}
      /\ (core.state = "reset" => cuts # 0) /\ req.mask = {} /\ ~req.pending
  BY DEF Busy, MountInv, OnTheWay, LbaRight, ServeRight
<1>2. OfRequest' /\ SecLast' /\ SumLast' /\ OnlyData' /\ (up = <<>> => up' = <<>>)
  BY <1>1, PullWay
<1>3. req' = req
  BY <1>1, PullBusy
<1>4. OnTheWay'
  BY <1>1, <1>2, <1>3 DEF OnTheWay, Busy
<1>5. Goods'
  BY <1>1, <1>3 DEF Goods
<1>6. CutOrLost' => CutOrLost
  BY DEF CutOrLost
<1>7. CutOrLost => ((serve.pc = "answer" => serve.res # "ERROR") => serve.lba = core.lba)
  BY DEF MountInv, LbaRight
<1>8. LbaRight'
  BY <1>1, <1>3, <1>5, <1>6, <1>7 DEF LbaRight, Busy
<1>9. WriteRight'
  <2>1. core.op = "WRITE" => /\ \A b \in wr'.seen : wr'.buf[b] = core.data
                             /\ wr'.sum_seen => wr'.sum = core.data /\ up' = <<>>
    BY <1>1, PullBusy
  <2> QED
    BY <2>1 DEF WriteRight
<1> QED
  BY <1>4, <1>8, <1>9

\* Any other frame while no request is served.
LEMMA PollKept == ASSUME MountInv, Poll PROVE MountInv'
<1>1. serve.pc = "rest" /\ up # <<>> /\ Transfer(Nop) /\ UNCHANGED <<mount, serve, dirty, disk, cuts>> /\ MountTypes
  BY DEF Poll, Serving, MountInv
<1>2. CoreTakes(Nop) = core
  BY DEF CoreTakes, Nop, Frame
<1>3. Pulls /\ core' = core /\ faults' \in Nat /\ faults' <= MaxFaults /\ (faults' = 0 => faults = 0)
  BY <1>1, <1>2, PullOf
<1>4. req' \in ReqType /\ wr' \in WrType /\ up' \in Seq(UpFrames)
  BY <1>1, <1>3, PullTypes
<1>5. MountTypes'
  BY <1>1, <1>3, <1>4 DEF MountTypes, ReqType, WrType
<1>6. OfRequest /\ SecLast /\ SumLast /\ core.state # "idle" /\ (core.state = "reset" => cuts # 0)
      /\ core.lba \in Asked /\ core.data \in WriteData \cup {Blank}
      /\ (core.state = "again" => OnlyData)
  BY <1>1 DEF MountInv, OnTheWay
<1>7. /\ OfRequest' /\ SecLast' /\ SumLast' /\ (OnlyData => OnlyData')
      /\ \A i \in 1 .. Len(up') : \E k \in 1 .. Len(up) : up'[i] = up[k]
  BY <1>1, <1>3, <1>6, PullWay
<1>8. CutOrLost' => CutOrLost
  BY <1>1, <1>3 DEF CutOrLost
<1>9. CASE req.pending
  <2>1. Busy /\ OnlyData /\ core.state \in {"wait", "reset"} /\ req.mask = {}
    BY <1>9 DEF Busy, MountInv, OnTheWay, LbaRight
  <2>2. /\ req' = req
        /\ core.op = "READ" => up = <<>> /\ UNCHANGED <<up, wr>>
        /\ core.op = "WRITE" => /\ \A b \in wr'.seen : wr'.buf[b] = core.data
                                /\ wr'.sum_seen => wr'.sum = core.data /\ up' = <<>>
    BY <1>3, <2>1, PullBusy
  <2>3. OnTheWay'
    BY <1>1, <1>3, <1>6, <1>7, <2>1 DEF OnTheWay
  <2>4. Goods'
    BY <2>1, <2>2 DEF Goods
  <2>5. LbaRight'
    BY <1>1, <1>3, <1>6, <1>8, <2>1, <2>2, <2>4 DEF LbaRight, MountInv, Busy
  <2>6. WriteRight'
    BY <1>3, <2>2 DEF WriteRight
  <2>7. ServeRight'
    <3>1. core.state = "wait" /\ core.op = "READ" => core.seen = {}
      BY <1>9 DEF MountInv, ServeRight
    <3> QED
      BY <1>1, <1>3, <2>2, <3>1 DEF ServeRight, Sends, MountInv
  <2> QED
    BY <1>5, <2>3, <2>5, <2>6, <2>7 DEF MountInv
<1>10. CASE ~req.pending
  <2>1. ~Busy
    BY <1>1, <1>10 DEF Busy
  <2>2. /\ cuts = 0 => Goods'
        /\ faults = 0 /\ faults' = 0 => \A i \in 1 .. Len(up') : up'[i].cmd = "SEC" => Goods' \/ FirstOne(i)'
        /\ req'.pending =>
             /\ up # <<>> /\ up[1].cmd = "SEC" /\ up' = Tail(up)
             /\ req'.mask = {} /\ req'.op = core.op
             /\ CutOrLost /\ req'.complete => req'.lba = core.lba
             /\ core.op = "WRITE" => wr'.seen = {} /\ ~wr'.sum_seen
    BY <1>3, <2>1, PullIdle
  <2>3. 1 \in 1 .. Len(up) /\ \A i \in 1 .. Len(Tail(up)) : i + 1 \in 1 .. Len(up) /\ Tail(up)[i] = up[i + 1]
    <3>1. up \in Seq(UpFrames)
      BY DEF MountInv, MountTypes
    <3> QED
      BY <1>1, <3>1, TailIs
  <2>4. req'.pending => OnlyData'
    <3> SUFFICES ASSUME req'.pending, NEW i \in 1 .. Len(up') PROVE OfData(up'[i], core')
      BY DEF OnlyData
    <3>1. up'[i] = up[i + 1] /\ i + 1 \in 1 .. Len(up) /\ up[1].cmd = "SEC"
      BY <2>2, <2>3
    <3>2. i + 1 \in 1 + 1 .. Len(up)
      <4>1. i >= 1
        OBVIOUS
      <4> QED
        BY <3>1, <4>1
    <3>3. OfData(up[i + 1], core)
      BY <1>6, <2>3, <3>1, <3>2 DEF SecLast
    <3> QED
      BY <1>3, <3>1, <3>3
  <2>5. req'.pending => core.state # "again"
    <3>1. core.state = "again" => OfData(up[1], core)
      BY <1>6, <2>3 DEF OnlyData
    <3> QED
      BY <2>2, <3>1 DEF OfData
  <2>6. core.state \in {"idle", "wait", "again", "reset"} /\ core.op \in Ops
    BY DEF MountInv, MountTypes
  <2>7. OnTheWay'
    BY <1>1, <1>3, <1>6, <1>7, <2>4, <2>5, <2>6 DEF OnTheWay, Busy
  <2>8. LbaRight'
    BY <1>1, <1>3, <1>6, <1>8, <2>2 DEF LbaRight, Busy
  <2>9. WriteRight'
    BY <1>1, <1>3, <2>2 DEF WriteRight, Busy
  <2>10. ServeRight'
    <3>1. core.state = "wait" /\ core.op = "READ" /\ (\E i \in 1 .. Len(up) : up[i].cmd = "SEC") => core.seen = {}
      BY DEF MountInv, ServeRight
    <3>2. (\E i \in 1 .. Len(up') : up'[i].cmd = "SEC") => \E i \in 1 .. Len(up) : up[i].cmd = "SEC"
      BY <1>7
    <3>3. req'.pending => \E i \in 1 .. Len(up) : up[i].cmd = "SEC"
      BY <2>2, <2>3
    <3> QED
      BY <1>1, <1>3, <2>2, <3>1, <3>2, <3>3 DEF ServeRight, Sends
  <2> QED
    BY <1>5, <2>7, <2>8, <2>9, <2>10 DEF MountInv
<1> QED
  BY <1>9, <1>10

\* A request is taken up.
LEMMA StartKept == ASSUME MountInv, ServeStart PROVE MountInv'
<1>1. /\ serve.pc = "rest" /\ req.pending /\ req \in ReqType
      /\ req' = [req EXCEPT !.pending = FALSE]
      /\ UNCHANGED <<mount, wr, dirty, disk, core, up, faults, cuts>>
  BY DEF ServeStart, Serving, MountInv, MountTypes, ReqType
<1> DEFINE p == IF ~req.complete THEN "answer" ELSE IF req.op = "READ" THEN "read" ELSE "receive"
           s == IF req.complete THEN "DONE" ELSE "ERROR"
<1>2. serve' = [pc |-> p, op |-> req.op, lba |-> req.lba, next |-> 0, res |-> s]
  BY DEF ServeStart, Resting
<1>3. req' \in ReqType /\ ~req'.pending /\ req'.mask = req.mask /\ req'.lba = req.lba
  BY <1>1 DEF ReqType
<1>4. serve' \in ServeType
  <2>1. p \in Pcs /\ s \in Answers /\ 0 \in Bank /\ req.op \in Ops /\ req.lba \in Lba
    BY <1>1 DEF Pcs, Answers, Bank, ReqType
  <2> HIDE DEF p, s
  <2> QED
    BY <1>2, <2>1 DEF ServeType
<1>5. Busy /\ Busy' /\ serve'.pc # "rest" /\ serve'.lba = req.lba /\ serve'.op = req.op
  BY <1>1, <1>2 DEF Busy
<1>6. serve'.pc = p /\ serve'.res = s
  BY <1>2
<1>7. MountTypes'
  BY <1>1, <1>3, <1>4 DEF MountInv, MountTypes, ReqType, ServeType
<1>8. OnTheWay'
  BY <1>1, <1>5 DEF MountInv, OnTheWay, OfRequest, SecLast, SumLast, OnlyData
<1>9. LbaRight'
  <2>1. req.mask = {} /\ (CutOrLost /\ req.complete => req.lba = core.lba)
    BY <1>1, <1>5 DEF MountInv, LbaRight
  <2>2. Goods'
    BY <1>3, <2>1 DEF Goods
  <2>3. serve'.pc = "answer" /\ serve'.res # "ERROR" => req.complete
    BY <1>6
  <2>4. serve'.pc # "answer" => req.complete
    BY <1>6
  <2>5. core.state # "idle"
    BY <1>5 DEF MountInv, OnTheWay
  <2> QED
    BY <1>1, <1>3, <1>5, <2>1, <2>2, <2>3, <2>4, <2>5 DEF LbaRight, CutOrLost
<1>10. WriteRight'
  BY <1>1, <1>5 DEF MountInv, WriteRight
<1>11. ServeRight'
  <2>1. req.op = core.op /\ req.op \in Ops
    BY <1>1 DEF MountInv, ServeRight, ReqType
  <2>2. core.state = "wait" /\ core.op = "READ" => core.seen = {}
    BY <1>1 DEF MountInv, ServeRight
  <2>3. serve'.pc \in {"read", "bank", "data", "sum"} => req.op = "READ" /\ serve'.res # "ERROR"
    BY <1>6
  <2>4. serve'.pc = "receive" => req.op = "WRITE" /\ serve'.res # "ERROR"
    BY <1>6, <2>1 DEF Ops
  <2>5. serve'.pc = "answer" => serve'.res = "ERROR"
    BY <1>6
  <2>6. serve'.pc \notin {"bank", "data", "sum"}
    BY <1>6
  <2> QED
    BY <1>1, <1>3, <1>5, <2>1, <2>2, <2>3, <2>4, <2>5, <2>6 DEF ServeRight, Sends
<1> QED
  BY <1>7, <1>8, <1>9, <1>10, <1>11 DEF MountInv

\* The sector is read into the buffer, or the buffer stays empty.
LEMMA ReadKept == ASSUME MountInv, ServeRead PROVE MountInv'
<1>1. PICK ok \in BOOLEAN :
        /\ faults' = faults + (IF ok THEN 0 ELSE 1) /\ faults' <= MaxFaults
        /\ wr' = [wr EXCEPT !.buf = IF ok THEN [b \in Bank |-> disk[serve.lba]] ELSE NoData]
        /\ serve' = [serve EXCEPT !.pc = "bank", !.next = 0, !.res = result(ok)]
  BY DEF ServeRead
<1>2. /\ serve.pc = "read" /\ serve \in ServeType /\ wr \in WrType /\ disk \in [Lba -> Content] /\ faults \in Nat
      /\ UNCHANGED <<mount, req, dirty, disk, core, up, cuts>>
  BY DEF ServeRead, Serving, MountInv, MountTypes, ServeType, WrType
<1>3. serve' \in ServeType
  <2>1. result(ok) \in Answers /\ "bank" \in Pcs /\ 0 \in Bank
    BY DEF result, Answers, Pcs, Bank
  <2>2. \A p \in Pcs, n \in Bank, r \in Answers : [serve EXCEPT !.pc = p, !.next = n, !.res = r] \in ServeType
    BY <1>2 DEF ServeType
  <2> QED
    BY <1>1, <2>1, <2>2
<1>4. serve'.pc = "bank" /\ serve'.lba = serve.lba /\ serve'.op = serve.op /\ serve'.res = result(ok)
  BY <1>1, <1>2 DEF ServeType
<1>5. wr' \in WrType /\ (ok => \A b \in Bank : wr'.buf[b] = disk[serve.lba])
  <2>1. \A f \in [Bank -> Content] : [wr EXCEPT !.buf = f] \in WrType /\ [wr EXCEPT !.buf = f].buf = f
    BY <1>2 DEF WrType
  <2>2. disk[serve.lba] \in Content
    BY <1>2 DEF ServeType
  <2>3. [b \in Bank |-> disk[serve.lba]] \in [Bank -> Content]
    BY <2>2
  <2>4. CASE ok
    <3> DEFINE g == [b \in Bank |-> disk[serve.lba]]
    <3>1. g \in [Bank -> Content] /\ \A b \in Bank : g[b] = disk[serve.lba]
      BY <2>3
    <3>2. wr' = [wr EXCEPT !.buf = g]
      BY <1>1, <2>4
    <3> HIDE DEF g
    <3>3. wr' \in WrType /\ wr'.buf = g
      BY <2>1, <3>1, <3>2
    <3> QED
      BY <3>1, <3>3
  <2>5. CASE ~ok
    BY <1>1, <2>1, <2>5, ContentOf
  <2> QED
    BY <2>4, <2>5
<1>6. faults' \in Nat /\ (faults' = 0 => faults = 0)
  BY <1>1, <1>2
<1>7. Busy /\ Busy' /\ serve.op = "READ" /\ core.op = "READ" /\ ~req.pending
  BY <1>2, <1>4 DEF Busy, MountInv, ServeRight
<1>8. MountTypes'
  BY <1>1, <1>2, <1>3, <1>5, <1>6 DEF MountInv, MountTypes, ServeType, WrType
<1>9. OnTheWay'
  BY <1>2, <1>7 DEF MountInv, OnTheWay, OfRequest, SecLast, SumLast, OnlyData
<1>10. LbaRight'
  <2>1. CutOrLost' => serve'.lba = core.lba
    BY <1>2, <1>4, <1>6 DEF MountInv, LbaRight, CutOrLost
  <2>2. core.state # "idle" /\ req.mask = {}
    BY <1>7 DEF MountInv, OnTheWay, LbaRight
  <2> QED
    BY <1>2, <1>6, <1>7, <2>1, <2>2 DEF LbaRight, Goods
<1>11. WriteRight'
  BY <1>2, <1>7 DEF WriteRight
<1>12. ServeRight'
  <2>1. serve'.res # "ERROR" => ok
    BY <1>4 DEF result
  <2>2. core.state = "wait" => core.seen = {}
    BY <1>2, <1>7 DEF MountInv, ServeRight
  <2> QED
    BY <1>2, <1>4, <1>5, <1>7, <2>1, <2>2 DEF ServeRight, Sends
<1> QED
  BY <1>8, <1>9, <1>10, <1>11, <1>12 DEF MountInv

\* What a frame of the sector does to the core.
LEMMA CoreGets ==
  ASSUME MountTypes, NEW b \in Bank, NEW d \in Content
  PROVE  /\ CoreTakes(Frame("BANK", 0, b)) = [core EXCEPT !.bank = b]
         /\ CoreTakes(Frame("DATA", 0, d)) = [core EXCEPT !.buf[core.bank] = d, !.seen = @ \cup {core.bank}]
         /\ CoreTakes(Frame("LBA", 0, d)) = [core EXCEPT !.sum = d]
<1>1. CoreTakes(Frame("BANK", 0, b)) = [core EXCEPT !.bank = b]
  BY DEF CoreTakes, Frame
<1>2. CoreTakes(Frame("DATA", 0, d)) = [core EXCEPT !.buf[core.bank] = d, !.seen = @ \cup {core.bank}]
  BY DEF CoreTakes, Frame
<1>3. CoreTakes(Frame("LBA", 0, d)) = [core EXCEPT !.sum = d]
  BY DEF CoreTakes, Frame
<1> QED
  BY <1>1, <1>2, <1>3

\* A frame of the sector that is sent: the core keeps its request, and has the content
\* of the buffer if it takes a byte.
LEMMA SentKept ==
  ASSUME MountInv, serve.pc \in {"bank", "data", "sum"}, Pulls, core' \in CoreType,
         faults' \in Nat, faults' <= MaxFaults, faults' = 0 => faults = 0,
         core'.op = core.op, core'.lba = core.lba, core'.data = core.data, core'.state = core.state,
         \A b \in core'.seen : (b \in core.seen /\ core'.buf[b] = core.buf[b])
                               \/ (\E k \in Bank : core'.buf[b] = wr.buf[k]),
         serve' \in ServeType, serve'.pc \in {"bank", "data", "sum", "answer"},
         serve'.lba = serve.lba, serve'.op = serve.op, serve'.res = serve.res,
         UNCHANGED <<mount, dirty, disk, cuts>>
  PROVE  MountInv'
<1>1. Busy /\ serve.op = "READ" /\ core.op = "READ" /\ ~req.pending /\ MountTypes /\ core.state \in {"wait", "reset"}
  BY DEF Busy, MountInv, ServeRight, OnTheWay
<1>2. req' = req /\ UNCHANGED <<up, wr>> /\ up = <<>>
  BY <1>1, PullBusy
<1>3. MountTypes'
  BY <1>2 DEF MountInv, MountTypes, ServeType, CoreType
<1>4. OnTheWay' /\ LbaRight' /\ WriteRight'
  BY <1>1, BusyWay
<1>5. ServeRight'
  <2>1. \A i \in 1 .. Len(up') : FALSE
    BY <1>2
  <2>2. Sends' => Sends
    BY <1>1 DEF Sends
  <2>3. Sends => /\ \A b \in Bank : wr.buf[b] = disk[serve.lba]
                 /\ core.state = "wait" => \A b \in core.seen : core.buf[b] = disk[serve.lba]
    BY <1>1 DEF MountInv, ServeRight
  <2>4. Sends' /\ core'.state = "wait" => \A b \in core'.seen : core'.buf[b] = disk[serve.lba]
    BY <2>2, <2>3
  <2>5. ~req'.pending /\ serve'.pc # "read" /\ serve'.pc # "receive"
    BY <1>1, <1>2
  <2> QED
    BY <1>1, <1>2, <2>1, <2>2, <2>3, <2>4, <2>5 DEF ServeRight
<1> QED
  BY <1>3, <1>4, <1>5 DEF MountInv

\* The number of the byte.
LEMMA BankKept == ASSUME MountInv, SendBank PROVE MountInv'
<1>1. /\ serve.pc = "bank" /\ Transfer(Frame("BANK", 0, serve.next)) /\ serve' = [serve EXCEPT !.pc = "data"]
      /\ UNCHANGED <<mount, dirty, disk, cuts>> /\ MountTypes /\ serve \in ServeType /\ core \in CoreType
  BY DEF SendBank, Serving, MountInv, MountTypes, ServeType, CoreType
<1>2. serve.next \in Bank
  BY <1>1 DEF ServeType
<1>3. /\ Pulls /\ core' \in {core, [core EXCEPT !.bank = serve.next]}
      /\ faults' \in Nat /\ faults' <= MaxFaults /\ (faults' = 0 => faults = 0)
  <2>1. CoreTakes(Frame("BANK", 0, serve.next)) = [core EXCEPT !.bank = serve.next]
    BY <1>1, <1>2, CoreGets, ContentOf
  <2> QED
    BY <1>1, <2>1, PullOf
<1>4. /\ core' \in CoreType /\ core'.op = core.op /\ core'.lba = core.lba /\ core'.data = core.data
      /\ core'.state = core.state /\ core'.seen = core.seen /\ core'.buf = core.buf
  BY <1>1, <1>2, <1>3 DEF CoreType
<1>5. serve' \in ServeType /\ serve'.pc = "data" /\ serve'.lba = serve.lba /\ serve'.op = serve.op /\ serve'.res = serve.res
  BY <1>1 DEF ServeType, Pcs
<1> QED
  BY <1>1, <1>3, <1>4, <1>5, SentKept

\* The byte.
LEMMA DataKept == ASSUME MountInv, SendData PROVE MountInv'
<1>1. /\ serve.pc = "data" /\ Transfer(Frame("DATA", 0, wr.buf[serve.next]))
      /\ UNCHANGED <<mount, dirty, disk, cuts>> /\ MountTypes /\ serve \in ServeType /\ core \in CoreType
      /\ wr \in WrType
  BY DEF SendData, Serving, MountInv, MountTypes, ServeType, CoreType, WrType
<1> DEFINE d == wr.buf[serve.next]
<1>2. serve.next \in Bank /\ d \in Content
  BY <1>1 DEF ServeType, WrType
<1>3. /\ Pulls /\ core' \in {core, [core EXCEPT !.buf[core.bank] = d, !.seen = @ \cup {core.bank}]}
      /\ faults' \in Nat /\ faults' <= MaxFaults /\ (faults' = 0 => faults = 0)
  <2>1. CoreTakes(Frame("DATA", 0, d)) = [core EXCEPT !.buf[core.bank] = d, !.seen = @ \cup {core.bank}]
    BY <1>1, <1>2, CoreGets
  <2> QED
    BY <1>1, <2>1, PullOf
<1>4. /\ core' \in CoreType /\ core'.op = core.op /\ core'.lba = core.lba /\ core'.data = core.data
      /\ core'.state = core.state
      /\ \A b \in core'.seen : (b \in core.seen /\ core'.buf[b] = core.buf[b]) \/ core'.buf[b] = d
  <2>1. CASE core' = core
    BY <1>1, <2>1
  <2>2. CASE core' = [core EXCEPT !.buf[core.bank] = d, !.seen = @ \cup {core.bank}]
    <3>1. core.bank \in Bank /\ core.buf \in [Bank -> Content] /\ core.seen \in SUBSET Bank
      BY <1>1 DEF CoreType
    <3>2. [core.buf EXCEPT ![core.bank] = d] \in [Bank -> Content] /\ core.seen \cup {core.bank} \in SUBSET Bank
      BY <1>2, <3>1
    <3>3. \A f \in [Bank -> Content], s \in SUBSET Bank :
            LET c == [core EXCEPT !.buf = f, !.seen = s]
            IN /\ c \in CoreType /\ c.buf = f /\ c.seen = s /\ c.op = core.op /\ c.lba = core.lba
               /\ c.data = core.data /\ c.state = core.state
      BY <1>1 DEF CoreType
    <3>4. core' = [core EXCEPT !.buf = [core.buf EXCEPT ![core.bank] = d], !.seen = core.seen \cup {core.bank}]
      BY <1>1, <2>2 DEF CoreType
    <3>5. /\ core'.buf = [core.buf EXCEPT ![core.bank] = d] /\ core'.seen = core.seen \cup {core.bank}
          /\ core' \in CoreType /\ core'.op = core.op /\ core'.lba = core.lba
          /\ core'.data = core.data /\ core'.state = core.state
      BY <3>2, <3>3, <3>4
    <3>6. \A b \in core'.seen : (b \in core.seen /\ core'.buf[b] = core.buf[b]) \/ core'.buf[b] = d
      BY <3>1, <3>5
    <3> QED
      BY <3>5, <3>6
  <2> QED
    BY <1>3, <2>1, <2>2
<1>5. /\ serve' \in ServeType /\ serve'.pc \in {"bank", "sum"} /\ serve'.lba = serve.lba /\ serve'.op = serve.op
      /\ serve'.res = serve.res
  <2>1. CASE more(serve.next)
    <3>1. serve' = [serve EXCEPT !.pc = "bank", !.next = serve.next + 1]
      BY <1>1, <2>1 DEF SendData, ServeType
    <3>2. serve.next + 1 \in Bank /\ "bank" \in Pcs
      BY <2>1 DEF more, Pcs
    <3> QED
      BY <1>1, <3>1, <3>2 DEF ServeType
  <2>2. CASE ~more(serve.next)
    <3>1. serve' = [serve EXCEPT !.pc = "sum"] /\ "sum" \in Pcs
      BY <2>2 DEF SendData, Pcs
    <3> QED
      BY <1>1, <3>1 DEF ServeType
  <2> QED
    BY <2>1, <2>2
<1>6. \A b \in core'.seen : (b \in core.seen /\ core'.buf[b] = core.buf[b]) \/ (\E k \in Bank : core'.buf[b] = wr.buf[k])
  BY <1>2, <1>4
<1> QED
  BY <1>1, <1>3, <1>4, <1>5, <1>6, SentKept

\* The sum.
LEMMA SumKept == ASSUME MountInv, SendSum PROVE MountInv'
<1>1. /\ serve.pc = "sum" /\ Transfer(Frame("LBA", 0, SumOf(wr.buf))) /\ serve' = [serve EXCEPT !.pc = "answer"]
      /\ UNCHANGED <<mount, dirty, disk, cuts>> /\ MountTypes /\ serve \in ServeType /\ core \in CoreType
      /\ wr \in WrType
  BY DEF SendSum, Serving, MountInv, MountTypes, ServeType, CoreType, WrType
<1> DEFINE d == SumOf(wr.buf)
<1>2. d \in Content
  BY <1>1, ContentOf DEF SumOf, WrType
<1>3. /\ Pulls /\ core' \in {core, [core EXCEPT !.sum = d]}
      /\ faults' \in Nat /\ faults' <= MaxFaults /\ (faults' = 0 => faults = 0)
  <2>1. CoreTakes(Frame("LBA", 0, d)) = [core EXCEPT !.sum = d]
    BY <1>1, <1>2, CoreGets, ContentOf
  <2> QED
    BY <1>1, <2>1, PullOf
<1> HIDE DEF d
<1>4. /\ core' \in CoreType /\ core'.op = core.op /\ core'.lba = core.lba /\ core'.data = core.data
      /\ core'.state = core.state /\ core'.seen = core.seen /\ core'.buf = core.buf
  BY <1>1, <1>2, <1>3 DEF CoreType
<1>5. serve' \in ServeType /\ serve'.pc = "answer" /\ serve'.lba = serve.lba /\ serve'.op = serve.op /\ serve'.res = serve.res
  BY <1>1 DEF ServeType, Pcs
<1> QED
  BY <1>1, <1>3, <1>4, <1>5, SentKept

\* The data of a write is waited for.
LEMMA ReceivePollKept == ASSUME MountInv, ReceivePoll PROVE MountInv'
<1>1. /\ serve.pc = "receive" /\ Transfer(Nop) /\ UNCHANGED <<mount, serve, dirty, disk, cuts>> /\ MountTypes
  BY DEF ReceivePoll, Serving, MountInv
<1>2. CoreTakes(Nop) = core
  BY DEF CoreTakes, Nop, Frame
<1>3. Pulls /\ core' = core /\ faults' \in Nat /\ faults' <= MaxFaults /\ (faults' = 0 => faults = 0)
  BY <1>1, <1>2, PullOf
<1>4. req' \in ReqType /\ wr' \in WrType /\ up' \in Seq(UpFrames)
  BY <1>1, <1>3, PullTypes
<1>5. MountTypes'
  BY <1>1, <1>3, <1>4 DEF MountTypes, ReqType, WrType
<1>6. Busy /\ core.state \in {"wait", "reset"} /\ serve.op = "WRITE" /\ core.op = "WRITE" /\ ~req.pending
  BY <1>1 DEF Busy, MountInv, OnTheWay, ServeRight
<1>7. OnTheWay' /\ LbaRight' /\ WriteRight'
  BY <1>1, <1>3, <1>6, BusyWay
<1>8. req' = req
  BY <1>3, <1>6, PullBusy
<1>9. ServeRight'
  BY <1>1, <1>3, <1>6, <1>8 DEF MountInv, ServeRight, Sends
<1> QED
  BY <1>5, <1>7, <1>9 DEF MountInv

\* The end of a write: its answer is known, and what is on the card.
LEMMA WroteKept ==
  ASSUME MountInv, serve.pc = "receive", serve' \in ServeType, serve'.pc = "answer",
         serve'.op = serve.op, serve'.lba = serve.lba,
         serve'.res # "ERROR" => wr.sum_seen /\ (mount.wp \/ disk'[serve.lba] = core.data),
         disk' \in [Lba -> Content], dirty' \in BOOLEAN,
         faults' \in Nat, faults' <= MaxFaults, faults' = 0 => faults = 0,
         UNCHANGED <<mount, req, wr, core, up, cuts>>
  PROVE  MountInv'
<1>1. Busy /\ Busy' /\ serve.op = "WRITE" /\ core.op = "WRITE" /\ ~req.pending /\ MountTypes
  BY DEF Busy, MountInv, ServeRight
<1>2. MountTypes'
  BY <1>1 DEF MountTypes, ServeType
<1>3. OnTheWay'
  BY <1>1 DEF MountInv, OnTheWay, OfRequest, SecLast, SumLast, OnlyData
<1>4. LbaRight'
  <2>1. CutOrLost' => serve.lba = core.lba
    BY DEF MountInv, LbaRight, CutOrLost
  <2>2. core.state # "idle" /\ req.mask = {}
    BY <1>1 DEF MountInv, OnTheWay, LbaRight
  <2> QED
    BY <1>1, <2>1, <2>2 DEF LbaRight, Goods
<1>5. WriteRight'
  BY <1>1 DEF MountInv, WriteRight
<1>6. ServeRight'
  BY <1>1 DEF ServeRight, Sends
<1> QED
  BY <1>2, <1>3, <1>4, <1>5, <1>6 DEF MountInv

\* The data did not come.
LEMMA GiveUpKept == ASSUME MountInv, ReceiveGiveUp PROVE MountInv'
<1>1. /\ serve.pc = "receive" /\ serve \in ServeType /\ disk \in [Lba -> Content] /\ dirty \in BOOLEAN
      /\ faults \in Nat /\ faults <= MaxFaults
      /\ serve' = [serve EXCEPT !.pc = "answer", !.res = "ERROR"]
      /\ UNCHANGED <<mount, req, wr, dirty, disk, core, up, faults, cuts>>
  BY DEF ReceiveGiveUp, Serving, MountInv, MountTypes, ServeType
<1>2. serve' \in ServeType /\ serve'.pc = "answer" /\ serve'.op = serve.op /\ serve'.lba = serve.lba /\ serve'.res = "ERROR"
  <2>1. \A p \in Pcs, r \in Answers : [serve EXCEPT !.pc = p, !.res = r] \in ServeType
    BY <1>1 DEF ServeType
  <2>2. "answer" \in Pcs /\ "ERROR" \in Answers
    BY DEF Pcs, Answers
  <2> QED
    BY <1>1, <2>1, <2>2 DEF ServeType
<1> QED
  BY <1>1, <1>2, WroteKept

\* All the data of a write came, and it is what the core sent.
LEMMA WriteIs ==
  ASSUME MountInv, ServeWrite
  PROVE  /\ serve.pc = "receive" /\ core.op = "WRITE" /\ core.state \in {"wait", "reset"}
         /\ wr.sum = core.data /\ wr.sum_seen /\ serve \in ServeType
         /\ CutOrLost => serve.lba = core.lba
         /\ UNCHANGED <<mount, req, wr, core, up, cuts>>
<1>1. serve.pc = "receive" /\ wr.sum_seen /\ UNCHANGED <<mount, req, wr, core, up, cuts>>
  BY DEF ServeWrite, Serving
<1>2. Busy /\ core.op = "WRITE" /\ core.state \in {"wait", "reset"}
  BY <1>1 DEF Busy, MountInv, ServeRight, OnTheWay
<1>3. wr.sum = core.data
  BY <1>1, <1>2 DEF MountInv, WriteRight
<1>4. CutOrLost => serve.lba = core.lba
  BY <1>1 DEF MountInv, LbaRight
<1>5. serve \in ServeType
  BY DEF MountInv, MountTypes, ServeType
<1> QED
  BY <1>1, <1>2, <1>3, <1>4, <1>5

\* It came: wrong, protected, written or failed.
LEMMA WriteKept == ASSUME MountInv, ServeWrite PROVE MountInv'
<1>1. /\ serve.pc = "receive" /\ wr.sum = core.data /\ wr.sum_seen /\ serve \in ServeType
      /\ UNCHANGED <<mount, req, wr, core, up, cuts>>
  BY WriteIs
<1>2. /\ disk \in [Lba -> Content] /\ dirty \in BOOLEAN /\ faults \in Nat /\ faults <= MaxFaults
      /\ wr.sum \in Content /\ serve.lba \in Lba
  BY DEF MountInv, MountTypes
<1>3. ASSUME NEW r \in Answers, serve' = [serve EXCEPT !.pc = "answer", !.res = r]
      PROVE  /\ serve' \in ServeType /\ serve'.pc = "answer" /\ serve'.op = serve.op /\ serve'.lba = serve.lba
             /\ serve'.res = r
  <2>1. "answer" \in Pcs
    BY DEF Pcs
  <2>2. \A p \in Pcs : [serve EXCEPT !.pc = p, !.res = r] \in ServeType
    BY <1>1 DEF ServeType
  <2> QED
    BY <1>1, <1>3, <2>1, <2>2 DEF ServeType
<1>4. CASE ~Whole(wr.buf, wr.seen, wr.sum) /\ serve' = [serve EXCEPT !.pc = "answer", !.res = "ERROR"]
           /\ UNCHANGED <<mount, dirty, disk, faults>>
  <2>1. "ERROR" \in Answers
    BY DEF Answers
  <2> QED
    BY <1>1, <1>2, <1>3, <1>4, <2>1, WroteKept
<1>5. CASE protected /\ serve' = [serve EXCEPT !.pc = "answer", !.res = IF mount.caps THEN "PROTECTED" ELSE "DONE"]
           /\ UNCHANGED <<mount, dirty, disk, faults>>
  <2> DEFINE r == IF mount.caps THEN "PROTECTED" ELSE "DONE"
  <2>1. r \in Answers
    BY DEF Answers
  <2>2. mount.wp
    BY <1>5 DEF protected
  <2> HIDE DEF r
  <2>3. serve' = [serve EXCEPT !.pc = "answer", !.res = r]
    BY <1>5 DEF r
  <2> QED
    BY <1>1, <1>2, <1>3, <1>5, <2>1, <2>2, <2>3, WroteKept
<1>6. ASSUME NEW ok \in BOOLEAN, NEW written \in BOOLEAN, ok => written,
             faults' = faults + (IF ok THEN 0 ELSE 1), faults' <= MaxFaults,
             disk' = IF written THEN [disk EXCEPT ![serve.lba] = wr.sum] ELSE disk,
             serve' = [serve EXCEPT !.pc = "answer", !.res = result(ok)], dirty' = TRUE
      PROVE  MountInv'
  <2>1. result(ok) \in Answers /\ (result(ok) # "ERROR" => ok)
    BY DEF result, Answers
  <2>2. faults' \in Nat /\ (faults' = 0 => faults = 0)
    BY <1>2, <1>6
  <2>3. disk' \in [Lba -> Content] /\ (written => disk'[serve.lba] = wr.sum)
    BY <1>2, <1>6
  <2>4. /\ serve' \in ServeType /\ serve'.pc = "answer" /\ serve'.op = serve.op /\ serve'.lba = serve.lba
        /\ serve'.res = result(ok)
    BY <1>3, <1>6, <2>1
  <2>5. dirty' \in BOOLEAN
    BY <1>6
  <2> QED
    BY <1>1, <1>6, <2>1, <2>2, <2>3, <2>4, <2>5, WroteKept
<1>7. CASE \E ok, written \in BOOLEAN :
             /\ ok => written
             /\ faults' = faults + (IF ok THEN 0 ELSE 1) /\ faults' <= MaxFaults
             /\ disk' = IF written THEN [disk EXCEPT ![serve.lba] = wr.sum] ELSE disk
             /\ serve' = [serve EXCEPT !.pc = "answer", !.res = result(ok)]
             /\ dirty' = TRUE
  BY <1>6, <1>7
<1> QED
  BY <1>4, <1>5, <1>7 DEF ServeWrite

\* What the core makes of the answer.
LEMMA AnswerOf ==
  ASSUME MountInv, ServeAnswer
  PROVE  /\ serve.pc = "answer" /\ serve \in ServeType /\ Pulls /\ serve' = Resting
         /\ faults' \in Nat /\ faults' <= MaxFaults /\ (faults' = 0 => faults = 0)
         /\ core' \in CoreType
         /\ core'.op = core.op /\ core'.lba = core.lba /\ core'.data = core.data /\ core'.seen = core.seen
         /\ core'.buf = core.buf
         /\ \/ core'.state = core.state
            \/ core.state = "wait" /\ core'.state = "again"
            \/ /\ core.state = "wait" /\ core'.state = "idle" /\ serve.res # "ERROR"
               /\ core.op = "READ" => Whole(core.buf, core.seen, core.sum)
         /\ UNCHANGED <<mount, dirty, disk, cuts>>
<1>1. /\ serve.pc = "answer" /\ Transfer(Frame("SEC", 0, serve.res)) /\ serve' = Resting
      /\ UNCHANGED <<mount, dirty, disk, cuts>> /\ MountTypes /\ serve \in ServeType /\ core \in CoreType
  BY DEF ServeAnswer, Serving, MountInv, MountTypes, ServeType, CoreType
<1>2. /\ Pulls /\ core' \in {core, CoreTakes(Frame("SEC", 0, serve.res))}
      /\ faults' \in Nat /\ faults' <= MaxFaults /\ (faults' = 0 => faults = 0)
  BY <1>1, PullOf
<1> DEFINE wrong == serve.res = "ERROR" \/ (core.op = "READ" /\ ~Whole(core.buf, core.seen, core.sum))
           end == IF wrong THEN "again" ELSE "idle"
<1>3. CASE core.state # "wait" \/ core' = core
  <2>1. core.state # "wait" => CoreTakes(Frame("SEC", 0, serve.res)) = core
    BY DEF CoreTakes, Frame
  <2>2. core' = core
    BY <1>2, <1>3, <2>1
  <2> QED
    BY <1>1, <1>2, <2>2
<1>4. CASE core.state = "wait" /\ core' # core
  <2>1. CoreTakes(Frame("SEC", 0, serve.res)) = [core EXCEPT !.state = end]
    BY <1>4 DEF CoreTakes, Frame
  <2>2. end \in {"again", "idle"} /\ (end = "idle" => ~wrong)
    OBVIOUS
  <2> HIDE DEF end
  <2>3. core' = [core EXCEPT !.state = end]
    BY <1>2, <1>4, <2>1
  <2>4. /\ core' \in CoreType /\ core'.op = core.op /\ core'.lba = core.lba /\ core'.data = core.data
        /\ core'.seen = core.seen /\ core'.buf = core.buf /\ core'.state = end
    BY <1>1, <2>2, <2>3 DEF CoreType
  <2> QED
    BY <1>1, <1>2, <1>4, <2>2, <2>4
<1> QED
  BY <1>3, <1>4

\* The answer, which the core gets or not.
LEMMA AnswerKept == ASSUME MountInv, ServeAnswer PROVE MountInv'
<1>1. /\ serve.pc = "answer" /\ serve \in ServeType /\ Pulls /\ serve' = Resting
      /\ faults' \in Nat /\ faults' <= MaxFaults /\ (faults' = 0 => faults = 0)
      /\ core' \in CoreType
      /\ core'.op = core.op /\ core'.lba = core.lba /\ core'.data = core.data /\ core'.seen = core.seen
      /\ core'.buf = core.buf
      /\ UNCHANGED <<mount, dirty, disk, cuts>>
  BY AnswerOf
<1>2. \/ core'.state = core.state
      \/ core.state = "wait" /\ core'.state = "again"
      \/ core.state = "wait" /\ core'.state = "idle" /\ serve.res # "ERROR"
  BY AnswerOf
<1>3. Busy /\ serve.op = core.op /\ ~req.pending /\ core.state \in {"wait", "reset"} /\ core.op \in Ops
  BY <1>1 DEF Busy, MountInv, ServeRight, OnTheWay, MountTypes
<1>4. serve'.pc = "rest" /\ serve' \in ServeType
  <2>1. <<0, 0>> \in Lba /\ "rest" \in Pcs /\ "READ" \in Ops /\ 0 \in Bank /\ "DONE" \in Answers
    BY DEF Lba, Byte, Ops, Pcs, Bank, Answers
  <2> QED
    BY <1>1, <2>1 DEF Resting, ServeType
<1>5. core'.state = "idle" => up = <<>>
  <2>1. CASE core.op = "READ"
    BY <1>1, <1>3, <2>1, PullBusy
  <2>2. CASE core.op = "WRITE"
    <3>1. core'.state = "idle" => wr.sum_seen
      BY <1>1, <1>2, <1>3, <2>2 DEF MountInv, ServeRight
    <3> QED
      BY <1>3, <2>2, <3>1 DEF MountInv, WriteRight
  <2> QED
    BY <1>3, <2>1, <2>2 DEF Ops
<1>6. OnTheWay' /\ LbaRight' /\ WriteRight'
  <2>1. core'.state = core.state \/ (core'.state \in {"again", "idle"} /\ serve'.pc = "rest")
    BY <1>2, <1>4
  <2> QED
    BY <1>1, <1>4, <1>5, <2>1, BusyWay
<1>7. req' = req
  BY <1>1, <1>3, PullBusy
<1>8. MountTypes'
  <2>1. MountTypes
    BY DEF MountInv
  <2>2. req' \in ReqType /\ wr' \in WrType /\ up' \in Seq(UpFrames)
    BY <1>1, <2>1, PullTypes
  <2> QED
    BY <1>1, <1>4, <2>1, <2>2 DEF MountTypes, ReqType, WrType, ServeType, CoreType
<1>9. ServeRight'
  <2>1. core'.op = "READ" => up' = <<>>
    BY <1>1, <1>3, PullBusy
  <2>2. core'.op = "READ" => \A i \in 1 .. Len(up') : FALSE
    BY <2>1
  <2> QED
    BY <1>1, <1>3, <1>4, <1>7, <2>2 DEF ServeRight, Sends
<1> QED
  BY <1>6, <1>8, <1>9 DEF MountInv

-----------------------------------------------------------------------------
(* The theorems.                                                           *)

\* Every step keeps the invariant.
LEMMA MountKept == ASSUME MountInv, [Next]_vars, Prompt = TRUE PROVE MountInv'
<1>1. CASE Core
  BY <1>1, RequestKept, TimeoutKept, RepeatKept, ResetKept, BootKept DEF Core
<1>2. CASE Poll
  BY <1>2, PollKept
<1>3. CASE Tick
  BY <1>3, StartKept, ReadKept, BankKept, DataKept, SumKept, ReceivePollKept, GiveUpKept, WriteKept, AnswerKept
     DEF Tick
<1>4. CASE StartedTimeout
  <2>1. /\ req \in ReqType /\ req' = [req EXCEPT !.started = FALSE]
        /\ UNCHANGED <<mount, wr, serve, dirty, disk, core, up, faults, cuts>>
    BY <1>4 DEF StartedTimeout, MountInv, MountTypes, ReqType
  <2>2. /\ req' \in ReqType /\ req'.pending = req.pending /\ req'.mask = req.mask /\ req'.lba = req.lba
        /\ req'.op = req.op /\ req'.complete = req.complete
    BY <2>1 DEF ReqType
  <2>3. Busy' = Busy /\ Goods' = Goods /\ CutOrLost' = CutOrLost /\ \A i : FirstOne(i)' = FirstOne(i)
    BY <2>1, <2>2 DEF Busy, Goods, CutOrLost, FirstOne
  <2>4. MountTypes'
    BY <2>1, <2>2 DEF MountInv, MountTypes, ReqType
  <2>5. OnTheWay'
    BY <2>1, <2>3 DEF MountInv, OnTheWay, OfRequest, SecLast, SumLast, OnlyData
  <2>6. LbaRight'
    BY <2>1, <2>2, <2>3 DEF MountInv, LbaRight
  <2>7. WriteRight' /\ ServeRight'
    BY <2>1, <2>2, <2>3 DEF MountInv, WriteRight, ServeRight, Sends
  <2> QED
    BY <2>4, <2>5, <2>6, <2>7 DEF MountInv
<1>5. CASE SyncIdle
  <2>1. dirty' \in BOOLEAN /\ UNCHANGED <<mount, req, wr, serve, disk, core, up, faults, cuts>>
    BY <1>5 DEF SyncIdle
  <2> QED
    BY <2>1 DEF MountInv, MountTypes, OnTheWay, LbaRight, WriteRight, ServeRight, Busy, Goods, FirstOne, CutOrLost,
                OfRequest, SecLast, SumLast, OnlyData, Sends
<1>6. CASE UNCHANGED vars
  <2>1. UNCHANGED <<mount, req, wr, serve, dirty, disk, core, up, faults, cuts>>
    BY <1>6 DEF vars
  <2> QED
    BY <2>1 DEF MountInv, MountTypes, OnTheWay, LbaRight, WriteRight, ServeRight, Busy, Goods, FirstOne, CutOrLost,
                OfRequest, SecLast, SumLast, OnlyData, Sends
<1> QED
  BY <1>1, <1>2, <1>3, <1>4, <1>5, <1>6 DEF Next

\* The mounter and the core agree on the request, its LBA and its data (img_mount.c), if
\* answers come within the core's 200 ms.
THEOREM MountInvariant == ASSUME Prompt = TRUE PROVE Spec => []MountInv
<1>1. Init => MountInv
  BY MountStarts
<1>2. MountInv /\ [Next]_vars => MountInv'
  BY MountKept
<1> QED
  BY <1>1, <1>2, PTL DEF Spec

\* The variables stay in their ranges.
THEOREM MountTypeCorrect == ASSUME Prompt = TRUE PROVE Spec => []TypeOK
<1>1. MountInv => TypeOK
  BY DEF MountInv, MountTypes, TypeOK, Ops, Answers
<1> QED
  BY <1>1, MountInvariant, PTL

\* Only the answer ends a request.
LEMMA EndsByAnswer ==
  ASSUME [Next]_vars, core.state = "wait", core'.state = "idle", MountInv
  PROVE  ServeAnswer
<1>1. core \in CoreType
  BY DEF MountInv, MountTypes, CoreType
<1>2. CASE Core
  <2>1. ~CoreRequest /\ ~CoreRepeat /\ ~CoreBoot
    BY DEF CoreRequest, CoreRepeat, CoreBoot
  <2>2. ~CoreReset
    BY <1>1 DEF CoreReset, CoreType
  <2>3. ~CoreTimeout
    <3>1. Fresh(core).state = core.state
      BY <1>1, FreshOf DEF CoreType
    <3> QED
      BY <3>1 DEF CoreTimeout
  <2> QED
    BY <1>2, <2>1, <2>2, <2>3 DEF Core
<1>3. core' # core
  OBVIOUS
<1>4. ASSUME NEW f \in {Nop}, Transfer(f) PROVE FALSE
  <2>1. CoreTakes(Nop) = core
    BY DEF CoreTakes, Nop, Frame
  <2> QED
    BY <1>3, <1>4, <2>1 DEF Transfer
<1>5. ~Poll /\ ~ReceivePoll
  BY <1>4 DEF Poll, ReceivePoll
<1>6. ~ServeStart /\ ~ServeRead /\ ~ReceiveGiveUp /\ ~ServeWrite /\ ~StartedTimeout /\ ~SyncIdle /\ ~UNCHANGED vars
  BY <1>3 DEF ServeStart, ServeRead, ReceiveGiveUp, ServeWrite, StartedTimeout, SyncIdle, vars
<1>7. MountTypes /\ serve.next \in Bank /\ wr.buf[serve.next] \in Content /\ SumOf(wr.buf) \in Content
  BY ContentOf DEF MountInv, MountTypes, SumOf
<1>8. ~SendBank
  <2>1. CoreTakes(Frame("BANK", 0, serve.next)) = [core EXCEPT !.bank = serve.next]
    BY <1>7, CoreGets, ContentOf
  <2>2. CoreTakes(Frame("BANK", 0, serve.next)).state = core.state
    BY <1>1, <2>1 DEF CoreType
  <2> QED
    BY <2>2 DEF SendBank, Transfer
<1>9. ~SendData
  <2> DEFINE d == wr.buf[serve.next]
  <2>1. CoreTakes(Frame("DATA", 0, d)) = [core EXCEPT !.buf[core.bank] = d, !.seen = @ \cup {core.bank}]
    BY <1>7, CoreGets
  <2>2. CoreTakes(Frame("DATA", 0, d)).state = core.state
    BY <1>1, <2>1 DEF CoreType
  <2> QED
    BY <2>2 DEF SendData, Transfer
<1>10. ~SendSum
  <2> DEFINE d == SumOf(wr.buf)
  <2>1. CoreTakes(Frame("LBA", 0, d)) = [core EXCEPT !.sum = d]
    BY <1>7, CoreGets, ContentOf
  <2>2. CoreTakes(Frame("LBA", 0, d)).state = core.state
    BY <1>1, <2>1 DEF CoreType
  <2> QED
    BY <2>2 DEF SendSum, Transfer
<1> QED
  BY <1>2, <1>5, <1>6, <1>8, <1>9, <1>10 DEF Next, Tick

\* What the core passes on is what the card has where it asked, and a write it was told
\* is done is there.
LEMMA EndsRight ==
  ASSUME MountInv, ServeAnswer, core.state = "wait", core'.state = "idle", CutOrLost
  PROVE  /\ core.op = "READ" => \A b \in Bank : core.buf[b] = disk[core.lba]
         /\ core.op = "WRITE" /\ ~mount.wp => disk[core.lba] = core.data
<1>1. /\ serve.pc = "answer" /\ serve.res # "ERROR"
      /\ core.op = "READ" => Whole(core.buf, core.seen, core.sum)
  BY AnswerOf
<1>2. serve.lba = core.lba
  BY <1>1 DEF MountInv, LbaRight
<1>3. serve.op = core.op
  BY <1>1 DEF MountInv, ServeRight
<1>4. core.op = "READ" => \A b \in core.seen : core.buf[b] = disk[serve.lba]
  BY <1>1, <1>3 DEF MountInv, ServeRight, Sends
<1>5. core.op = "WRITE" => mount.wp \/ disk[serve.lba] = core.data
  BY <1>1, <1>3 DEF MountInv, ServeRight
<1> QED
  BY <1>1, <1>2, <1>4, <1>5 DEF Whole

\* A sector that is read or written is the one the core asked for, and right, whatever
\* is lost on the link, fails on the card, or is cut by a reset (img_mount.c).
THEOREM SectorsAreMoved == ASSUME Prompt = TRUE PROVE Spec => SectorsMoveRight
<1>1. MountInv => LbaWhole
  <2> SUFFICES ASSUME MountInv, CutOrLost, serve.pc \in {"read", "receive"} PROVE serve.lba \in Asked
    BY DEF LbaWhole
  <2>1. serve.lba = core.lba
    BY DEF MountInv, LbaRight
  <2>2. core.lba \in Asked
    BY DEF MountInv, OnTheWay, Busy
  <2> QED
    BY <2>1, <2>2
<1>2. MountInv /\ [Next]_vars =>
        [CutOrLost /\ Ends("READ") => \A b \in Bank : core.buf[b] = disk[core.lba]]_vars
  BY EndsByAnswer, EndsRight DEF Ends
<1>3. MountInv /\ [Next]_vars =>
        [CutOrLost /\ Ends("WRITE") /\ ~mount.wp => disk[core.lba] = core.data]_vars
  BY EndsByAnswer, EndsRight DEF Ends
<1>4. MountInv /\ [Next]_vars =>
        [disk' # disk =>
           /\ ~mount.wp
           /\ CutOrLost => /\ core.state \in {"wait", "reset"} /\ core.op = "WRITE"
                           /\ disk' = [disk EXCEPT ![core.lba] = core.data]]_vars
  <2> SUFFICES ASSUME MountInv, Next, disk' # disk
               PROVE  /\ ~mount.wp
                      /\ CutOrLost => /\ core.state \in {"wait", "reset"} /\ core.op = "WRITE"
                                      /\ disk' = [disk EXCEPT ![core.lba] = core.data]
    BY DEF vars
  <2>1. ServeWrite
    <3>1. ~Core
      BY DEF Core, CoreRequest, CoreTimeout, CoreRepeat, CoreReset, CoreBoot
    <3>2. ~Poll /\ ~StartedTimeout /\ ~SyncIdle
      BY DEF Poll, StartedTimeout, SyncIdle
    <3>3. Tick
      BY <3>1, <3>2 DEF Next
    <3> QED
      BY <3>3 DEF Tick, ServeStart, ServeRead, SendBank, SendData, SendSum, ReceivePoll, ReceiveGiveUp, ServeAnswer
  <2>2. /\ core.op = "WRITE" /\ core.state \in {"wait", "reset"} /\ wr.sum = core.data
        /\ CutOrLost => serve.lba = core.lba
    BY <2>1, WriteIs
  <2>3. ~mount.wp /\ disk' = [disk EXCEPT ![serve.lba] = wr.sum]
    BY <2>1 DEF ServeWrite, protected
  <2> QED
    BY <2>2, <2>3
<1> QED
  BY <1>1, <1>2, <1>3, <1>4, MountInvariant, PTL
     DEF Spec, SectorsMoveRight, ReadIsRight, WriteIsRight, OnlyAsked

-----------------------------------------------------------------------------
(* The driver.  Sound is what every function needs to end a transfer, Open   *)
(* what holds inside a transfer, Ready what holds between two calls.         *)

Sound(c) ==
  /\ c \in CardType /\ ~c.clash
  /\ c.held = (IF c.state = "idle" THEN 0 ELSE 1)
  /\ c.state = "idle" => c.mode = "idle" \/ c.lost

Ready(c) ==
  /\ Sound(c)
  /\ c.state # "idle" =>
       /\ c.dedicated /\ ~c.lost /\ c.mode = c.state
       /\ c.pos = c.cur /\ c.cur <= LastSector + 1

\* A transfer of kind `what' is open; the driver is at sector s, the card at p.
Open(c, what, s, p) ==
  /\ Sound(c) /\ ~c.lost
  /\ c.state = what /\ c.mode = what
  /\ c.cur = s /\ c.pos = p

\* A driver before its card is set up; the card may be in any transfer.
Off(c) == c \in CardType /\ ~c.clash /\ c.held = 0 /\ c.state = "idle"

\* What no function of the driver changes but a write, which changes the data.
SameCard(c, d) == d.dedicated = c.dedicated /\ d.usable = c.usable
SameData(c, d) == SameCard(c, d) /\ d.data = c.data

\* A driver that is ready is one that agrees with its card.
LEMMA ReadyAgrees == ASSUME NEW c, Ready(c) PROVE Agree(c) /\ ~c.clash
BY DEF Ready, Sound, Agree

\* A shared bus is free between two calls.
LEMMA SharedIdle ==
  ASSUME NEW c, Ready(c), ~c.dedicated
  PROVE  c.state = "idle" /\ Off(c)
BY DEF Ready, Sound, Off

\* Taking and giving back the bus touches nothing else.
LEMMA BusTouched ==
  ASSUME NEW c, c \in CardType
  PROVE  /\ start(c) \in CardType /\ start(c).held = c.held + 1
         /\ stop(c) \in CardType /\ stop(c).held = c.held - 1
         /\ \A d \in {start(c), stop(c)} :
              /\ d.state = c.state /\ d.mode = c.mode /\ d.lost = c.lost
              /\ d.clash = c.clash /\ d.cur = c.cur /\ d.pos = c.pos
              /\ d.usable = c.usable /\ d.dedicated = c.dedicated /\ d.data = c.data
<1>1. start(c) = [c EXCEPT !.held = @ + 1] /\ stop(c) = [c EXCEPT !.held = @ - 1]
  BY DEF start, stop
<1>2. c.held \in Int
  BY DEF CardType
<1> QED
  BY <1>1, <1>2 DEF CardType

\* sd_card_sync() ends what is open, or gives up the card's transfer.
LEMMA SyncRight ==
  ASSUME NEW c, NEW f, Sound(c)
  PROVE  /\ Ready(sd_card_sync(c, f).c) /\ sd_card_sync(c, f).c.state = "idle"
         /\ SameData(c, sd_card_sync(c, f).c) /\ sd_card_sync(c, f).ok \in BOOLEAN
<1>1. c \in CardType /\ ~c.clash /\ c.state \in Modes /\ (c.state # "idle" => c.held = 1)
  BY DEF Sound, CardType
<1>2. CASE c.state = "idle"
  BY <1>2 DEF sd_card_sync, Done, Sound, Ready, SameData, SameCard
<1>3. CASE c.state # "idle" /\ "end" \in f
  <2> DEFINE e == [c EXCEPT !.state = "idle", !.lost = TRUE]
             d == stop(e)
  <2>1. sd_card_sync(c, f) = Done(d, FALSE)
    BY <1>3 DEF sd_card_sync
  <2>2. /\ e \in CardType /\ e.held = 1 /\ e.state = "idle" /\ e.lost /\ ~e.clash
        /\ SameData(c, e)
    BY <1>3, <1>1 DEF CardType, Modes, SameData, SameCard
  <2> HIDE DEF e
  <2>3. d \in CardType /\ d.held = 0 /\ d.state = "idle" /\ d.lost /\ ~d.clash /\ SameData(c, d)
    BY <2>2, BusTouched DEF SameData, SameCard
  <2>4. Ready(d)
    BY <2>3 DEF Ready, Sound
  <2> QED
    BY <2>1, <2>3, <2>4 DEF Done
<1>4. CASE c.state # "idle" /\ "end" \notin f
  <2> DEFINE e == [c EXCEPT !.state = "idle", !.mode = "idle"]
             d == stop(e)
  <2>1. sd_card_sync(c, f) = Done(d, TRUE)
    BY <1>4 DEF sd_card_sync
  <2>2. /\ e \in CardType /\ e.held = 1 /\ e.state = "idle" /\ e.mode = "idle" /\ ~e.clash
        /\ SameData(c, e)
    BY <1>4, <1>1 DEF CardType, Modes, SameData, SameCard
  <2> HIDE DEF e
  <2>3. d \in CardType /\ d.held = 0 /\ d.state = "idle" /\ d.mode = "idle" /\ ~d.clash /\ SameData(c, d)
    BY <2>2, BusTouched DEF SameData, SameCard
  <2>4. Ready(d)
    BY <2>3 DEF Ready, Sound
  <2> QED
    BY <2>1, <2>3, <2>4 DEF Done
<1> QED
  BY <1>2, <1>3, <1>4

\* A command after the end of a transfer meets no open one.
LEMMA CommandRight ==
  ASSUME NEW c, NEW f, Sound(c), c.state = "idle"
  PROVE  LET b == command(start(c), f)
         IN /\ b.ok \in BOOLEAN /\ b.c \in CardType /\ SameData(c, b.c)
            /\ b.c.state = "idle" /\ b.c.held = 1 /\ ~b.c.clash
            /\ b.c.mode = "idle" \/ b.c.lost
            /\ b.ok => b.c.mode = "idle" /\ ~b.c.lost
            /\ Ready(stop(b.c)) /\ stop(b.c).state = "idle" /\ SameData(c, stop(b.c))
<1> DEFINE b == command(start(c), f)
           sent == [start(c) EXCEPT !.clash = @ \/ (start(c).mode # "idle" /\ ~start(c).lost)]
<1>1. c.held = 0 /\ (c.mode = "idle" \/ c.lost) /\ c \in CardType /\ ~c.clash
  BY DEF Sound
<1>2. /\ start(c) \in CardType /\ start(c).held = 1 /\ start(c).state = "idle" /\ ~start(c).clash
      /\ start(c).mode = c.mode /\ start(c).lost = c.lost /\ SameData(c, start(c))
  BY <1>1, BusTouched DEF SameData, SameCard
<1>3. /\ sent \in CardType /\ sent.held = 1 /\ sent.state = "idle" /\ ~sent.clash
      /\ sent.mode = c.mode /\ sent.lost = c.lost /\ SameData(c, sent)
  BY <1>1, <1>2 DEF CardType, SameData, SameCard
<1>4. b = (IF "command" \in f THEN Done(sent, FALSE)
           ELSE Done([sent EXCEPT !.mode = "idle", !.lost = FALSE], TRUE))
  BY DEF command
<1> HIDE DEF sent
<1>5. /\ b.ok \in BOOLEAN /\ b.c \in CardType /\ SameData(c, b.c)
      /\ b.c.state = "idle" /\ b.c.held = 1 /\ ~b.c.clash
      /\ b.c.mode = "idle" \/ b.c.lost
      /\ b.ok => b.c.mode = "idle" /\ ~b.c.lost
  <2>1. CASE "command" \in f
    BY <2>1, <1>1, <1>3, <1>4 DEF Done, SameData, SameCard
  <2>2. CASE "command" \notin f
    <3> DEFINE d == [sent EXCEPT !.mode = "idle", !.lost = FALSE]
    <3>1. /\ d \in CardType /\ SameData(c, d) /\ d.state = "idle" /\ d.held = 1 /\ ~d.clash
          /\ d.mode = "idle" /\ ~d.lost
      BY <1>3 DEF CardType, Modes, SameData, SameCard
    <3>2. b.c = d /\ b.ok = TRUE
      BY <2>2, <1>4 DEF Done
    <3> QED
      BY <3>1, <3>2
  <2> QED
    BY <2>1, <2>2
<1> HIDE DEF b
<1>6. Ready(stop(b.c)) /\ stop(b.c).state = "idle" /\ SameData(c, stop(b.c))
  BY <1>5, BusTouched DEF Ready, Sound, SameData, SameCard
<1> QED
  BY <1>5, <1>6 DEF b

\* A transfer that is ready to be ended, and the sets the module works with.
LEMMA OpenSound == ASSUME NEW c, NEW what, NEW s, NEW p, Open(c, what, s, p) PROVE Sound(c)
BY DEF Open

\* So has one that is ready for the next command.
LEMMA ReadySound == ASSUME NEW c, Ready(c) PROVE Sound(c)
BY DEF Ready

\* A transfer goes on at its place, or a new one is opened there.
LEMMA OpenedRight ==
  ASSUME NEW c, NEW f, Ready(c), NEW what \in {"read", "write"}, NEW s \in Sector
  PROVE  LET o == opened(c, what, s, f)
         IN /\ o.ok \in BOOLEAN /\ SameData(c, o.c)
            /\ o.ok => Open(o.c, what, s, s)
            /\ ~o.ok => Ready(o.c)
<1> DEFINE ended == sd_card_sync(c, f)
           begun == command(start(ended.c), f)
           o == opened(c, what, s, f)
<1>1. /\ Ready(ended.c) /\ ended.c.state = "idle" /\ SameData(c, ended.c)
      /\ ended.ok \in BOOLEAN
  BY SyncRight, ReadySound
<1>2. /\ begun.ok \in BOOLEAN /\ begun.c \in CardType /\ SameData(ended.c, begun.c)
      /\ begun.c.state = "idle" /\ begun.c.held = 1 /\ ~begun.c.clash
      /\ begun.ok => begun.c.mode = "idle" /\ ~begun.c.lost
      /\ Ready(stop(begun.c)) /\ SameData(ended.c, stop(begun.c))
  BY <1>1, CommandRight, ReadySound
<1>3. CASE c.state = what /\ c.cur = s
  <2>1. o.c = c /\ o.ok = TRUE
    BY <1>3 DEF opened, Done
  <2>2. Open(c, what, s, s)
    BY <1>3 DEF Open, Ready
  <2> QED
    BY <2>1, <2>2 DEF SameData, SameCard
<1>4. CASE ~(c.state = what /\ c.cur = s) /\ ~ended.ok
  <2>1. o = ended
    BY <1>4 DEF opened
  <2> QED
    BY <2>1, <1>1, <1>4
<1>5. CASE ~(c.state = what /\ c.cur = s) /\ ended.ok /\ ~begun.ok
  <2>1. o.c = stop(begun.c) /\ o.ok = FALSE
    BY <1>5 DEF opened, Done
  <2> QED
    BY <2>1, <1>1, <1>2 DEF SameData, SameCard
<1>6. CASE ~(c.state = what /\ c.cur = s) /\ ended.ok /\ begun.ok
  <2> DEFINE d == [begun.c EXCEPT !.state = what, !.cur = s, !.mode = what, !.pos = s]
  <2>1. o.c = d /\ o.ok = TRUE
    BY <1>6 DEF opened, Done
  <2>2. s \in 0 .. LastSector + MaxCount + 1
    BY SdAssumption DEF Sector
  <2> HIDE DEF ended, begun
  <2>3. /\ d \in CardType /\ d.held = 1 /\ ~d.clash /\ ~d.lost /\ d.state = what
        /\ d.mode = what /\ d.cur = s /\ d.pos = s /\ SameData(begun.c, d)
    BY <1>2, <1>6, <2>2 DEF CardType, Modes, SameData, SameCard
  <2>4. Open(d, what, s, s)
    BY <2>3 DEF Open, Sound
  <2> QED
    BY <2>1, <2>3, <2>4, <1>1, <1>2, ZenonT(60) DEF SameData, SameCard
<1> QED
  BY <1>1, <1>2, <1>3, <1>4, <1>5, <1>6

\* After n sectors the transfer is at the next one, or is ended on a shared bus.
LEMMA PassedRight ==
  ASSUME NEW c, NEW f, NEW what, NEW s \in Sector, NEW n \in Nat, s + n - 1 \in Sector,
         Open(c, what, s, s + n)
  PROVE  LET o == passed(c, n, f)
         IN Ready(o.c) /\ o.ok \in BOOLEAN /\ SameData(c, o.c)
<1> DEFINE on == [c EXCEPT !.cur = @ + n]
<1>1. /\ s + n <= LastSector + 1 /\ s + n \in 0 .. LastSector + MaxCount + 1
  BY SdAssumption DEF Sector
<1>2. /\ on \in CardType /\ on.held = c.held /\ ~on.clash /\ ~on.lost /\ on.state = c.state
      /\ on.mode = c.mode /\ on.cur = s + n /\ on.pos = s + n /\ SameData(c, on)
  BY <1>1 DEF Open, Sound, CardType, SameData, SameCard
<1>3. Open(on, what, s + n, s + n)
  BY <1>2 DEF Open, Sound
<1>4. passed(c, n, f) = IF c.dedicated THEN Done(on, TRUE) ELSE sd_card_sync(on, f)
  BY DEF passed
<1> HIDE DEF on
<1>5. CASE c.dedicated
  <2>1. passed(c, n, f).c = on /\ passed(c, n, f).ok = TRUE
    BY <1>4, <1>5 DEF Done
  <2>2. Ready(on)
    BY <1>1, <1>2, <1>3, <1>5 DEF Open, Ready, SameData, SameCard
  <2> QED
    BY <2>1, <2>2, <1>2
<1>6. CASE ~c.dedicated
  BY <1>2, <1>3, <1>4, <1>6, SyncRight, OpenSound DEF SameData, SameCard
<1> QED
  BY <1>5, <1>6

\* A transfer that breaks after some of its blocks is ended.
LEMMA BrokenRight ==
  ASSUME NEW c, NEW f, Sound(c)
  PROVE  LET o == broken(c, f)
         IN Ready(o.c) /\ o.ok = FALSE /\ SameData(c, o.c)
BY SyncRight DEF broken, Done

\* A card that is set up is in no transfer, or was given up.
LEMMA BeginRight ==
  ASSUME NEW c, NEW f, Off(c)
  PROVE  LET b == sd_card_begin(c, f)
         IN /\ Ready(b.c) /\ b.c.state = "idle" /\ b.ok \in BOOLEAN
            /\ b.c.dedicated = c.dedicated /\ b.c.data = c.data
            /\ b.c.usable = b.ok /\ Off(b.c)
<1> DEFINE ok == "command" \notin f
           new == [NewCard(c.dedicated, c.data) EXCEPT !.usable = ok, !.clash = c.clash,
                                                       !.held = stop(start(c)).held]
           bad == [new EXCEPT !.mode = c.mode, !.pos = c.pos, !.lost = c.mode # "idle"]
<1>1. c \in CardType /\ ~c.clash /\ c.held = 0
  BY DEF Off
<1>2. stop(start(c)).held = 0
  BY <1>1, BusTouched
<1>3. /\ new \in CardType /\ ~new.clash /\ new.held = 0 /\ new.state = "idle"
      /\ new.mode = "idle" /\ new.usable = ok /\ new.dedicated = c.dedicated
      /\ new.data = c.data
  <2> DEFINE n0 == NewCard(c.dedicated, c.data)
  <2>1. /\ n0 \in CardType /\ n0.state = "idle" /\ n0.mode = "idle"
        /\ n0.dedicated = c.dedicated /\ n0.data = c.data
    BY <1>1, SdAssumption DEF NewCard, CardType, Modes
  <2> HIDE DEF n0
  <2>2. ok \in BOOLEAN /\ c.clash \in BOOLEAN
    BY <1>1 DEF CardType
  <2> HIDE DEF ok
  <2>3. new = [n0 EXCEPT !.usable = ok, !.clash = c.clash, !.held = 0]
    BY <1>2 DEF n0
  <2> QED
    BY <1>1, <2>1, <2>2, <2>3 DEF CardType
<1>4. sd_card_begin(c, f) = Done(IF ok THEN new ELSE bad, ok)
  BY DEF sd_card_begin
<1> HIDE DEF new
<1>5. /\ bad \in CardType /\ ~bad.clash /\ bad.held = 0 /\ bad.state = "idle"
      /\ bad.mode = "idle" \/ bad.lost
      /\ bad.usable = ok /\ bad.dedicated = c.dedicated /\ bad.data = c.data
  BY <1>1, <1>3 DEF CardType, Modes
<1> HIDE DEF bad
<1>6. /\ sd_card_begin(c, f).ok = ok
      /\ sd_card_begin(c, f).c \in {new, bad}
  BY <1>4 DEF Done
<1> HIDE DEF ok
<1>7. ok \in BOOLEAN
  BY DEF ok
<1>8. \A d \in {new, bad} : Ready(d) /\ Off(d)
  BY <1>3, <1>5 DEF Ready, Sound, Off
<1> QED
  BY <1>3, <1>5, <1>6, <1>7, <1>8

\* The n sectors of a card from s on.
DataFrom(c, s, n) == [i \in 1 .. n |-> c.data[s + i - 1]]

\* What an open read transfer gives is what the card holds there.
LEMMA SentRight ==
  \A c : \A s \in Sector : \A n \in Nat \ {0} :
    s + n - 1 \in Sector /\ c.mode = "read" /\ c.pos = s
      => sent_by(c, n) = DataFrom(c, s, n)
<1> SUFFICES ASSUME NEW c, NEW s \in Sector, NEW n \in Nat \ {0}, s + n - 1 \in Sector,
                    c.mode = "read", c.pos = s
             PROVE  sent_by(c, n) = [i \in 1 .. n |-> c.data[s + i - 1]]
  BY DEF DataFrom
<1>1. \A i \in 1 .. n : c.pos + i - 1 \in Sector
  BY SdAssumption DEF Sector
<1> QED
  BY <1>1 DEF sent_by

\* A read of one sector on a shared bus.
LEMMA ReadOneRight ==
  ASSUME NEW c, NEW f, Ready(c), NEW s \in Sector
  PROVE  LET r == ReadOne(c, s, f)
         IN /\ Ready(r.c) /\ SameData(c, r.c) /\ r.ok \in BOOLEAN
            /\ RightRead(c, r, s, 1)
<1> DEFINE ended == sd_card_sync(c, f)
           begun == command(start(ended.c), f)
           at    == [begun.c EXCEPT !.mode = "read", !.pos = s]
           r == ReadOne(c, s, f)
<1>1. /\ Ready(ended.c) /\ ended.c.state = "idle" /\ SameData(c, ended.c)
      /\ ended.ok \in BOOLEAN
  BY SyncRight, ReadySound
<1>2. /\ begun.c \in CardType /\ SameData(ended.c, begun.c)
      /\ Ready(stop(begun.c)) /\ SameData(ended.c, stop(begun.c))
  BY <1>1, CommandRight, ReadySound
<1>3. CASE ~ended.ok
  <2>1. r = ended
    BY <1>3 DEF ReadOne
  <2> QED
    BY <2>1, <1>1, <1>3 DEF RightRead
<1>4. CASE ended.ok /\ (~begun.ok \/ "data" \in f)
  <2>1. r.c = stop(begun.c) /\ r.ok = FALSE
    BY <1>4 DEF ReadOne, Done
  <2> QED
    BY <2>1, <1>1, <1>2 DEF RightRead, SameData, SameCard
<1>5. CASE ended.ok /\ ~(~begun.ok \/ "data" \in f)
  <2>1. r.c = stop(begun.c) /\ r.ok = TRUE /\ r.got = sent_by(at, 1)
    BY <1>5 DEF ReadOne
  <2>2. at.mode = "read" /\ at.pos = s /\ at.data = begun.c.data
    <3> HIDE DEF begun
    <3> QED
      BY <1>2 DEF CardType
  <2>3. at.data = c.data
    BY <2>2, <1>1, <1>2 DEF SameData
  <2> HIDE DEF at
  <2>4. s + 1 - 1 \in Sector
    BY SdAssumption DEF Sector
  <2>5. sent_by(at, 1) = [i \in 1 .. 1 |-> at.data[s + i - 1]]
    <3>1. ASSUME NEW n, n = 1 PROVE sent_by(at, n) = [i \in 1 .. n |-> at.data[s + i - 1]]
      <4>1. n \in Nat \ {0} /\ s + n - 1 \in Sector
        BY <3>1, <2>4
      <4> QED
        BY <4>1, <2>2, SentRight DEF DataFrom
    <3> QED
      BY <3>1
  <2>6. r.got = [i \in 1 .. 1 |-> c.data[s + i - 1]]
    BY <2>1, <2>3, <2>5
  <2> HIDE DEF r
  <2>7. RightRead(c, r, s, 1)
    BY <2>6 DEF RightRead
  <2> QED
    BY <2>1, <2>7, <1>1, <1>2 DEF r, SameData, SameCard
<1> QED
  BY <1>3, <1>4, <1>5

\* Whatever goes wrong, a read that reports success gave what was asked for.
LEMMA ReadRight ==
  ASSUME NEW c, NEW f, Ready(c), NEW s \in Sector, NEW n \in 1 .. MaxCount,
         s + n - 1 \in Sector, NEW bad \in 1 .. n
  PROVE  LET r == sd_card_read(c, s, n, f, bad)
         IN /\ Ready(r.c) /\ SameData(c, r.c) /\ r.ok \in BOOLEAN
            /\ RightRead(c, r, s, n)
<1> DEFINE open == opened(c, "read", s, f)
           longer == [open.c EXCEPT !.pos = @ + n]
           some == [open.c EXCEPT !.pos = @ + bad - 1]
           on   == passed(longer, n, f)
           r == sd_card_read(c, s, n, f, bad)
<1>0. n \in Nat \ {0} /\ bad \in Nat /\ s \in Nat /\ bad <= n
  BY SdAssumption DEF Sector
<1>1. /\ open.ok \in BOOLEAN /\ SameData(c, open.c)
      /\ open.ok => Open(open.c, "read", s, s)
      /\ ~open.ok => Ready(open.c)
  BY OpenedRight
<1>2. CASE ~c.usable
  <2>1. r.c = c /\ r.ok = FALSE
    BY <1>2 DEF sd_card_read, Done
  <2> QED
    BY <2>1 DEF RightRead, SameData, SameCard
<1>3. CASE c.usable /\ single(c, n)
  <2>1. n = 1 /\ r = ReadOne(c, s, f)
    BY <1>3 DEF sd_card_read, single
  <2> QED
    BY <2>1, ReadOneRight
<1>4. CASE c.usable /\ ~single(c, n) /\ ~open.ok
  <2>1. r = open
    BY <1>4 DEF sd_card_read
  <2> QED
    BY <2>1, <1>1, <1>4 DEF RightRead
<1>5. CASE c.usable /\ ~single(c, n) /\ open.ok /\ "data" \in f
  <2>1. r = broken(some, f)
    BY <1>5 DEF sd_card_read
  <2>2. Open(open.c, "read", s, s)
    BY <1>1, <1>5
  <2>3. s + bad - 1 \in 0 .. LastSector + MaxCount + 1
    BY <1>0, SdAssumption DEF Sector
  <2> HIDE DEF open
  <2>4. Sound(some) /\ SameData(open.c, some)
    BY <2>2, <2>3 DEF Open, Sound, CardType, SameData, SameCard
  <2> HIDE DEF some
  <2>5. Ready(r.c) /\ r.ok = FALSE /\ SameData(some, r.c)
    BY <2>1, <2>4, BrokenRight
  <2> QED
    BY <2>4, <2>5, <1>1 DEF RightRead, SameData, SameCard
<1>6. CASE c.usable /\ ~single(c, n) /\ open.ok /\ "data" \notin f
  <2>1. r.c = on.c /\ r.ok = on.ok /\ r.got = sent_by(open.c, n)
    BY <1>6 DEF sd_card_read
  <2>2. Open(open.c, "read", s, s)
    BY <1>1, <1>6
  <2>3. s + n \in 0 .. LastSector + MaxCount + 1
    BY <1>0, SdAssumption DEF Sector
  <2> HIDE DEF open
  <2>4. Open(longer, "read", s, s + n) /\ SameData(open.c, longer)
    BY <2>2, <2>3 DEF Open, Sound, CardType, SameData, SameCard
  <2> HIDE DEF longer
  <2>5. Ready(on.c) /\ on.ok \in BOOLEAN /\ SameData(longer, on.c)
    BY <2>4, <1>0, PassedRight
  <2>6. sent_by(open.c, n) = [i \in 1 .. n |-> open.c.data[s + i - 1]]
    <3>1. open.c.mode = "read" /\ open.c.pos = s
      BY <2>2 DEF Open
    <3>2. sent_by(open.c, n) = DataFrom(open.c, s, n)
      BY <3>1, <1>0, SentRight
    <3> QED
      BY <3>2 DEF DataFrom
  <2> QED
    BY <2>1, <2>4, <2>5, <2>6, <1>1 DEF RightRead, SameData, SameCard
<1> QED
  BY <1>1, <1>2, <1>3, <1>4, <1>5, <1>6

\* d holds the first n values of vals from sector s on, and the rest as c does.
Stored(c, d, s, vals, n) ==
  \A t \in Sector : d.data[t] = IF t \in s .. s + n - 1 THEN vals[t - s + 1] ELSE c.data[t]

\* The values of a write are as many as its sectors.
LEMMA ValuesMany ==
  ASSUME NEW n \in Nat, NEW vals \in [1 .. n -> Datum]
  PROVE  vals \in Seq(Datum) /\ Len(vals) = n
<1>1. vals \in Seq(Datum)
  OBVIOUS
<1>2. DOMAIN vals = 1 .. n
  OBVIOUS
<1> QED
  BY <1>1, <1>2, LenProperties

\* The card stores what it takes where its transfer is.
LEMMA TakenRight ==
  ASSUME NEW c, c \in CardType, c.mode = "write", NEW s \in Sector, c.pos = s,
         NEW k \in 1 .. MaxCount, s + k - 1 \in Sector, NEW vals \in [1 .. k -> Datum],
         NEW n \in 0 .. k
  PROVE  LET d == taken_by(c, vals, n)
         IN /\ d \in CardType /\ SameCard(c, d) /\ Stored(c, d, s, vals, n)
            /\ d.pos = s + n /\ d.cur = c.cur /\ d.state = c.state /\ d.mode = c.mode
            /\ d.lost = c.lost /\ d.clash = c.clash /\ d.held = c.held
<1> DEFINE new == [t \in Sector |-> IF c.mode = "write" /\ t \in c.pos .. c.pos + n - 1
                                    THEN vals[t - c.pos + 1] ELSE c.data[t]]
           d == taken_by(c, vals, n)
<1>0. s \in Nat /\ k \in Nat /\ n \in Nat /\ n <= k /\ LastSector \in Nat /\ MaxCount \in Nat
      /\ s + k - 1 <= LastSector
  BY SdAssumption DEF Sector
<1>1. d = [c EXCEPT !.data = new, !.pos = @ + n]
  BY DEF taken_by
<1>2. \A t \in Sector : t \in s .. s + n - 1 => t - s + 1 \in 1 .. k
  BY <1>0 DEF Sector
<1>3. c.data \in [Sector -> Datum]
  BY DEF CardType
<1>4. new \in [Sector -> Datum]
  BY <1>2, <1>3
<1>5. \A t \in Sector : new[t] = IF t \in s .. s + n - 1 THEN vals[t - s + 1] ELSE c.data[t]
  OBVIOUS
<1> HIDE DEF new
<1>6. s + n \in 0 .. LastSector + MaxCount + 1
  BY <1>0
<1>7. /\ d \in CardType /\ SameCard(c, d) /\ d.data = new
      /\ d.pos = s + n /\ d.cur = c.cur /\ d.state = c.state /\ d.mode = c.mode
      /\ d.lost = c.lost /\ d.clash = c.clash /\ d.held = c.held
  BY <1>1, <1>4, <1>6 DEF CardType, SameCard
<1> QED
  BY <1>5, <1>7 DEF Stored

\* Nothing was stored, some of the values, or all of them.
LEMMA StoredSome ==
  ASSUME NEW c, NEW r, NEW s \in Sector, NEW k \in 1 .. MaxCount, NEW vals \in [1 .. k -> Datum],
         NEW n \in 0 .. k, Stored(c, r.c, s, vals, n), ~r.ok \/ n = k
  PROVE  RightWrite(c, r, s, vals)
<1>0. s \in Nat /\ k \in Nat /\ n \in Nat /\ n <= k
  BY SdAssumption DEF Sector
<1>1. Len(vals) = k
  BY <1>0, ValuesMany
<1> SUFFICES ASSUME NEW t \in Sector
             PROVE  LET meant == IF t \in s .. s + k - 1 THEN vals[t - s + 1] ELSE c.data[t]
                    IN r.c.data[t] = meant \/ (~r.ok /\ r.c.data[t] = c.data[t])
  BY <1>1 DEF RightWrite
<1>2. t \in Nat
  BY SdAssumption DEF Sector
<1>3. r.c.data[t] = IF t \in s .. s + n - 1 THEN vals[t - s + 1] ELSE c.data[t]
  BY DEF Stored
<1>4. CASE n = k
  BY <1>3, <1>4
<1>5. CASE ~r.ok
  <2>1. CASE t \in s .. s + n - 1
    <3>1. t \in s .. s + k - 1
      BY <2>1, <1>0, <1>2
    <3> QED
      BY <3>1, <2>1, <1>3
  <2>2. CASE t \notin s .. s + n - 1
    BY <2>2, <1>3, <1>5
  <2> QED
    BY <2>1, <2>2
<1> QED
  BY <1>4, <1>5

\* A write that left the card's contents alone.
LEMMA StoredNothing ==
  ASSUME NEW c, NEW r, NEW s \in Sector, NEW k \in 1 .. MaxCount, NEW vals \in [1 .. k -> Datum],
         r.c.data = c.data, ~r.ok
  PROVE  RightWrite(c, r, s, vals)
<1>0. s \in Nat /\ 0 \in 0 .. k
  BY SdAssumption DEF Sector
<1>1. \A t \in Sector : t \notin s .. s + 0 - 1
  BY <1>0 DEF Sector
<1>2. Stored(c, r.c, s, vals, 0)
  BY <1>1 DEF Stored
<1> QED
  BY <1>0, <1>2, StoredSome

\* A write of one sector on a shared bus.
LEMMA WriteOneRight ==
  ASSUME NEW c, NEW f, Ready(c), NEW s \in Sector, NEW vals \in [1 .. 1 -> Datum]
  PROVE  LET r == WriteOne(c, s, vals, f)
         IN Ready(r.c) /\ SameCard(c, r.c) /\ r.ok \in BOOLEAN /\ RightWrite(c, r, s, vals)
<1> DEFINE ended == sd_card_sync(c, f)
           begun == command(start(ended.c), f)
           at    == [begun.c EXCEPT !.mode = "write", !.pos = s]
           took  == taken_by(at, vals, 1)
           wrote == [took EXCEPT !.mode = "idle"]
           r == WriteOne(c, s, vals, f)
<1>0. 1 \in 1 .. MaxCount /\ s + 1 - 1 \in Sector /\ s \in 0 .. LastSector + MaxCount + 1
  BY SdAssumption DEF Sector
<1>1. /\ Ready(ended.c) /\ ended.c.state = "idle" /\ SameData(c, ended.c)
      /\ ended.ok \in BOOLEAN
  BY SyncRight, ReadySound
<1>2. /\ begun.c \in CardType /\ SameData(ended.c, begun.c)
      /\ begun.c.state = "idle" /\ begun.c.held = 1 /\ ~begun.c.clash
      /\ begun.ok \in BOOLEAN /\ (begun.ok => ~begun.c.lost)
      /\ Ready(stop(begun.c)) /\ SameData(ended.c, stop(begun.c))
  BY <1>1, CommandRight, ReadySound
<1>3. CASE ~ended.ok
  <2>1. r = ended
    BY <1>3 DEF WriteOne
  <2>2. RightWrite(c, r, s, vals)
    <3> HIDE DEF r
    <3> QED
      BY <2>1, <1>0, <1>1, <1>3, StoredNothing DEF SameData
  <2> QED
    BY <2>1, <2>2, <1>1 DEF SameData
<1>4. CASE ended.ok /\ (~begun.ok \/ "data" \in f)
  <2>1. r.c = stop(begun.c) /\ r.ok = FALSE
    BY <1>4 DEF WriteOne, Done
  <2>2. RightWrite(c, r, s, vals)
    <3> HIDE DEF r, ended, begun
    <3> QED
      BY <2>1, <1>0, <1>1, <1>2, StoredNothing DEF SameData
  <2> QED
    BY <2>1, <2>2, <1>1, <1>2 DEF SameData, SameCard
<1>5. CASE ended.ok /\ ~(~begun.ok \/ "data" \in f)
  <2>1. r = Done(stop(wrote), "busy" \notin f)
    BY <1>5 DEF WriteOne
  <2>2. /\ at \in CardType /\ at.mode = "write" /\ at.pos = s /\ at.held = 1 /\ ~at.clash
        /\ at.state = "idle" /\ ~at.lost /\ SameData(begun.c, at)
    <3>1. ~begun.c.lost
      BY <1>2, <1>5
    <3> HIDE DEF begun
    <3> QED
      BY <3>1, <1>0, <1>2 DEF CardType, Modes, SameData, SameCard
  <2>3. SameData(c, at)
    BY <2>2, <1>1, <1>2 DEF SameData, SameCard
  <2> HIDE DEF at
  <2>4. /\ took \in CardType /\ SameCard(at, took) /\ Stored(at, took, s, vals, 1)
        /\ took.state = "idle" /\ ~took.lost /\ ~took.clash /\ took.held = 1
    <3>1. ASSUME NEW n, n = 1, s + n - 1 \in Sector, n \in 1 .. MaxCount, vals \in [1 .. n -> Datum]
          PROVE  LET d == taken_by(at, vals, n)
                 IN /\ d \in CardType /\ SameCard(at, d) /\ Stored(at, d, s, vals, n)
                    /\ d.state = "idle" /\ ~d.lost /\ ~d.clash /\ d.held = 1
      <4>1. n \in 0 .. n
        BY <3>1
      <4> DEFINE d == taken_by(at, vals, n)
      <4>2. /\ d \in CardType /\ SameCard(at, d) /\ Stored(at, d, s, vals, n)
            /\ d.state = at.state /\ d.lost = at.lost /\ d.clash = at.clash /\ d.held = at.held
        <5>1. at \in CardType /\ at.mode = "write" /\ at.pos = s
          BY <2>2
        <5>2. n \in 1 .. MaxCount /\ s + n - 1 \in Sector /\ vals \in [1 .. n -> Datum]
          BY <3>1
        <5> QED
          BY <5>1, <5>2, <4>1, TakenRight
      <4> HIDE DEF d
      <4> QED
        BY <3>1, <4>2, <2>2 DEF d
    <3> QED
      BY <3>1, <1>0
  <2> HIDE DEF took
  <2>5. /\ wrote \in CardType /\ SameCard(at, wrote) /\ wrote.data = took.data
        /\ wrote.state = "idle" /\ wrote.mode = "idle" /\ ~wrote.clash /\ wrote.held = 1
    BY <2>4 DEF CardType, Modes, SameCard
  <2> HIDE DEF wrote
  <2>6. /\ stop(wrote) \in CardType /\ SameCard(at, stop(wrote)) /\ stop(wrote).data = took.data
        /\ stop(wrote).state = "idle" /\ stop(wrote).mode = "idle" /\ ~stop(wrote).clash
        /\ stop(wrote).held = 0
    BY <2>5, BusTouched DEF SameCard
  <2>7. Ready(stop(wrote))
    BY <2>6 DEF Ready, Sound
  <2>8. r.c = stop(wrote) /\ r.ok = ("busy" \notin f)
    BY <2>1 DEF Done
  <2> HIDE DEF r
  <2>9. Stored(c, r.c, s, vals, 1)
    BY <2>3, <2>4, <2>6, <2>8 DEF Stored, SameData
  <2>10. RightWrite(c, r, s, vals)
    <3>1. ASSUME NEW n, n = 1, n \in 1 .. MaxCount, vals \in [1 .. n -> Datum], Stored(c, r.c, s, vals, n)
          PROVE  RightWrite(c, r, s, vals)
      <4>1. n \in 0 .. n
        BY <3>1
      <4> QED
        BY <3>1, <4>1, StoredSome
    <3> QED
      BY <3>1, <1>0, <2>9
  <2> QED
    BY <2>3, <2>6, <2>7, <2>8, <2>10 DEF r, SameData, SameCard
<1> QED
  BY <1>1, <1>2, <1>3, <1>4, <1>5

\* Whatever goes wrong, a write stores what it was given or leaves the sector,
\* all of it if it reports success, and no other sector changes.
LEMMA WriteManyRight ==
  ASSUME NEW c, NEW f, Ready(c), NEW s \in Sector, NEW k \in 1 .. MaxCount,
         s + k - 1 \in Sector, NEW vals \in [1 .. k -> Datum], NEW bad \in 1 .. k
  PROVE  LET r == sd_card_write(c, s, vals, f, bad)
         IN Ready(r.c) /\ SameCard(c, r.c) /\ r.ok \in BOOLEAN /\ RightWrite(c, r, s, vals)
<1> DEFINE open == opened(c, "write", s, f)
           some == taken_by(open.c, vals, bad - 1)
           whole == taken_by(open.c, vals, k)
           on == passed(whole, k, f)
           r == sd_card_write(c, s, vals, f, bad)
<1>0. /\ k \in Nat /\ s \in Nat /\ bad - 1 \in 0 .. k /\ k \in 0 .. k /\ Len(vals) = k
      /\ bad - 1 \in Nat
  BY SdAssumption, ValuesMany DEF Sector
<1>1. /\ open.ok \in BOOLEAN /\ SameData(c, open.c)
      /\ open.ok => Open(open.c, "write", s, s)
      /\ ~open.ok => Ready(open.c)
  BY OpenedRight
<1>2. CASE ~c.usable
  <2>1. r.c = c /\ r.ok = FALSE
    BY <1>2 DEF sd_card_write, Done
  <2> HIDE DEF r
  <2>2. RightWrite(c, r, s, vals)
    BY <2>1, StoredNothing
  <2> QED
    BY <2>1, <2>2 DEF r, SameCard
<1>3. CASE c.usable /\ single(c, k)
  <2>1. k = 1 /\ r = WriteOne(c, s, vals, f)
    BY <1>0, <1>3 DEF sd_card_write, single
  <2> QED
    BY <2>1, WriteOneRight
<1>4. CASE c.usable /\ ~single(c, k) /\ ~open.ok
  <2>1. r = open
    BY <1>0, <1>4 DEF sd_card_write
  <2> HIDE DEF r
  <2>2. RightWrite(c, r, s, vals)
    BY <2>1, <1>1, <1>4, StoredNothing DEF SameData
  <2> QED
    BY <2>1, <2>2, <1>1, <1>4 DEF r, SameData
<1>5. CASE c.usable /\ ~single(c, k) /\ open.ok
  <2>1. Open(open.c, "write", s, s) /\ SameData(c, open.c)
    BY <1>1, <1>5
  <2>2. ASSUME NEW n \in 0 .. k
        PROVE  LET d == taken_by(open.c, vals, n)
               IN /\ Open(d, "write", s, s + n) /\ SameCard(c, d) /\ Stored(c, d, s, vals, n)
    <3> HIDE DEF open
    <3> DEFINE d == taken_by(open.c, vals, n)
    <3>1. /\ d \in CardType /\ SameCard(open.c, d) /\ Stored(open.c, d, s, vals, n)
          /\ d.pos = s + n /\ d.cur = open.c.cur /\ d.state = open.c.state
          /\ d.mode = open.c.mode /\ d.lost = open.c.lost /\ d.clash = open.c.clash
          /\ d.held = open.c.held
      BY <2>1, TakenRight DEF Open, Sound
    <3> HIDE DEF d
    <3>2. Open(d, "write", s, s + n)
      BY <3>1, <2>1 DEF Open, Sound
    <3>3. SameCard(c, d) /\ Stored(c, d, s, vals, n)
      BY <3>1, <2>1 DEF SameCard, SameData, Stored
    <3> QED
      BY <3>2, <3>3 DEF d
  <2>3. Open(some, "write", s, s + (bad - 1)) /\ SameCard(c, some) /\ Stored(c, some, s, vals, bad - 1)
    BY <2>2, <1>0
  <2>4. Open(whole, "write", s, s + k) /\ SameCard(c, whole) /\ Stored(c, whole, s, vals, k)
    BY <2>2, <1>0
  <2>5. CASE "busy" \in f
    <3> DEFINE e == [some EXCEPT !.state = "idle", !.lost = TRUE]
    <3>1. r = Done(stop(e), FALSE)
      BY <2>5, <1>0, <1>5 DEF sd_card_write
    <3> HIDE DEF some
    <3>2. /\ e \in CardType /\ e.state = "idle" /\ e.lost /\ e.held = 1 /\ ~e.clash
          /\ SameData(some, e)
      BY <2>3 DEF Open, Sound, CardType, Modes, SameData, SameCard
    <3> HIDE DEF e
    <3>3. Ready(stop(e)) /\ SameData(some, stop(e))
      BY <3>2, BusTouched DEF Ready, Sound, SameData, SameCard
    <3>4. r.c = stop(e) /\ r.ok = FALSE
      BY <3>1 DEF Done
    <3> HIDE DEF r
    <3>5. Stored(c, r.c, s, vals, bad - 1)
      BY <3>3, <3>4, <2>3 DEF Stored, SameData
    <3>6. RightWrite(c, r, s, vals)
      BY <3>4, <3>5, <1>0, StoredSome
    <3> QED
      BY <3>3, <3>4, <3>6, <2>3 DEF r, SameData, SameCard
  <2>6. CASE "busy" \notin f /\ "data" \in f
    <3>1. r = broken(some, f)
      BY <2>6, <1>0, <1>5 DEF sd_card_write
    <3> HIDE DEF some, r
    <3>2. Ready(r.c) /\ r.ok = FALSE /\ SameData(some, r.c)
      BY <3>1, <2>3, BrokenRight, OpenSound
    <3>3. Stored(c, r.c, s, vals, bad - 1)
      BY <3>2, <2>3 DEF Stored, SameData
    <3>4. RightWrite(c, r, s, vals)
      BY <3>2, <3>3, <1>0, StoredSome
    <3> QED
      BY <3>2, <3>4, <2>3 DEF r, SameData, SameCard
  <2>7. CASE "busy" \notin f /\ "data" \notin f
    <3>1. r = on
      BY <2>7, <1>0, <1>5 DEF sd_card_write
    <3> HIDE DEF whole, r
    <3>2. Ready(r.c) /\ r.ok \in BOOLEAN /\ SameData(whole, r.c)
      BY <3>1, <2>4, <1>0, PassedRight
    <3>3. Stored(c, r.c, s, vals, k)
      BY <3>2, <2>4 DEF Stored, SameData
    <3>4. RightWrite(c, r, s, vals)
      BY <3>3, <1>0, StoredSome
    <3> QED
      BY <3>2, <3>4, <2>4 DEF r, SameData, SameCard
  <2> QED
    BY <2>5, <2>6, <2>7
<1> QED
  BY <1>1, <1>2, <1>3, <1>4, <1>5

\* The registers are read outside of transfers.
LEMMA RegisterRight ==
  ASSUME NEW c, NEW f, Ready(c)
  PROVE  LET r == read_register(c, f)
         IN Ready(r.c) /\ SameData(c, r.c)
<1> DEFINE ended == sd_card_sync(c, f)
           begun == command(start(ended.c), f)
           r == read_register(c, f)
<1>1. /\ Ready(ended.c) /\ ended.c.state = "idle" /\ SameData(c, ended.c)
      /\ ended.ok \in BOOLEAN
  BY SyncRight, ReadySound
<1>2. /\ Ready(stop(begun.c)) /\ stop(begun.c).state = "idle" /\ SameData(ended.c, stop(begun.c))
  BY <1>1, CommandRight, ReadySound
<1>3. r.c \in {c, ended.c, stop(begun.c)}
  <2>1. CASE ~c.usable
    BY <2>1 DEF read_register, Done
  <2>2. CASE c.usable /\ ~ended.ok
    BY <2>2, <1>1 DEF read_register
  <2>3. CASE c.usable /\ ended.ok
    BY <2>3, <1>2 DEF read_register, Done
  <2> QED
    BY <2>1, <2>2, <2>3, <1>1
<1> QED
  BY <1>1, <1>2, <1>3 DEF SameData, SameCard

\* The second card is set up again after a failed read, and asked once more.
LEMMA Sd2ReadRight ==
  ASSUME NEW c, NEW f, NEW g, Ready(c), ~c.dedicated, NEW s \in Sector, NEW n \in 1 .. MaxCount,
         s + n - 1 \in Sector, NEW bad \in 1 .. n
  PROVE  LET r == sd2_read(c, s, n, f, bad, g)
         IN Ready(r.c) /\ r.c.dedicated = c.dedicated /\ r.ok \in BOOLEAN /\ RightRead(c, r, s, n)
<1> DEFINE r1 == sd_card_read(c, s, n, f, bad)
           new == recover(r1, g)
           r2 == sd_card_read(new.c, s, n, g, 1)
           r == sd2_read(c, s, n, f, bad, g)
<1>1. Ready(r1.c) /\ SameData(c, r1.c) /\ r1.ok \in BOOLEAN /\ RightRead(c, r1, s, n)
  BY ReadRight
<1>2. r1.c.dedicated = c.dedicated /\ r1.c.data = c.data /\ Off(r1.c)
  BY <1>1, SharedIdle DEF SameData, SameCard
<1>3. /\ Ready(new.c) /\ new.ok \in BOOLEAN /\ new.c.dedicated = c.dedicated
      /\ new.c.data = c.data
  BY <1>2, BeginRight DEF recover
<1>4. 1 \in 1 .. n
  BY SdAssumption
<1> HIDE DEF r1, new
<1>5. Ready(r2.c) /\ SameData(new.c, r2.c) /\ r2.ok \in BOOLEAN /\ RightRead(new.c, r2, s, n)
  BY <1>3, <1>4, ReadRight
<1> HIDE DEF r2
<1>6. r = IF r1.ok THEN r1 ELSE IF ~new.ok THEN new ELSE r2
  BY DEF sd2_read, r1, new, r2
<1> HIDE DEF r
<1>7. CASE r1.ok
  BY <1>1, <1>2, <1>6, <1>7 DEF r
<1>8. CASE ~r1.ok /\ ~new.ok
  BY <1>3, <1>6, <1>8 DEF r, RightRead
<1>9. CASE ~r1.ok /\ new.ok
  BY <1>3, <1>5, <1>6, <1>9 DEF r, RightRead, SameData, SameCard
<1> QED
  BY <1>1, <1>3, <1>7, <1>8, <1>9

\* The same for a write: what the first try stored is stored again.
LEMMA Sd2WriteRight ==
  ASSUME NEW c, NEW f, NEW g, Ready(c), ~c.dedicated, NEW s \in Sector, NEW k \in 1 .. MaxCount,
         s + k - 1 \in Sector, NEW vals \in [1 .. k -> Datum], NEW bad \in 1 .. k
  PROVE  LET r == sd2_write(c, s, vals, f, bad, g)
         IN Ready(r.c) /\ r.c.dedicated = c.dedicated /\ r.ok \in BOOLEAN
            /\ RightWrite(c, r, s, vals)
<1> DEFINE r1 == sd_card_write(c, s, vals, f, bad)
           new == recover(r1, g)
           r2 == sd_card_write(new.c, s, vals, g, 1)
           r == sd2_write(c, s, vals, f, bad, g)
<1>1. Ready(r1.c) /\ SameCard(c, r1.c) /\ r1.ok \in BOOLEAN /\ RightWrite(c, r1, s, vals)
  BY WriteManyRight
<1>2. r1.c.dedicated = c.dedicated /\ Off(r1.c)
  BY <1>1, SharedIdle DEF SameCard
<1>3. /\ Ready(new.c) /\ new.ok \in BOOLEAN /\ new.c.dedicated = c.dedicated
      /\ new.c.data = r1.c.data
  BY <1>2, BeginRight DEF recover
<1>4. 1 \in 1 .. k
  BY SdAssumption
<1> HIDE DEF r1, new
<1>5. Ready(r2.c) /\ SameCard(new.c, r2.c) /\ r2.ok \in BOOLEAN /\ RightWrite(new.c, r2, s, vals)
  BY <1>3, <1>4, WriteManyRight
<1> HIDE DEF r2
<1>6. r = IF r1.ok THEN r1 ELSE IF ~new.ok THEN new ELSE r2
  BY DEF sd2_write, r1, new, r2
<1> HIDE DEF r
<1>7. CASE r1.ok
  BY <1>1, <1>2, <1>6, <1>7 DEF r
<1>8. CASE ~r1.ok /\ ~new.ok
  <2>1. RightWrite(c, new, s, vals)
    BY <1>1, <1>3, <1>8 DEF RightWrite
  <2> QED
    BY <2>1, <1>3, <1>6, <1>8 DEF r
<1>9. CASE ~r1.ok /\ new.ok
  <2>1. RightWrite(c, r2, s, vals)
    BY <1>1, <1>3, <1>5 DEF RightWrite
  <2> QED
    BY <2>1, <1>3, <1>5, <1>6, <1>9 DEF r, SameCard
<1> QED
  BY <1>1, <1>3, <1>7, <1>8, <1>9

-----------------------------------------------------------------------------
(* The two tasks.  The properties rest on which flags a place in APP has     *)
(* seen and on the transfers having been ended where the card changes hands. *)

\* Everything but the cards.
MscTypes ==
  /\ app \in {"boot", "loop", "expose", "ejected", "run"}
  /\ has_sd \in BOOLEAN /\ right \in BOOLEAN
  /\ scratch \in {0} \cup MscCards /\ card \in {1, 2}
  /\ expose_msc \in BOOLEAN /\ failed \in BOOLEAN /\ unit_ready \in BOOLEAN
  /\ ejected \in BOOLEAN /\ host_gone \in BOOLEAN
  /\ usbd \in {"free", "touch"} /\ why \in Reboots

\* SD1 has a bus of its own, SD2 shares one; at boot SD1 has no driver yet.
Cards ==
  /\ sd \in [{1, 2} -> CardType]
  /\ sd[1].dedicated /\ ~sd[2].dedicated
  /\ Ready(sd[2])
  /\ IF app = "boot" THEN Off(sd[1]) ELSE Ready(sd[1])

\* Who may use a card, by where APP is.
Owners ==
  /\ app = "boot" => ~expose_msc /\ ~ejected /\ ~failed /\ usbd = "free"
  /\ app # "boot" => has_sd
  /\ app \in {"ejected", "run"} => ~expose_msc
  /\ app = "run" => ~ejected
  /\ expose_msc => ~ejected
  /\ ejected /\ card = 1 => sd[1].state = "idle"

MscInv == MscTypes /\ Cards /\ Owners /\ SectorsRight /\ IdleAtReboot

\* The sectors of a call are on the card.
LEMMA RangeRight ==
  ASSUME NEW r \in Ranges
  PROVE  r[1] \in Sector /\ r[2] \in 1 .. MaxCount /\ r[1] + r[2] - 1 \in Sector /\ 1 \in 1 .. r[2]
BY SdAssumption DEF Ranges, Sector

\* The start of the MCU: nothing is mounted, SD1 has its bus.
LEMMA MscStarts == MscInit => MscInv
<1> SUFFICES ASSUME MscInit PROVE MscInv
  OBVIOUS
<1>1. /\ First \in [Sector -> Datum] /\ 0 \in 0 .. LastSector + MaxCount + 1
  BY SdAssumption, MscAssumption DEF Sector
<1>2. ASSUME NEW b \in BOOLEAN
      PROVE  /\ NewCard(b, First) \in CardType /\ Off(NewCard(b, First)) /\ Ready(NewCard(b, First))
             /\ NewCard(b, First).dedicated = b /\ NewCard(b, First).mode = "idle"
  BY <1>1 DEF NewCard, CardType, Modes, Off, Ready, Sound
<1>3. sd[1] = NewCard(TRUE, First) /\ sd[2] = NewCard(FALSE, First)
  <2>1. (1 = 1) = TRUE /\ (2 = 1) = FALSE
    OBVIOUS
  <2>2. sd[1] = NewCard(1 = 1, First) /\ sd[2] = NewCard(2 = 1, First)
    BY DEF MscInit
  <2> QED
    BY <2>1, <2>2, Zenon
<1>4. sd \in [{1, 2} -> CardType]
  BY <1>2 DEF MscInit
<1>5. Cards
  BY <1>2, <1>3, <1>4 DEF Cards, MscInit
<1>6. IdleAtReboot
  BY <1>2, <1>3 DEF IdleAtReboot, CardIdle
<1> QED
  BY <1>5, <1>6, MscAssumption DEF MscInit, MscInv, MscTypes, Owners, SectorsRight, Reboots

\* A call of the driver on one of the cards.
LEMMA CardUsed ==
  ASSUME Cards, app # "boot", app' # "boot", NEW i \in {1, 2}, NEW d, Ready(d),
         d.dedicated = sd[i].dedicated, sd' = [sd EXCEPT ![i] = d]
  PROVE  Cards' /\ sd'[i] = d /\ \A j \in {1, 2} : j # i => sd'[j] = sd[j]
<1>1. d \in CardType
  BY DEF Ready, Sound
<1>2. sd'[i] = d /\ (\A j \in {1, 2} : j # i => sd'[j] = sd[j]) /\ sd' \in [{1, 2} -> CardType]
  BY <1>1 DEF Cards
<1>3. (i = 1 /\ sd'[1] = d /\ sd'[2] = sd[2]) \/ (i = 2 /\ sd'[2] = d /\ sd'[1] = sd[1])
  BY <1>2
<1> QED
  BY <1>2, <1>3 DEF Cards

\* The MCU restarts, the cards stay as they are.
LEMMA Restarts ==
  ASSUME MscTypes, NEW cards \in [{1, 2} -> CardType], NEW w \in Reboots, Reboot(w, cards),
         cards[1].dedicated, ~cards[1].clash, Ready(cards[2]), ~cards[2].dedicated,
         cards[1].mode = "idle" \/ cards[1].lost \/ w \in {"hang", "eject2", "failed"},
         right' = right, scratch' \in {0} \cup MscCards, SectorsRight
  PROVE  MscInv'
<1>1. ASSUME NEW c \in CardType
      PROVE  LET d == Restarted(c)
             IN /\ d \in CardType /\ d.state = "idle" /\ d.held = 0 /\ d.mode = c.mode
                /\ d.lost = c.lost /\ d.clash = c.clash /\ d.dedicated = c.dedicated
  <2>1. 0 \in 0 .. LastSector + MaxCount + 1
    BY SdAssumption
  <2> DEFINE d == Restarted(c)
  <2>2. d = [c EXCEPT !.usable = FALSE, !.state = "idle", !.cur = 0, !.held = 0]
    BY DEF Restarted
  <2> HIDE DEF d
  <2>3. d \in CardType
    <3>1. d = [usable |-> FALSE, dedicated |-> c.dedicated, state |-> "idle", cur |-> 0,
               mode |-> c.mode, pos |-> c.pos, lost |-> c.lost, clash |-> c.clash,
               held |-> 0, data |-> c.data]
      BY <2>2 DEF CardType
    <3>2. /\ c.dedicated \in BOOLEAN /\ c.mode \in Modes /\ c.lost \in BOOLEAN
          /\ c.clash \in BOOLEAN /\ c.data \in [Sector -> Datum]
          /\ c.pos \in 0 .. LastSector + MaxCount + 1
      BY DEF CardType
    <3> QED
      BY <2>1, <3>1, <3>2 DEF CardType, Modes
  <2>4. /\ d.state = "idle" /\ d.held = 0 /\ d.mode = c.mode
        /\ d.lost = c.lost /\ d.clash = c.clash /\ d.dedicated = c.dedicated
    BY <2>2 DEF CardType
  <2> QED
    BY <2>3, <2>4 DEF d
<1>2. sd' = [i \in {1, 2} |-> Restarted(cards[i])] /\ app' = "boot"
  BY DEF Reboot
<1>3. cards[1] \in CardType /\ cards[2] \in CardType
  OBVIOUS
<1>4. /\ sd' \in [{1, 2} -> CardType] /\ Off(sd'[1]) /\ sd'[1].dedicated
      /\ sd'[1].mode = cards[1].mode /\ sd'[1].lost = cards[1].lost
      /\ ~sd'[2].dedicated
  BY <1>1, <1>2, <1>3 DEF Off
<1>5. Ready(sd'[2])
  <2>1. cards[2].state = "idle" /\ (cards[2].mode = "idle" \/ cards[2].lost) /\ ~cards[2].clash
    BY DEF Ready, Sound
  <2> QED
    BY <2>1, <1>1, <1>2, <1>3 DEF Ready, Sound
<1>6. Cards'
  BY <1>2, <1>4, <1>5 DEF Cards
<1>7. IdleAtReboot'
  BY <1>4 DEF IdleAtReboot, CardIdle, Reboot
<1> QED
  BY <1>6, <1>7 DEF MscInv, MscTypes, Owners, SectorsRight, Reboot

\* The boot core is read over a new driver.
LEMMA LoadedRight ==
  ASSUME NEW c, Off(c), NEW r \in Ranges
  PROVE  Ready(LoadedFrom(c, r)) /\ LoadedFrom(c, r).dedicated = c.dedicated
<1>1. Ready(sd_card_begin(c, {}).c) /\ sd_card_begin(c, {}).c.dedicated = c.dedicated
  BY BeginRight
<1> QED
  BY <1>1, RangeRight, ReadRight DEF LoadedFrom, SameData, SameCard

\* The three ways the start goes on.
LEMMA BootKeeps ==
  ASSUME MscInv, NoCard \/ SetupNormal \/ msc_start
  PROVE  MscInv'
<1>1. MscTypes /\ Cards /\ Owners /\ SectorsRight /\ IdleAtReboot
  BY DEF MscInv
<1>2. app = "boot" /\ Off(sd[1]) /\ sd \in [{1, 2} -> CardType] /\ sd[1].dedicated
      /\ Ready(sd[2]) /\ ~sd[2].dedicated
  BY <1>1 DEF Cards, NoCard, SetupNormal, msc_start
<1>3. CASE NoCard
  <2> DEFINE d == sd_card_begin(sd[1], {"command"}).c
             cards == [sd EXCEPT ![1] = d]
  <2>1. Ready(d) /\ d.state = "idle" /\ d.dedicated
    BY <1>2, BeginRight
  <2> HIDE DEF d
  <2>2. /\ d \in CardType /\ (d.mode = "idle" \/ d.lost) /\ ~d.clash
    BY <2>1 DEF Ready, Sound
  <2>3. /\ cards \in [{1, 2} -> CardType] /\ cards[1] = d /\ cards[2] = sd[2]
    BY <1>2, <2>2
  <2>4. Reboot("halt", cards) /\ scratch' = 0 /\ right' = right
    BY <1>3 DEF NoCard, d
  <2> HIDE DEF cards
  <2> QED
    BY <1>1, <1>2, <2>1, <2>2, <2>3, <2>4, Restarts DEF Reboots
<1>4. CASE SetupNormal
  <2>1. PICK r \in Ranges : sd' = [sd EXCEPT ![1] = LoadedFrom(sd[1], r)]
    BY <1>4 DEF SetupNormal
  <2> DEFINE d == LoadedFrom(sd[1], r)
  <2>2. Ready(d) /\ d.dedicated
    BY <1>2, LoadedRight
  <2> HIDE DEF d
  <2>3. d \in CardType
    BY <2>2 DEF Ready, Sound
  <2>4. sd' \in [{1, 2} -> CardType] /\ sd'[1] = d /\ sd'[2] = sd[2]
    BY <1>2, <2>1, <2>3 DEF d
  <2>5. Cards'
    BY <2>2, <2>4, <1>2, <1>4 DEF Cards, SetupNormal
  <2> QED
    BY <2>5, <1>1, <1>4 DEF SetupNormal, mscFlags, MscInv, MscTypes, Reboots, Owners, SectorsRight, IdleAtReboot
<1>5. CASE msc_start
  <2>1. PICK r \in Ranges, f \in SUBSET {"command", "data"} :
          LET boot  == LoadedFrom(sd[1], r)
              there == sd_card_begin(sd[2], f)
              sizes == read_register(IF scratch = 2 THEN there.c ELSE boot, f)
          IN /\ failed' = (scratch = 2 /\ ~there.ok)
             /\ unit_ready' = ~failed'
             /\ sd' = IF scratch = 1 THEN [sd EXCEPT ![1] = sizes.c]
                      ELSE [sd EXCEPT ![1] = boot,
                                      ![2] = IF there.ok THEN sizes.c ELSE there.c]
    BY <1>5 DEF msc_start
  <2> DEFINE boot  == LoadedFrom(sd[1], r)
             there == sd_card_begin(sd[2], f)
             sizes == read_register(IF scratch = 2 THEN there.c ELSE boot, f)
  <2>2. scratch \in {1, 2} /\ scratch' = 0 /\ card' = scratch
    BY <1>1, <1>5, MscAssumption DEF msc_start, MscTypes
  <2>3. Ready(boot) /\ boot.dedicated
    BY <1>2, LoadedRight
  <2>4. Ready(there.c) /\ ~there.c.dedicated /\ there.ok \in BOOLEAN
    BY <1>2, SharedIdle, BeginRight
  <2>5. /\ Ready(sizes.c)
        /\ scratch = 1 => sizes.c.dedicated
        /\ scratch = 2 => ~sizes.c.dedicated
    <3>1. scratch = 1 => Ready(sizes.c) /\ sizes.c.dedicated
      BY <2>3, RegisterRight DEF SameData, SameCard
    <3>2. scratch = 2 => Ready(sizes.c) /\ ~sizes.c.dedicated
      BY <2>4, RegisterRight DEF SameData, SameCard
    <3> QED
      BY <2>2, <3>1, <3>2
  <2>6. /\ failed' = (scratch = 2 /\ ~there.ok) /\ unit_ready' = ~failed'
        /\ sd' = IF scratch = 1 THEN [sd EXCEPT ![1] = sizes.c]
                 ELSE [sd EXCEPT ![1] = boot, ![2] = IF there.ok THEN sizes.c ELSE there.c]
    BY <2>1
  <2> HIDE DEF boot, there, sizes
  <2>7. boot \in CardType /\ there.c \in CardType /\ sizes.c \in CardType
    BY <2>3, <2>4, <2>5 DEF Ready, Sound
  <2>8. /\ sd' \in [{1, 2} -> CardType] /\ Ready(sd'[1]) /\ sd'[1].dedicated
        /\ Ready(sd'[2]) /\ ~sd'[2].dedicated
    <3>1. CASE scratch = 1
      <4>1. sd' = [sd EXCEPT ![1] = sizes.c]
        BY <3>1, <2>6
      <4>2. sd' \in [{1, 2} -> CardType] /\ sd'[1] = sizes.c /\ sd'[2] = sd[2]
        BY <4>1, <1>2, <2>7
      <4> QED
        BY <4>2, <3>1, <2>5, <1>2
    <3>2. CASE scratch = 2
      <4> DEFINE e == IF there.ok THEN sizes.c ELSE there.c
      <4>1. sd' = [sd EXCEPT ![1] = boot, ![2] = e]
        BY <3>2, <2>6
      <4>2. e \in CardType /\ Ready(e) /\ ~e.dedicated
        BY <3>2, <2>4, <2>5, <2>7
      <4> HIDE DEF e
      <4>3. sd' \in [{1, 2} -> CardType] /\ sd'[1] = boot /\ sd'[2] = e
        BY <4>1, <4>2, <1>2, <2>7
      <4> QED
        BY <4>2, <4>3, <2>3
    <3> QED
      BY <3>1, <3>2, <2>2
  <2>9. Cards'
    BY <2>8, <1>5 DEF Cards, msc_start
  <2>10. MscTypes'
    BY <2>2, <2>4, <2>6, <1>1, <1>5 DEF msc_start, MscTypes, Reboots
  <2>11. Owners'
    BY <1>1, <1>2, <1>5 DEF msc_start, Owners
  <2> QED
    BY <2>9, <2>10, <2>11, <1>1, <1>5 DEF msc_start, MscInv, SectorsRight, IdleAtReboot
<1> QED
  BY <1>3, <1>4, <1>5

\* msc_tick(): its looks at the flags of USBD, and the reboot after an eject.
LEMMA TicksKeep ==
  ASSUME MscInv, TickReboot \/ TickFlags \/ TickExpose \/ TickEjected
  PROVE  MscInv'
<1>1. MscTypes /\ Cards /\ Owners /\ SectorsRight /\ IdleAtReboot
  BY DEF MscInv
<1>2. CASE TickReboot
  <2>1. PICK w \in {"failed", "eject2", "eject"} :
          Reboot(w, sd) /\ w = IF failed THEN "failed" ELSE IF card = 2 THEN "eject2" ELSE "eject"
    BY <1>2 DEF TickReboot
  <2>2. app = "loop" /\ (ejected \/ failed) /\ scratch' = scratch /\ right' = right
    BY <1>2 DEF TickReboot
  <2>3. /\ sd \in [{1, 2} -> CardType] /\ sd[1].dedicated /\ Ready(sd[1])
        /\ Ready(sd[2]) /\ ~sd[2].dedicated
    BY <1>1, <2>2 DEF Cards
  <2>4. ~sd[1].clash
    BY <2>3 DEF Ready, Sound
  <2>5. w \in {"hang", "eject2", "failed"} \/ sd[1].mode = "idle" \/ sd[1].lost
    <3>1. CASE w = "eject"
      <4>1. sd[1].state = "idle"
        BY <3>1, <2>1, <2>2, <1>1 DEF Owners, MscTypes
      <4> QED
        BY <4>1, <2>3 DEF Ready, Sound
    <3> QED
      BY <3>1, <2>1
  <2>6. w \in Reboots /\ scratch' \in {0} \cup MscCards
    BY <1>1, <2>2 DEF Reboots, MscTypes
  <2> QED
    BY <1>1, <2>1, <2>2, <2>3, <2>4, <2>5, <2>6, Restarts
<1>3. ASSUME sd' = sd, has_sd' = has_sd, scratch' = scratch, UNCHANGED mscFlags, usbd' = usbd,
             why' = why, right' = right, app # "boot",
             app' \in {"loop", "expose", "ejected", "run"},
             app' \in {"ejected", "run"} => ~expose_msc, app' = "run" => ~ejected
      PROVE  MscInv'
  <2>1. Cards'
    BY <1>1, <1>3 DEF Cards
  <2>2. Owners' /\ MscTypes'
    BY <1>1, <1>3 DEF Owners, MscTypes, mscFlags
  <2> QED
    BY <2>1, <2>2, <1>1, <1>3 DEF MscInv, SectorsRight, IdleAtReboot
<1>4. CASE TickFlags
  BY <1>3, <1>4 DEF TickFlags
<1>5. CASE TickExpose
  BY <1>1, <1>3, <1>5 DEF TickExpose, MscTypes
<1>6. CASE TickEjected
  BY <1>1, <1>3, <1>6 DEF TickEjected, tick_ends, Owners, MscTypes
<1> QED
  BY <1>2, <1>4, <1>5, <1>6

\* A call that uses one of the cards and is right keeps the invariant.
LEMMA UseKeeps ==
  ASSUME MscInv, app # "boot", app' # "boot",
         app' = app \/ app' = "loop",
         NEW i \in {1, 2}, NEW d, Ready(d), d.dedicated = sd[i].dedicated,
         sd' = [sd EXCEPT ![i] = d], right',  right' \in BOOLEAN,
         ejected /\ card = 1 /\ i = 1 => d.state = "idle",
         UNCHANGED <<has_sd, scratch, mscFlags, usbd, why>>
  PROVE  MscInv'
<1>1. MscTypes /\ Cards /\ Owners
  BY DEF MscInv
<1>2. Cards' /\ sd'[i] = d /\ \A j \in {1, 2} : j # i => sd'[j] = sd[j]
  BY <1>1, CardUsed
<1>3. ejected' /\ card' = 1 => sd'[1].state = "idle"
  BY <1>1, <1>2 DEF Owners, mscFlags
<1>4. Owners'
  BY <1>1, <1>3 DEF Owners, mscFlags
<1>5. MscTypes'
  BY <1>1 DEF MscTypes, mscFlags
<1> QED
  BY <1>2, <1>4, <1>5 DEF MscInv, SectorsRight, IdleAtReboot

\* FatFs uses SD1: disk_read(), disk_write(), disk_ioctl().
LEMMA FilesKeep ==
  ASSUME MscInv, Files
  PROVE  MscInv'
<1>1. MscTypes /\ Cards /\ Owners /\ SectorsRight
  BY DEF MscInv
<1>2. /\ app = "run" /\ app' = "loop" /\ ~ejected
      /\ UNCHANGED <<has_sd, scratch, mscFlags, usbd, why>>
  BY <1>1 DEF Files, Owners
<1>3. Ready(sd[1])
  BY <1>1, <1>2 DEF Cards
<1>4. ASSUME NEW d, Ready(d), SameCard(sd[1], d), sd' = [sd EXCEPT ![1] = d], right' = TRUE
      PROVE  MscInv'
  BY <1>2, <1>4, UseKeeps DEF SameCard
<1>5. ASSUME NEW r \in Ranges, NEW m \in Mishaps(r[2]),
             sd' = [sd EXCEPT ![1] = sd_card_read(sd[1], r[1], r[2], m[1], m[2]).c],
             right' = RightRead(sd[1], sd_card_read(sd[1], r[1], r[2], m[1], m[2]), r[1], r[2])
      PROVE  MscInv'
  <2> DEFINE d == sd_card_read(sd[1], r[1], r[2], m[1], m[2])
  <2>1. m[2] \in 1 .. r[2]
    BY DEF Mishaps
  <2>2. Ready(d.c) /\ SameData(sd[1], d.c) /\ RightRead(sd[1], d, r[1], r[2])
    BY <2>1, <1>3, RangeRight, ReadRight
  <2>3. sd' = [sd EXCEPT ![1] = d.c] /\ right' = RightRead(sd[1], d, r[1], r[2])
    BY <1>5
  <2> HIDE DEF d
  <2>4. RightRead(sd[1], d, r[1], r[2]) \in BOOLEAN
    BY DEF RightRead
  <2>5. right' = TRUE
    BY <2>2, <2>3, <2>4
  <2> QED
    BY <2>2, <2>3, <2>5, <1>4 DEF SameData
<1>6. ASSUME NEW r \in Ranges, NEW m \in Mishaps(r[2]), NEW vals \in [1 .. r[2] -> Datum],
             sd' = [sd EXCEPT ![1] = sd_card_write(sd[1], r[1], vals, m[1], m[2]).c],
             right' = RightWrite(sd[1], sd_card_write(sd[1], r[1], vals, m[1], m[2]), r[1], vals)
      PROVE  MscInv'
  <2> DEFINE d == sd_card_write(sd[1], r[1], vals, m[1], m[2])
  <2>1. m[2] \in 1 .. r[2]
    BY DEF Mishaps
  <2>2. Ready(d.c) /\ SameCard(sd[1], d.c) /\ RightWrite(sd[1], d, r[1], vals)
    BY <2>1, <1>3, RangeRight, WriteManyRight
  <2>3. sd' = [sd EXCEPT ![1] = d.c] /\ right' = RightWrite(sd[1], d, r[1], vals)
    BY <1>6
  <2> HIDE DEF d
  <2>4. RightWrite(sd[1], d, r[1], vals) \in BOOLEAN
    BY DEF RightWrite
  <2>5. right' = TRUE
    BY <2>2, <2>3, <2>4
  <2> QED
    BY <2>2, <2>3, <2>5, <1>4
<1>7. right = TRUE
  BY <1>1 DEF MscTypes, SectorsRight
<1>8. ASSUME NEW f, sd' = [sd EXCEPT ![1] = sd_card_sync(sd[1], f).c], right' = right
      PROVE  MscInv'
  BY <1>3, <1>4, <1>7, <1>8, SyncRight, ReadySound DEF SameData
<1>9. ASSUME NEW f, sd' = [sd EXCEPT ![1] = read_register(sd[1], f).c], right' = right
      PROVE  MscInv'
  BY <1>3, <1>4, <1>7, <1>9, RegisterRight DEF SameData
<1> QED
  BY <1>5, <1>6, <1>8, <1>9 DEF Files

\* A reboot that was asked for ends the transfer of SD1 before.
LEMMA UserRebootKeeps ==
  ASSUME MscInv, UserReboot
  PROVE  MscInv'
<1>1. MscTypes /\ Cards /\ Owners /\ SectorsRight
  BY DEF MscInv
<1>2. PICK f \in SUBSET {"end"}, w \in {"menu", "bootsel", "msc"} :
        /\ Reboot(w, [sd EXCEPT ![1] = sd1_sync_before_reboot(f)])
        /\ scratch' \in IF w = "msc" THEN MscCards ELSE {0}
  BY DEF UserReboot
<1>3. app = "run" /\ right' = right /\ has_sd /\ ~expose_msc
  BY <1>1 DEF UserReboot, Owners
<1>4. /\ sd \in [{1, 2} -> CardType] /\ Ready(sd[1]) /\ sd[1].dedicated
      /\ Ready(sd[2]) /\ ~sd[2].dedicated
  BY <1>1, <1>3 DEF Cards
<1> DEFINE d == sd1_sync_before_reboot(f)
           cards == [sd EXCEPT ![1] = d]
<1>5. Ready(d) /\ d.state = "idle" /\ d.dedicated
  BY <1>3, <1>4, SyncRight, ReadySound DEF sd1_sync_before_reboot, SameData, SameCard
<1>6. Reboot(w, cards) /\ scratch' \in {0} \cup MscCards
  BY <1>2
<1> HIDE DEF d
<1>7. d \in CardType /\ (d.mode = "idle" \/ d.lost) /\ ~d.clash
  BY <1>5 DEF Ready, Sound
<1>8. cards \in [{1, 2} -> CardType] /\ cards[1] = d /\ cards[2] = sd[2]
  BY <1>4, <1>7
<1> HIDE DEF cards
<1> QED
  BY <1>1, <1>3, <1>4, <1>5, <1>6, <1>7, <1>8, Restarts DEF Reboots

\* The PC reads and writes; USBD has the card as long as it is exposed.
LEMMA PcKeeps ==
  ASSUME MscInv, tud_msc_read10_cb \/ tud_msc_write10_cb \/ tud_msc_write10_complete_cb
  PROVE  MscInv'
<1>1. MscTypes /\ Cards /\ Owners /\ SectorsRight
  BY DEF MscInv
<1>2. expose_msc /\ app # "boot" /\ card \in {1, 2}
  BY <1>1 DEF Owners, MscTypes, tud_msc_read10_cb, tud_msc_write10_cb, tud_msc_write10_complete_cb
<1>3. Ready(sd[card]) /\ (card = 2 => ~sd[card].dedicated)
  BY <1>1, <1>2 DEF Cards
<1>4. ASSUME NEW d, NEW ok, Transferred(d, ok), Ready(d.c), d.c.dedicated = sd[card].dedicated, ok = TRUE
      PROVE  MscInv'
  <2>1. /\ sd' = [sd EXCEPT ![card] = d.c] /\ right' = TRUE /\ app' = app
        /\ UNCHANGED <<has_sd, scratch, mscFlags, usbd, why>>
    BY <1>4 DEF Transferred
  <2>2. ~ejected
    BY <1>1, <1>2 DEF Owners
  <2> QED
    BY <1>2, <1>4, <2>1, <2>2, UseKeeps
<1>5. CASE tud_msc_read10_cb
  <2>0. PICK r \in Ranges : \E m \in Mishaps(r[2]), g \in SUBSET {"command"} :
          LET d == IF card = 1 THEN sd_card_read(sd[1], r[1], r[2], m[1], m[2])
                   ELSE sd2_read(sd[2], r[1], r[2], m[1], m[2], g)
          IN Transferred(d, RightRead(sd[card], d, r[1], r[2]))
    BY <1>5 DEF tud_msc_read10_cb
  <2>1. PICK m \in Mishaps(r[2]), g \in SUBSET {"command"} :
          LET d == IF card = 1 THEN sd_card_read(sd[1], r[1], r[2], m[1], m[2])
                   ELSE sd2_read(sd[2], r[1], r[2], m[1], m[2], g)
          IN Transferred(d, RightRead(sd[card], d, r[1], r[2]))
    BY <2>0
  <2> DEFINE d == IF card = 1 THEN sd_card_read(sd[1], r[1], r[2], m[1], m[2])
                  ELSE sd2_read(sd[2], r[1], r[2], m[1], m[2], g)
  <2>2. m[2] \in 1 .. r[2]
    BY DEF Mishaps
  <2>3. /\ Ready(d.c) /\ d.c.dedicated = sd[card].dedicated
        /\ RightRead(sd[card], d, r[1], r[2])
    <3>1. CASE card = 1
      BY <3>1, <2>2, <1>3, RangeRight, ReadRight DEF SameData, SameCard
    <3>2. CASE card = 2
      BY <3>2, <2>2, <1>3, RangeRight, Sd2ReadRight
    <3> QED
      BY <3>1, <3>2, <1>2
  <2>4. Transferred(d, RightRead(sd[card], d, r[1], r[2]))
    BY <2>1
  <2> HIDE DEF d
  <2>5. RightRead(sd[card], d, r[1], r[2]) = TRUE
    BY <2>3 DEF RightRead
  <2> QED
    BY <2>3, <2>4, <2>5, <1>4
<1>6. CASE tud_msc_write10_cb
  <2>0. PICK r \in Ranges : \E m \in Mishaps(r[2]), g \in SUBSET {"command"} :
                             \E vals \in [1 .. r[2] -> Datum] :
          LET d == IF card = 1 THEN sd_card_write(sd[1], r[1], vals, m[1], m[2])
                   ELSE sd2_write(sd[2], r[1], vals, m[1], m[2], g)
          IN Transferred(d, RightWrite(sd[card], d, r[1], vals))
    BY <1>6 DEF tud_msc_write10_cb
  <2>1. PICK m \in Mishaps(r[2]), g \in SUBSET {"command"}, vals \in [1 .. r[2] -> Datum] :
          LET d == IF card = 1 THEN sd_card_write(sd[1], r[1], vals, m[1], m[2])
                   ELSE sd2_write(sd[2], r[1], vals, m[1], m[2], g)
          IN Transferred(d, RightWrite(sd[card], d, r[1], vals))
    BY <2>0
  <2> DEFINE d == IF card = 1 THEN sd_card_write(sd[1], r[1], vals, m[1], m[2])
                  ELSE sd2_write(sd[2], r[1], vals, m[1], m[2], g)
  <2>2. m[2] \in 1 .. r[2]
    BY DEF Mishaps
  <2>3. /\ Ready(d.c) /\ d.c.dedicated = sd[card].dedicated
        /\ RightWrite(sd[card], d, r[1], vals)
    <3>1. CASE card = 1
      BY <3>1, <2>2, <1>3, RangeRight, WriteManyRight DEF SameCard
    <3>2. CASE card = 2
      BY <3>2, <2>2, <1>3, RangeRight, Sd2WriteRight
    <3> QED
      BY <3>1, <3>2, <1>2
  <2>4. Transferred(d, RightWrite(sd[card], d, r[1], vals))
    BY <2>1
  <2> HIDE DEF d
  <2>5. RightWrite(sd[card], d, r[1], vals) = TRUE
    BY <2>3 DEF RightWrite
  <2> QED
    BY <2>3, <2>4, <2>5, <1>4
<1>7. CASE tud_msc_write10_complete_cb
  <2>1. PICK f \in SUBSET {"end"} : Transferred(sd_card_sync(sd[card], f), right)
    BY <1>7 DEF tud_msc_write10_complete_cb
  <2>2. right = TRUE
    BY <1>1 DEF MscTypes, SectorsRight
  <2>3. Ready(sd_card_sync(sd[card], f).c) /\ SameData(sd[card], sd_card_sync(sd[card], f).c)
    BY <1>3, SyncRight, ReadySound
  <2> QED
    BY <2>1, <2>2, <2>3, <1>4 DEF SameData, SameCard
<1> QED
  BY <1>5, <1>6, <1>7

\* The eject ends the transfer of the card it hands back; the other callbacks.
LEMMA HostKeeps ==
  ASSUME MscInv, tud_msc_start_stop_cb \/ HostGone \/ Touch \/ TouchTimeout
  PROVE  MscInv'
<1>1. MscTypes /\ Cards /\ Owners /\ SectorsRight /\ IdleAtReboot
  BY DEF MscInv
<1>2. CASE tud_msc_start_stop_cb
  <2>1. PICK f \in SUBSET {"end"} : sd' = [sd EXCEPT ![card] = sd_card_sync(sd[card], f).c]
    BY <1>2 DEF tud_msc_start_stop_cb
  <2>2. app # "boot" /\ app' = app /\ card \in {1, 2} /\ card' = card /\ right' = right
    BY <1>1, <1>2 DEF tud_msc_start_stop_cb, MscTypes
  <2>3. Ready(sd[card])
    BY <1>1, <2>2 DEF Cards
  <2> DEFINE d == sd_card_sync(sd[card], f).c
  <2>4. Ready(d) /\ d.state = "idle" /\ d.dedicated = sd[card].dedicated
    BY <2>3, SyncRight, ReadySound DEF SameData, SameCard
  <2> HIDE DEF d
  <2>5. Cards' /\ sd'[card] = d
    BY <1>1, <2>1, <2>2, <2>4, CardUsed DEF d
  <2>6. MscTypes'
    BY <1>1, <1>2 DEF tud_msc_start_stop_cb, MscTypes
  <2>7. Owners'
    BY <1>1, <1>2, <2>2, <2>4, <2>5 DEF tud_msc_start_stop_cb, Owners
  <2> QED
    BY <1>1, <2>2, <2>5, <2>6, <2>7 DEF MscInv, SectorsRight, IdleAtReboot
<1>3. CASE HostGone \/ Touch
  <2>1. Cards'
    BY <1>1, <1>3 DEF HostGone, Touch, Cards
  <2>2. MscTypes' /\ Owners'
    <3>1. CASE HostGone
      BY <1>1, <3>1 DEF HostGone, MscTypes, Owners
    <3>2. CASE Touch
      BY <1>1, <3>2 DEF Touch, MscTypes, Owners, mscFlags
    <3> QED
      BY <1>3, <3>1, <3>2
  <2>3. SectorsRight' /\ IdleAtReboot'
    BY <1>1, <1>3 DEF HostGone, Touch, SectorsRight, IdleAtReboot, CardIdle
  <2> QED
    BY <2>1, <2>2, <2>3 DEF MscInv
<1>4. CASE TouchTimeout
  <2>1. Reboot("hang", sd) /\ scratch' = scratch /\ right' = right /\ app # "boot"
    BY <1>1, <1>4 DEF TouchTimeout, Owners
  <2>2. /\ sd \in [{1, 2} -> CardType] /\ Ready(sd[1]) /\ sd[1].dedicated
        /\ Ready(sd[2]) /\ ~sd[2].dedicated
    BY <1>1, <2>1 DEF Cards
  <2>3. ~sd[1].clash
    BY <2>2 DEF Ready, Sound
  <2>4. scratch' \in {0} \cup MscCards
    BY <1>1, <2>1 DEF MscTypes
  <2> QED
    BY <1>1, <2>1, <2>2, <2>3, <2>4, Restarts DEF Reboots
<1> QED
  BY <1>2, <1>3, <1>4

-----------------------------------------------------------------------------
(* The theorems.                                                            *)

\* The invariant holds in every state.
THEOREM MscInvariant == MscSpec => []MscInv
<1>1. MscInv /\ [MscNext]_mscVars => MscInv'
  <2> SUFFICES ASSUME MscInv, [MscNext]_mscVars PROVE MscInv'
    OBVIOUS
  <2>1. CASE App1
    BY <2>1, BootKeeps, TicksKeep, FilesKeep, UserRebootKeeps DEF App1
  <2>2. CASE Usbd
    BY <2>2, PcKeeps, HostKeeps DEF Usbd
  <2>3. CASE UNCHANGED mscVars
    BY <2>3 DEF mscVars, mscFlags, MscInv, MscTypes, Cards, Owners, SectorsRight, IdleAtReboot, CardIdle
  <2> QED
    BY <2>1, <2>2, <2>3 DEF MscNext
<1> QED
  BY <1>1, MscStarts, PTL DEF MscSpec

\* The variables keep their types.
THEOREM MscTypeCorrect == MscSpec => []MscTypeOK
<1>1. MscInv => MscTypeOK
  BY DEF MscInv, MscTypes, Cards, MscTypeOK
<1> QED
  BY <1>1, MscInvariant, PTL

\* Whatever goes wrong in a call, a transfer that reports success moved the
\* sectors that were asked for, and no command went into an open transfer
\* (sd_card.c, sd2.c, msc.c).
THEOREM CardTransfersRight == MscSpec => []CardRight
<1>1. MscInv => CardRight
  <2> SUFFICES ASSUME MscInv PROVE CardRight
    OBVIOUS
  <2>1. /\ Ready(sd[2]) /\ (IF app = "boot" THEN Off(sd[1]) ELSE Ready(sd[1]))
    BY DEF MscInv, Cards
  <2>2. ~sd[2].clash /\ Agree(sd[2])
    BY <2>1, ReadyAgrees
  <2>3. ~sd[1].clash /\ (app # "boot" => Agree(sd[1]))
    BY <2>1, ReadyAgrees DEF Off
  <2> QED
    BY <2>2, <2>3 DEF MscInv, CardRight, OneTransfer
<1> QED
  BY <1>1, MscInvariant, PTL

\* The PC has a card alone from the start of the mass storage mode until the
\* machine restarts, and it restarts with the first card idle.
THEOREM CardsHandedOver == MscSpec => []MscRight
<1>1. MscInv => MscRight
  BY DEF MscInv, Owners, MscRight, LoopKeepsOut
<1> QED
  BY <1>1, MscInvariant, PTL

\* A card is read right in both of its uses.
THEOREM CardKept == MscSpec => []CardAndMscRight
<1>1. CardRight /\ MscRight => CardAndMscRight
  BY DEF CardAndMscRight
<1> QED
  BY <1>1, CardTransfersRight, CardsHandedOver, PTL
=============================================================================
