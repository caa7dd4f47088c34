---------------------------- MODULE PrinterProofs ----------------------------
(***************************************************************************)
(* Theorems about the printing service, then about the adapter over it.    *)
(***************************************************************************)
EXTENDS PrinterLink, SequenceTheorems, FiniteSetTheorems, TLAPS

-----------------------------------------------------------------------------
(* Lemmas about the sequences of bytes.                                     *)

\* The first n elements of a sequence.
LEMMA PrefixLemma ==
  ASSUME NEW S, NEW s \in Seq(S), NEW n \in 0 .. Len(s)
  PROVE  /\ SubSeq(s, 1, n) \in Seq(S)
         /\ Len(SubSeq(s, 1, n)) = n
         /\ \A i \in 1 .. n : SubSeq(s, 1, n)[i] = s[i]
<1>1. /\ Len(s) \in Nat
      /\ \A i \in 1 .. n : s[i] \in S
  BY LenProperties, ElementOfSeq
<1>2. n \in Int /\ 1 \in Int
  BY <1>1
<1> QED
  BY <1>1, <1>2, SubSeqProperties

\* What is left of a sequence without its first n elements.
LEMMA SuffixLemma ==
  ASSUME NEW S, NEW s \in Seq(S), NEW n \in 0 .. Len(s)
  PROVE  /\ SubSeq(s, n + 1, Len(s)) \in Seq(S)
         /\ Len(SubSeq(s, n + 1, Len(s))) = Len(s) - n
         /\ \A i \in 1 .. Len(s) - n : SubSeq(s, n + 1, Len(s))[i] = s[n + i]
<1>1. /\ Len(s) \in Nat
      /\ \A i \in n + 1 .. Len(s) : s[i] \in S
  BY LenProperties, ElementOfSeq
<1>2. n + 1 \in Int /\ Len(s) \in Int
  BY <1>1
<1>3. /\ SubSeq(s, n + 1, Len(s)) \in Seq(S)
      /\ Len(SubSeq(s, n + 1, Len(s)))
           = IF n + 1 <= Len(s) THEN Len(s) - (n + 1) + 1 ELSE 0
      /\ \A i \in 1 .. Len(s) - (n + 1) + 1 :
           SubSeq(s, n + 1, Len(s))[i] = s[(n + 1) + i - 1]
  BY <1>1, <1>2, SubSeqProperties
<1> QED
  BY <1>1, <1>3

\* The bytes a producer offers are a sequence of bytes.
LEMMA OfferLemma ==
  ASSUME NEW n \in Nat, NEW first \in Nat, NEW expected \in Nat
  PROVE  LET data == [i \in 1 .. n |-> [id |-> first + i, job |-> expected]]
         IN  /\ data \in Seq(Byte)
             /\ Len(data) = n
             /\ \A i \in 1 .. n : data[i].job = expected /\ data[i].id = first + i
<1> DEFINE data == [i \in 1 .. n |-> [id |-> first + i, job |-> expected]]
<1>1. data \in [1 .. n -> Byte]
  BY DEF Byte
<1>2. data \in Seq(Byte) /\ Len(data) = n
  BY <1>1
<1> QED
  BY <1>2

-----------------------------------------------------------------------------
(* Type correctness: one lemma for each part of TypeOK.                     *)

\* The start state is well typed.
LEMMA TypeInit == Init => TypeOK
<1> SUFFICES ASSUME Init PROVE TypeOK
  OBVIOUS
<1>1. Streams
  <2>1. <<>> \in Seq(Byte) /\ Len(<<>>) = 0
    OBVIOUS
  <2> QED
    BY <2>1, PrinterAssumption DEF Init, Streams, used
<1>2. Numbers
  BY DEF Init, Numbers
<1>3. Flags
  BY DEF Init, Flags
<1>4. Driver
  BY DEF Init, NoPrinter, Driver
<1> QED
  BY <1>1, <1>2, <1>3, <1>4 DEF TypeOK

\* How long the queue is.
LEMMA UsedType == Streams => used \in Nat
  BY LenProperties DEF Streams, used

\* discard empties the queue and counts its bytes.
LEMMA DiscardType ==
  ASSUME Streams, Numbers, discard
  PROVE  /\ queue' = <<>> /\ queue' \in Seq(Byte) /\ used' = 0
         /\ discarded' = discarded + used /\ discarded' \in Nat
  BY UsedType DEF Streams, Numbers, discard, used

\* A write appends a prefix of its data, as long as there is room.
LEMMA WriteType ==
  ASSUME Streams, Numbers, NEW data \in Seq(Byte), NEW expected, Write(data, expected)
  PROVE  \E n \in 0 .. Len(data) :
           /\ queue' = queue \o SubSeq(data, 1, n)
           /\ queue' \in Seq(Byte)
           /\ used' = used + n /\ used' <= QueueSize
           /\ accepted' = accepted + n
           /\ n > 0 => meant(expected)
<1>1. used \in Nat /\ Len(data) \in Nat /\ room \in Nat
  BY UsedType, LenProperties, PrinterAssumption DEF Streams, room
<1>2. queue \in Seq(Byte)
  BY DEF Streams
<1>3. CASE meant(expected)
  <2> DEFINE n == IF Len(data) < room THEN Len(data) ELSE room
  <2>1. n \in 0 .. Len(data) /\ n <= room
    BY <1>1
  <2>2. queue' = queue \o SubSeq(data, 1, n) /\ accepted' = accepted + n
    BY <1>3 DEF Write
  <2> HIDE DEF n
  <2>3. queue' \in Seq(Byte) /\ used' = used + n
    BY <1>2, <2>1, <2>2, PrefixLemma, ConcatProperties DEF used
  <2>4. used' <= QueueSize
    BY <1>1, <2>1, <2>3, PrinterAssumption DEF room
  <2> QED
    BY <1>3, <2>1, <2>2, <2>3, <2>4
<1>4. CASE ~meant(expected)
  <2>1. queue' = queue /\ accepted' = accepted
    BY <1>4 DEF Write
  <2>2. SubSeq(data, 1, 0) = <<>>
    BY SubSeqEmpty
  <2>3. queue \o <<>> = queue
    BY <1>2, ConcatEmptySeq
  <2>4. 0 \in 0 .. Len(data) /\ used' = used + 0 /\ accepted' = accepted + 0
    BY <1>1, <2>1 DEF used, Numbers
  <2>5. used <= QueueSize /\ used' = used
    BY <2>1 DEF Streams, used
  <2> QED
    BY <1>2, <2>1, <2>2, <2>3, <2>4, <2>5
<1> QED
  BY <1>3, <1>4

\* The devices take a prefix of the block on the wire.
LEMMA TakenType ==
  ASSUME Streams, NEW taken \in 0 .. Len(tx_buf),
         printed' = printed \o SubSeq(tx_buf, 1, taken)
  PROVE  printed' \in Seq(Byte) /\ Len(printed') = Len(printed) + taken
  BY PrefixLemma, ConcatProperties DEF Streams

\* What Producer does is one write.
LEMMA ProducerWrites ==
  ASSUME Numbers, Producer
  PROVE  \E expected \in 0 .. session, data \in Seq(Byte) :
           /\ Write(data, expected)
           /\ \A i \in 1 .. Len(data) : data[i].job = expected /\ data[i].id = accepted + i
<1>1. PICK n \in 1 .. WriteMax, expected \in 0 .. session :
        Write([i \in 1 .. n |-> [id |-> accepted + i, job |-> expected]], expected)
  BY DEF Producer
<1>2. n \in Nat /\ accepted \in Nat /\ expected \in Nat
  BY DEF Numbers
<1> DEFINE data == [i \in 1 .. n |-> [id |-> accepted + i, job |-> expected]]
<1>3. /\ data \in Seq(Byte) /\ Len(data) = n
      /\ \A i \in 1 .. n : data[i].job = expected /\ data[i].id = accepted + i
  BY <1>2, OfferLemma
<1>4. Write(data, expected)
  BY <1>1
<1> HIDE DEF data
<1> QED
  BY <1>3, <1>4

-----------------------------------------------------------------------------
(* The four parts of TypeOK, action by action.                              *)

\* A write keeps the types, whoever the producer is.
LEMMA TypeByWrite ==
  ASSUME TypeOK, NEW data \in Seq(Byte), NEW expected, Write(data, expected)
  PROVE  TypeOK'
<1> USE DEF TypeOK
<1>0. PICK n \in 0 .. Len(data) :
        /\ queue' \in Seq(Byte) /\ used' <= QueueSize
        /\ accepted' = accepted + n
  BY WriteType
<1>1. Streams'
  BY <1>0 DEF Write, Streams, host
<1>2. Numbers'
  <2>1. n \in Nat
    BY LenProperties
  <2> QED
    BY <1>0, <2>1 DEF Write, Numbers, bounds
<1>3. Flags'
  BY DEF Write, Flags, flags, status, host
<1>4. Driver'
  BY DEF Write, Driver, host
<1> QED
  BY <1>1, <1>2, <1>3, <1>4

\* So do the steps that do not write.
LEMMA TypeByRest == TypeOK /\ [Reset \/ Usb]_vars => TypeOK'
<1> SUFFICES ASSUME Streams, Numbers, Flags, Driver, [Reset \/ Usb]_vars
             PROVE  Streams' /\ Numbers' /\ Flags' /\ Driver'
  BY DEF TypeOK
<1>2. CASE Reset
  <2>1. Streams'
    BY <1>2 DEF Reset, Streams, used, host
  <2>2. Numbers'
    BY <1>2 DEF Reset, Numbers, counters
  <2>3. Flags'
    BY <1>2 DEF Reset, Flags, status, host
  <2>4. Driver'
    BY <1>2 DEF Reset, Driver, host
  <2> QED
    BY <2>1, <2>2, <2>3, <2>4
<1>3. CASE Open
  <2>1. Streams'
    BY <1>3 DEF Open, Streams, used
  <2>2. Numbers'
    BY <1>3 DEF Open, Numbers, counters
  <2>3. Flags'
    BY <1>3 DEF Open, Flags, flags, status
  <2>4. Driver'
    BY <1>3 DEF Open, Driver, NoPrinter
  <2> QED
    BY <2>1, <2>2, <2>3, <2>4
<1>4. CASE SetConfig
  <2>1. Streams'
    BY <1>4, DiscardType, PrinterAssumption DEF SetConfig, Streams
  <2>2. Numbers'
    BY <1>4, DiscardType DEF SetConfig, Numbers, bounds
  <2>3. Flags'
    BY <1>4 DEF SetConfig, Flags, Driver
  <2>4. Driver'
    BY <1>4 DEF SetConfig, Driver
  <2> QED
    BY <2>1, <2>2, <2>3, <2>4
<1>5. CASE Close
  <2>1. Streams'
    <3>1. Len(tx_buf) \in Nat /\ <<>> \in Seq(Byte)
      BY LenProperties DEF Streams
    <3>0. \E taken \in 0 .. (IF info.tx_busy THEN Len(tx_buf) ELSE 0) :
            printed' = printed \o SubSeq(tx_buf, 1, taken)
      BY <1>5 DEF Close
    <3>2. PICK taken \in 0 .. Len(tx_buf) :
            printed' = printed \o SubSeq(tx_buf, 1, taken)
      BY <3>0, <3>1
    <3>3. printed' \in Seq(Byte)
      BY <3>2, TakenType
    <3> QED
      BY <1>5, <3>1, <3>3, DiscardType, PrinterAssumption DEF Close, Streams
  <2>2. Numbers'
    BY <1>5, DiscardType DEF Close, Numbers, doubt, bounds
  <2>3. Flags'
    BY <1>5 DEF Close, Flags
  <2>4. Driver'
    BY <1>5 DEF Close, Driver, NoPrinter
  <2> QED
    BY <2>1, <2>2, <2>3, <2>4
<1>6. CASE \E success \in BOOLEAN : TransferDone(success)
  <2> PICK success \in BOOLEAN : TransferDone(success)
    BY <1>6
  <2>1. Streams'
    <3>1. Len(tx_buf) \in Nat /\ <<>> \in Seq(Byte)
      BY LenProperties DEF Streams
    <3>2. \E taken \in IF success THEN {Len(tx_buf)} ELSE 0 .. Len(tx_buf) :
            printed' = printed \o SubSeq(tx_buf, 1, taken)
      BY DEF TransferDone
    <3>3. (IF success THEN {Len(tx_buf)} ELSE 0 .. Len(tx_buf)) \subseteq 0 .. Len(tx_buf)
      BY <3>1
    <3>4. PICK taken \in 0 .. Len(tx_buf) :
            printed' = printed \o SubSeq(tx_buf, 1, taken)
      BY <3>2, <3>3
    <3>5. printed' \in Seq(Byte)
      BY <3>4, TakenType
    <3>6. queue' \in Seq(Byte) /\ used' <= QueueSize
      <4>1. used \in Nat /\ in_flight \in Nat
        BY UsedType DEF Numbers
      <4>2. CASE queue' = queue
        BY <4>2 DEF Streams, used
      <4>3. CASE queue' = SubSeq(queue, in_flight + 1, used)
        <5>1. \A i \in in_flight + 1 .. used : queue[i] \in Byte
          BY <4>1, ElementOfSeq DEF Streams, used
        <5>2. in_flight + 1 \in Int /\ used \in Int
          BY <4>1
        <5>3. /\ queue' \in Seq(Byte)
              /\ Len(queue') = IF in_flight + 1 <= used
                               THEN used - (in_flight + 1) + 1 ELSE 0
          BY <4>3, <5>1, <5>2, SubSeqProperties
        <5> QED
          BY <4>1, <5>3, PrinterAssumption DEF Streams, used
      <4> QED
        BY <4>2, <4>3 DEF TransferDone
    <3> QED
      BY <3>1, <3>5, <3>6 DEF TransferDone, Streams
  <2>2. Numbers'
    BY SMTT(30) DEF TransferDone, Numbers, doubt, bounds
  <2>3. Flags'
    BY DEF TransferDone, Flags, Driver
  <2>4. Driver'
    BY DEF TransferDone, Driver
  <2> QED
    BY <2>1, <2>2, <2>3, <2>4
<1>7. CASE \E success \in BOOLEAN : ResetDone(success)
  <2>1. Streams'
    BY <1>7 DEF ResetDone, Streams, used
  <2>2. Numbers'
    BY <1>7 DEF ResetDone, Numbers, counters, bounds
  <2>3. Flags'
    BY <1>7 DEF ResetDone, Flags, Driver
  <2>4. Driver'
    BY <1>7 DEF ResetDone, Driver
  <2> QED
    BY <2>1, <2>2, <2>3, <2>4
<1>8. CASE \E valid, port \in BOOLEAN : QueryDone(valid, port)
  <2>1. Streams'
    BY <1>8 DEF QueryDone, Streams, used
  <2>2. Numbers'
    BY <1>8 DEF QueryDone, Numbers, counters, bounds
  <2>3. Flags'
    BY <1>8 DEF QueryDone, Flags, Driver
  <2>4. Driver'
    BY <1>8 DEF QueryDone, Driver
  <2> QED
    BY <2>1, <2>2, <2>3, <2>4
<1>9. CASE HostTick
  <2>1. Streams'
    BY <1>9 DEF HostTick, Streams, used
  <2>2. Numbers'
    BY <1>9 DEF HostTick, Numbers, counters, bounds
  <2>3. Flags'
    BY <1>9 DEF HostTick, Flags, flags, status
  <2>4. Driver'
    BY <1>9 DEF HostTick, Driver
  <2> QED
    BY <2>1, <2>2, <2>3, <2>4
<1>10. CASE TickReset
  <2>1. Streams'
    BY <1>10, DiscardType, PrinterAssumption DEF TickReset, Streams, host
  <2>2. Numbers'
    BY <1>10, DiscardType DEF TickReset, Numbers, bounds
  <2>3. Flags'
    BY <1>10 DEF TickReset, Flags, status, host
  <2>4. Driver'
    BY <1>10 DEF TickReset, Driver, host
  <2> QED
    BY <2>1, <2>2, <2>3, <2>4
<1>11. CASE TickReserve
  <2>0. PICK n \in 0 .. Len(queue) : in_flight' = n /\ staging' = SubSeq(queue, 1, n)
    <3>1. used \in Nat
      BY UsedType
    <3> DEFINE n == IF used < TransferSize THEN used ELSE TransferSize
    <3>2. n \in 0 .. Len(queue)
      BY <3>1, PrinterAssumption DEF used
    <3> QED
      BY <1>11, <3>2 DEF TickReserve
  <2>1. Streams'
    BY <1>11, <2>0, PrefixLemma DEF TickReserve, Streams, used, host
  <2>2. Numbers'
    BY <1>11, <2>0, LenProperties DEF TickReserve, Numbers, Streams, counters, bounds
  <2>3. Flags'
    BY <1>11 DEF TickReserve, Flags, flags, status, host
  <2>4. Driver'
    BY <1>11 DEF TickReserve, Driver, host
  <2> QED
    BY <2>1, <2>2, <2>3, <2>4
<1>12. CASE \E pipe \in BOOLEAN : SubmitReset(pipe)
  <2>1. Streams'
    BY <1>12 DEF SubmitReset, Streams, used
  <2>2. Numbers'
    BY <1>12 DEF SubmitReset, Numbers, counters, bounds
  <2>3. Flags'
    BY <1>12 DEF SubmitReset, Flags, flags, status
  <2>4. Driver'
    BY <1>12 DEF SubmitReset, Driver
  <2> QED
    BY <2>1, <2>2, <2>3, <2>4
<1>13. CASE \E pipe \in BOOLEAN : SubmitWrite(pipe)
  <2>1. Streams'
    <3>1. <<>> \in Seq(Byte)
      OBVIOUS
    <3> QED
      BY <1>13, <3>1 DEF SubmitWrite, Streams, used
  <2>2. Numbers'
    BY <1>13 DEF SubmitWrite, Numbers, counters, bounds
  <2>3. Flags'
    BY <1>13 DEF SubmitWrite, Flags, flags, status
  <2>4. Driver'
    BY <1>13 DEF SubmitWrite, Driver
  <2> QED
    BY <2>1, <2>2, <2>3, <2>4
<1>14. CASE UndoReset
  <2>1. Streams'
    BY <1>14 DEF UndoReset, Streams, used, host
  <2>2. Numbers'
    BY <1>14 DEF UndoReset, Numbers, counters, bounds
  <2>3. Flags'
    BY <1>14 DEF UndoReset, Flags, status, host
  <2>4. Driver'
    BY <1>14 DEF UndoReset, Driver, host
  <2> QED
    BY <2>1, <2>2, <2>3, <2>4
<1>15. CASE UndoWrite
  <2>1. Streams'
    BY <1>15 DEF UndoWrite, Streams, used, host
  <2>2. Numbers'
    BY <1>15 DEF UndoWrite, Numbers, counters, bounds
  <2>3. Flags'
    BY <1>15 DEF UndoWrite, Flags, flags, status, host
  <2>4. Driver'
    BY <1>15 DEF UndoWrite, Driver, host
  <2> QED
    BY <2>1, <2>2, <2>3, <2>4
<1>16. CASE UNCHANGED vars
  <2>1. Streams'
    BY <1>16 DEF vars, Streams, used, host
  <2>2. Numbers'
    BY <1>16 DEF vars, Numbers, counters, bounds
  <2>3. Flags'
    BY <1>16 DEF vars, Flags, flags, status, host
  <2>4. Driver'
    BY <1>16 DEF vars, Driver, host
  <2> QED
    BY <2>1, <2>2, <2>3, <2>4
<1> QED
  BY <1>2, <1>3, <1>4, <1>5, <1>6, <1>7, <1>8, <1>9, <1>10, <1>11, <1>12,
     <1>13, <1>14, <1>15, <1>16 DEF Usb

\* Every step keeps the types: writes of APP, its resets, the USB task's.
LEMMA TypeStep == TypeOK /\ [Next]_vars => TypeOK'
<1> SUFFICES ASSUME TypeOK, [Next]_vars PROVE TypeOK'
  OBVIOUS
<1>1. CASE Producer
  BY <1>1, ProducerWrites, TypeByWrite DEF TypeOK
<1>2. CASE [Reset \/ Usb]_vars
  BY <1>2, TypeByRest
<1> QED
  BY <1>1, <1>2 DEF Next

\* The variables keep their types and the queue never outgrows its array,
\* whatever its size and that of a transfer.
THEOREM TypeCorrect == Spec => []TypeOK
  BY TypeInit, TypeStep, PTL DEF Spec
-----------------------------------------------------------------------------
(* Safety.  The properties are not inductive: they rest on which block is   *)
(* where between the locked sections (Blocks), and on a reset having the    *)
(* printer to itself from the moment it empties the queue (Resets).         *)

Blocks ==
  /\ ~info.address => ~info.mounted
  /\ ~info.mounted => ~info.tx_busy /\ control = "IDLE"
  /\ info.tx_busy => in_flight > 0
  /\ usb_pc = "write" => /\ in_flight = Len(staging) /\ in_flight > 0
                         /\ ~info.tx_busy
  /\ usb_pc = "undo_write" => ~info.tx_busy

Resets ==
  /\ control = "RESET" => /\ ~info.tx_busy /\ in_flight = 0 /\ queue = <<>>
                          /\ resetting /\ reset_submitted
  /\ usb_pc = "reset" => /\ in_flight = 0 /\ queue = <<>>
                         /\ resetting /\ reset_submitted /\ control # "RESET"
  /\ usb_pc = "undo_reset" => control # "RESET"

Safety == Conservation /\ Blocks /\ Resets /\ DeliveryKnown /\ QueueOneSession

\* A write to a queue of one job adds bytes of that job only.
LEMMA JobsOfWrite ==
  ASSUME NEW s \in Seq(Byte), NEW t \in Seq(Byte), NEW n \in 0 .. Len(t), NEW job,
         \A i \in 1 .. Len(s) : s[i].job = job,
         \A i \in 1 .. Len(t) : t[i].job = job
  PROVE  \A i \in 1 .. Len(s \o SubSeq(t, 1, n)) : (s \o SubSeq(t, 1, n))[i].job = job
<1> DEFINE u == SubSeq(t, 1, n)
<1>1. /\ u \in Seq(Byte) /\ Len(u) = n
      /\ \A i \in 1 .. n : u[i] = t[i]
  BY PrefixLemma
<1>2. Len(s) \in Nat /\ Len(t) \in Nat /\ n \in Nat
  BY LenProperties
<1> HIDE DEF u
<1>3. /\ Len(s \o u) = Len(s) + Len(u)
      /\ \A i \in 1 .. Len(s) + Len(u) :
           (s \o u)[i] = IF i <= Len(s) THEN s[i] ELSE u[i - Len(s)]
  BY <1>1, ConcatProperties
<1>4. SUFFICES ASSUME NEW i \in 1 .. Len(s) + n PROVE (s \o u)[i].job = job
  BY <1>1, <1>3 DEF u
<1>5. CASE i <= Len(s)
  BY <1>1, <1>2, <1>3, <1>5
<1>6. CASE i > Len(s)
  <2>1. i - Len(s) \in 1 .. n /\ n <= Len(t)
    BY <1>2, <1>6
  <2>2. (s \o u)[i] = u[i - Len(s)] /\ u[i - Len(s)] = t[i - Len(s)]
    BY <1>1, <1>2, <1>3, <1>6, <2>1
  <2> QED
    BY <1>2, <2>1, <2>2
<1>7. i \in Int /\ Len(s) \in Int
  BY <1>2
<1>8. i <= Len(s) \/ i > Len(s)
  BY <1>7
<1> QED
  BY <1>5, <1>6, <1>8

\* At boot nothing is queued, in flight or counted.
LEMMA SafetyInit == Init => Safety
<1> SUFFICES ASSUME Init PROVE Safety
  OBVIOUS
<1>1. Len(queue) = 0 /\ Len(printed) = 0
  BY DEF Init
<1>2. Conservation /\ DeliveryKnown /\ QueueOneSession
  BY <1>1 DEF Init, Conservation, DeliveryKnown, QueueOneSession, NoPrinter, used
<1>3. Blocks /\ Resets
  BY DEF Init, Blocks, Resets, NoPrinter
<1> QED
  BY <1>2, <1>3 DEF Safety

\* A write of bytes of one job keeps the invariant.
LEMMA SafetyByWrite ==
  ASSUME TypeOK, Safety, NEW data \in Seq(Byte), NEW expected, Write(data, expected),
         \A i \in 1 .. Len(data) : data[i].job = expected
  PROVE  Safety'
<1> USE DEF TypeOK, Safety
<1>1. /\ used \in Nat /\ Len(printed) \in Nat /\ Len(tx_buf) \in Nat
      /\ Len(staging) \in Nat
  BY UsedType, LenProperties DEF Streams
<1>2. PICK n \in 0 .. Len(data) :
        /\ queue' = queue \o SubSeq(data, 1, n)
        /\ queue' \in Seq(Byte)
        /\ used' = used + n /\ used' <= QueueSize
        /\ accepted' = accepted + n
        /\ n > 0 => meant(expected)
  BY WriteType
<1>3. n \in Nat
  BY LenProperties
<1>4. resetting => queue' = queue
  BY DEF Write, meant, writable
<1>5. Conservation'
  BY <1>1, <1>2, <1>3 DEF Write, Conservation, Numbers, host
<1>6. Blocks'
  BY DEF Write, Blocks, host
<1>7. Resets'
  BY <1>4 DEF Write, Resets, flags, host
<1>8. DeliveryKnown'
  BY DEF Write, DeliveryKnown
<1>9. QueueOneSession'
  <2>1. CASE n = 0
    <3>1. queue' = queue
      BY <1>2, <2>1, SubSeqEmpty, ConcatEmptySeq DEF Streams
    <3> QED
      BY <3>1 DEF Write, QueueOneSession, used, flags
  <2>2. CASE n > 0
    <3>1. expected = session /\ ~resetting
      BY <1>2, <2>2 DEF meant, writable
    <3>2. \A i \in 1 .. used : queue[i].job = session
      BY <3>1 DEF QueueOneSession
    <3>3. queue \in Seq(Byte) /\ \A i \in 1 .. Len(queue) : queue[i].job = session
      BY <3>2 DEF Streams, used
    <3>4. \A i \in 1 .. used' : queue'[i].job = session
      BY <1>2, <3>1, <3>3, JobsOfWrite DEF used
    <3>5. used' \in Nat /\ session \in Nat /\ session' = session
      BY <1>1, <1>2, <1>3 DEF Write, Numbers
    <3>6. \A i \in 1 .. used' : 1 \in 1 .. used'
      BY <3>5
    <3> QED
      BY <3>4, <3>5, <3>6 DEF QueueOneSession
  <2> QED
    BY <1>3, <2>1, <2>2
<1> QED
  BY <1>5, <1>6, <1>7, <1>8, <1>9

\* So do the steps that do not write.
LEMMA SafetyByRest == TypeOK /\ Safety /\ [Reset \/ Usb]_vars => Safety'
<1> SUFFICES ASSUME Streams, Numbers, Flags, Driver,
                    Conservation, Blocks, Resets, DeliveryKnown, QueueOneSession,
                    [Reset \/ Usb]_vars
             PROVE  /\ Conservation' /\ Blocks' /\ Resets' /\ DeliveryKnown'
                    /\ QueueOneSession'
  BY DEF TypeOK, Safety
<1>0. /\ used \in Nat /\ Len(printed) \in Nat /\ Len(tx_buf) \in Nat
      /\ Len(staging) \in Nat
  BY UsedType, LenProperties DEF Streams
<1>2. CASE Reset
  <2>1. Conservation'
    BY <1>0, <1>2 DEF Reset, Conservation, used, host, counters
  <2>2. Blocks'
    BY <1>0, <1>2 DEF Reset, Blocks, host
  <2>3. Resets'
    BY <1>0, <1>2 DEF Reset, Resets, host
  <2>4. DeliveryKnown'
    BY <1>0, <1>2 DEF Reset, DeliveryKnown, counters
  <2>5. QueueOneSession'
    BY <1>0, <1>2 DEF Reset, QueueOneSession, used, Numbers
  <2> QED
    BY <2>1, <2>2, <2>3, <2>4, <2>5
<1>3. CASE Open
  <2>1. Conservation'
    BY <1>0, <1>3 DEF Open, Conservation, used, counters, NoPrinter
  <2>2. Blocks'
    <3>1. /\ ~info'.mounted /\ ~info'.tx_busy /\ info'.address
          /\ ~info.mounted /\ control' = control
      BY <1>3 DEF Open, Blocks, NoPrinter
    <3>2. usb_pc' = "loop"
      BY <1>3 DEF Open
    <3> QED
      BY <3>1, <3>2 DEF Blocks
  <2>3. Resets'
    BY <1>0, <1>3 DEF Open, Resets, NoPrinter, flags
  <2>4. DeliveryKnown'
    BY <1>0, <1>3 DEF Open, DeliveryKnown, counters
  <2>5. QueueOneSession'
    BY <1>0, <1>3 DEF Open, QueueOneSession, used, flags
  <2> QED
    BY <2>1, <2>2, <2>3, <2>4, <2>5
<1>4. CASE SetConfig
  <2>0. queue' = <<>> /\ used' = 0 /\ discarded' = discarded + used
    BY <1>4, DiscardType DEF SetConfig
  <2>1. Conservation'
    BY <1>0, <1>4, <2>0 DEF SetConfig, Conservation, Blocks, Numbers, Driver
  <2>2. Blocks'
    BY <1>4 DEF SetConfig, Blocks, Driver
  <2>3. Resets'
    BY <1>4 DEF SetConfig, Blocks, Resets, Driver
  <2>4. DeliveryKnown'
    BY <1>4 DEF SetConfig, DeliveryKnown
  <2>5. QueueOneSession'
    BY <2>0 DEF QueueOneSession
  <2> QED
    BY <2>1, <2>2, <2>3, <2>4, <2>5
<1>5. CASE Close
  <2>0. queue' = <<>> /\ used' = 0 /\ discarded' = discarded + used
    BY <1>5, DiscardType DEF Close
  <2>1. Conservation'
    BY <1>0, <1>5, <2>0 DEF Close, Conservation, NoPrinter, Numbers
  <2>2. Blocks'
    BY <1>5 DEF Close, Blocks, NoPrinter
  <2>3. Resets'
    BY <1>5 DEF Close, Resets, NoPrinter
  <2>4. DeliveryKnown'
    <3>1. PICK taken \in 0 .. (IF info.tx_busy THEN Len(tx_buf) ELSE 0) :
            printed' = printed \o SubSeq(tx_buf, 1, taken)
      BY <1>5 DEF Close
    <3>2. taken \in 0 .. Len(tx_buf) /\ taken <= in_flight
      BY <1>0, <3>1 DEF Conservation, Numbers
    <3>3. Len(printed') = Len(printed) + taken
      BY <3>1, <3>2, TakenType
    <3>4. completed' = completed /\ uncertain' = uncertain + in_flight
      BY <1>5 DEF Close, doubt
    <3> QED
      BY <1>0, <3>2, <3>3, <3>4 DEF DeliveryKnown, Numbers
  <2>5. QueueOneSession'
    BY <2>0 DEF QueueOneSession
  <2> QED
    BY <2>1, <2>2, <2>3, <2>4, <2>5
<1>6. CASE \E success \in BOOLEAN : TransferDone(success)
  <2> PICK success \in BOOLEAN : TransferDone(success)
    BY <1>6
  <2>a. info.tx_busy /\ in_flight > 0 /\ in_flight = Len(tx_buf) /\ in_flight <= used
    BY DEF TransferDone, Blocks, Conservation
  <2>b. in_flight \in 0 .. Len(queue) /\ queue \in Seq(Byte)
    BY <1>0, <2>a DEF Streams, Numbers, used
  <2>c. success => /\ queue' = SubSeq(queue, in_flight + 1, used)
                   /\ used' = used - in_flight
                   /\ \A i \in 1 .. used' : queue'[i] = queue[in_flight + i]
    <3>1. /\ Len(SubSeq(queue, in_flight + 1, Len(queue))) = Len(queue) - in_flight
          /\ \A i \in 1 .. Len(queue) - in_flight :
               SubSeq(queue, in_flight + 1, Len(queue))[i] = queue[in_flight + i]
      BY <2>b, SuffixLemma
    <3>2. success => queue' = SubSeq(queue, in_flight + 1, Len(queue))
      BY <2>a DEF TransferDone, used
    <3> QED
      BY <3>1, <3>2 DEF used
  <2>d. ~success => queue' = queue /\ used' = used
    BY <2>a DEF TransferDone, used
  <2>1. Conservation'
    <3>1. ~info'.tx_busy /\ in_flight' = 0
      BY <2>a DEF TransferDone, Driver
    <3>2. /\ success => completed' = completed + in_flight
          /\ ~success => completed' = completed
          /\ accepted' = accepted /\ discarded' = discarded
      BY <2>a DEF TransferDone
    <3> QED
      BY <1>0, <2>a, <2>c, <2>d, <3>1, <3>2 DEF Conservation, Numbers
  <2>2. Blocks'
    BY DEF TransferDone, Blocks, Driver
  <2>3. Resets'
    BY <2>a DEF TransferDone, Resets
  <2>4. DeliveryKnown'
    <3>1. \E taken \in IF success THEN {Len(tx_buf)} ELSE 0 .. Len(tx_buf) :
            printed' = printed \o SubSeq(tx_buf, 1, taken)
      BY DEF TransferDone
    <3>2. PICK taken \in 0 .. Len(tx_buf) :
            /\ printed' = printed \o SubSeq(tx_buf, 1, taken)
            /\ success => taken = Len(tx_buf)
      <4>1. CASE success
        BY <1>0, <3>1, <4>1
      <4>2. CASE ~success
        BY <3>1, <4>2
      <4> QED
        BY <4>1, <4>2
    <3>3. Len(printed') = Len(printed) + taken
      BY <3>2, TakenType
    <3>4. /\ success => completed' = completed + in_flight /\ uncertain' = uncertain
          /\ ~success => completed' = completed /\ uncertain' = uncertain + in_flight
      BY <2>a DEF TransferDone, doubt
    <3> QED
      BY <1>0, <2>a, <3>2, <3>3, <3>4 DEF DeliveryKnown, Numbers
  <2>5. QueueOneSession'
    <3>1. session' = session /\ resetting' = resetting
      BY DEF TransferDone
    <3>2. CASE success
      <4>1. SUFFICES ASSUME NEW i \in 1 .. used'
                     PROVE  /\ queue'[i].job <= session
                            /\ queue'[i].job = session \/ resetting
                            /\ queue'[i].job = queue'[1].job
        BY <3>1 DEF QueueOneSession
      <4>2. /\ in_flight + i \in 1 .. used /\ in_flight + 1 \in 1 .. used
            /\ 1 \in 1 .. used'
        BY <1>0, <2>a, <2>c, <3>2 DEF Numbers
      <4>3. queue'[i] = queue[in_flight + i] /\ queue'[1] = queue[in_flight + 1]
        BY <2>c, <3>2, <4>2
      <4> QED
        BY <4>2, <4>3 DEF QueueOneSession
    <3>3. CASE ~success
      BY <2>d, <3>1, <3>3 DEF QueueOneSession
    <3> QED
      BY <3>2, <3>3
  <2> QED
    BY <2>1, <2>2, <2>3, <2>4, <2>5
<1>7. CASE \E success \in BOOLEAN : ResetDone(success)
  <2>0. queue = <<>> /\ used = 0 /\ ~info.tx_busy
    BY <1>7 DEF ResetDone, Resets, used
  <2>1. Conservation'
    BY <1>7 DEF ResetDone, Conservation, Driver, counters, used
  <2>2. Blocks'
    BY <1>7 DEF ResetDone, Blocks, Driver
  <2>3. Resets'
    BY <1>7 DEF ResetDone, Resets, Driver
  <2>4. DeliveryKnown'
    BY <1>7 DEF ResetDone, DeliveryKnown, counters
  <2>5. QueueOneSession'
    <3>1. used' = 0
      BY <1>7, <2>0 DEF ResetDone, used
    <3> QED
      BY <3>1 DEF QueueOneSession
  <2> QED
    BY <2>1, <2>2, <2>3, <2>4, <2>5
<1>8. CASE \E valid, port \in BOOLEAN : QueryDone(valid, port)
  <2>1. Conservation'
    BY <1>0, <1>8 DEF QueryDone, Conservation, used, counters, Driver
  <2>2. Blocks'
    BY <1>0, <1>8 DEF QueryDone, Blocks, Driver
  <2>3. Resets'
    BY <1>0, <1>8 DEF QueryDone, Resets, Driver
  <2>4. DeliveryKnown'
    BY <1>0, <1>8 DEF QueryDone, DeliveryKnown, counters
  <2>5. QueueOneSession'
    BY <1>0, <1>8 DEF QueryDone, QueueOneSession, used
  <2> QED
    BY <2>1, <2>2, <2>3, <2>4, <2>5
<1>9. CASE HostTick
  <2>1. Conservation'
    BY <1>0, <1>9 DEF HostTick, Conservation, used, counters
  <2>2. Blocks'
    BY <1>0, <1>9 DEF HostTick, Blocks
  <2>3. Resets'
    BY <1>0, <1>9 DEF HostTick, Resets, flags
  <2>4. DeliveryKnown'
    BY <1>0, <1>9 DEF HostTick, DeliveryKnown, counters
  <2>5. QueueOneSession'
    BY <1>0, <1>9 DEF HostTick, QueueOneSession, used, flags
  <2> QED
    BY <2>1, <2>2, <2>3, <2>4, <2>5
<1>10. CASE TickReset
  <2>0. queue' = <<>> /\ used' = 0 /\ discarded' = discarded + used
    BY <1>10, DiscardType DEF TickReset
  <2>1. Conservation'
    BY <1>0, <1>10, <2>0 DEF TickReset, Conservation, Blocks, Numbers, host
  <2>2. Blocks'
    BY <1>10 DEF TickReset, Blocks, host
  <2>3. Resets'
    BY <1>10, <2>0 DEF TickReset, Resets, host
  <2>4. DeliveryKnown'
    BY <1>10 DEF TickReset, DeliveryKnown
  <2>5. QueueOneSession'
    BY <2>0 DEF QueueOneSession
  <2> QED
    BY <2>1, <2>2, <2>3, <2>4, <2>5
<1>11. CASE TickReserve
  <2>0. /\ in_flight' \in 1 .. used /\ ~info.tx_busy /\ used' = used
        /\ staging' = SubSeq(queue, 1, in_flight') /\ Len(staging') = in_flight'
    <3> DEFINE n == IF used < TransferSize THEN used ELSE TransferSize
    <3>1. used # 0
      BY <1>11, EmptySeq DEF TickReserve, Streams, used
    <3>2. n \in 1 .. used /\ n \in 0 .. Len(queue)
      BY <1>0, <3>1, PrinterAssumption DEF used
    <3>3. in_flight' = n /\ staging' = SubSeq(queue, 1, n) /\ queue' = queue
      BY <1>11 DEF TickReserve
    <3> HIDE DEF n
    <3>4. Len(staging') = n
      BY <3>2, <3>3, PrefixLemma DEF Streams
    <3>5. ~info.tx_busy
      BY <1>11 DEF TickReserve, Blocks
    <3> QED
      BY <3>2, <3>3, <3>4, <3>5 DEF used
  <2>1. Conservation'
    BY <1>0, <1>11, <2>0 DEF TickReserve, Conservation, counters, host
  <2>2. Blocks'
    BY <1>0, <1>11, <2>0 DEF TickReserve, Blocks, host
  <2>3. Resets'
    BY <1>11 DEF TickReserve, Resets, writable, host
  <2>4. DeliveryKnown'
    BY <1>11 DEF TickReserve, DeliveryKnown, counters
  <2>5. QueueOneSession'
    BY <1>11 DEF TickReserve, QueueOneSession, flags, used
  <2> QED
    BY <2>1, <2>2, <2>3, <2>4, <2>5
<1>12. CASE \E pipe \in BOOLEAN : SubmitReset(pipe)
  <2>1. Conservation'
    BY <1>0, <1>12 DEF SubmitReset, Conservation, used, counters
  <2>2. Blocks'
    BY <1>0, <1>12 DEF SubmitReset, Blocks
  <2>3. Resets'
    BY <1>0, <1>12 DEF SubmitReset, Resets, flags
  <2>4. DeliveryKnown'
    BY <1>0, <1>12 DEF SubmitReset, DeliveryKnown, counters
  <2>5. QueueOneSession'
    BY <1>0, <1>12 DEF SubmitReset, QueueOneSession, used, flags
  <2> QED
    BY <2>1, <2>2, <2>3, <2>4, <2>5
<1>13. CASE \E pipe \in BOOLEAN : SubmitWrite(pipe)
  <2>1. Conservation'
    BY <1>0, <1>13 DEF SubmitWrite, Conservation, used, counters, Blocks, Driver
  <2>2. Blocks'
    BY <1>0, <1>13 DEF SubmitWrite, Blocks, Driver
  <2>3. Resets'
    BY <1>0, <1>13 DEF SubmitWrite, Resets, Blocks, Driver, flags
  <2>4. DeliveryKnown'
    BY <1>0, <1>13 DEF SubmitWrite, DeliveryKnown, counters
  <2>5. QueueOneSession'
    BY <1>0, <1>13 DEF SubmitWrite, QueueOneSession, used, flags
  <2> QED
    BY <2>1, <2>2, <2>3, <2>4, <2>5
<1>14. CASE UndoReset
  <2>1. Conservation'
    BY <1>0, <1>14 DEF UndoReset, Conservation, used, counters, host
  <2>2. Blocks'
    BY <1>0, <1>14 DEF UndoReset, Blocks, host
  <2>3. Resets'
    BY <1>0, <1>14 DEF UndoReset, Resets, host
  <2>4. DeliveryKnown'
    BY <1>0, <1>14 DEF UndoReset, DeliveryKnown, counters
  <2>5. QueueOneSession'
    BY <1>0, <1>14 DEF UndoReset, QueueOneSession, used
  <2> QED
    BY <2>1, <2>2, <2>3, <2>4, <2>5
<1>15. CASE UndoWrite
  <2>1. Conservation'
    BY <1>0, <1>15 DEF UndoWrite, Conservation, used, counters, host, Numbers, Blocks
  <2>2. Blocks'
    BY <1>0, <1>15 DEF UndoWrite, Blocks, host
  <2>3. Resets'
    BY <1>0, <1>15 DEF UndoWrite, Resets, host, flags
  <2>4. DeliveryKnown'
    BY <1>0, <1>15 DEF UndoWrite, DeliveryKnown, counters
  <2>5. QueueOneSession'
    BY <1>0, <1>15 DEF UndoWrite, QueueOneSession, used, flags
  <2> QED
    BY <2>1, <2>2, <2>3, <2>4, <2>5
<1>16. CASE UNCHANGED vars
  <2>1. Conservation'
    BY <1>0, <1>16 DEF vars, Conservation, used, counters, host
  <2>2. Blocks'
    BY <1>0, <1>16 DEF vars, Blocks, host
  <2>3. Resets'
    BY <1>0, <1>16 DEF vars, Resets, host, flags
  <2>4. DeliveryKnown'
    BY <1>0, <1>16 DEF vars, DeliveryKnown, counters
  <2>5. QueueOneSession'
    BY <1>0, <1>16 DEF vars, QueueOneSession, used, flags
  <2> QED
    BY <2>1, <2>2, <2>3, <2>4, <2>5
<1> QED
  BY <1>2, <1>3, <1>4, <1>5, <1>6, <1>7, <1>8, <1>9, <1>10, <1>11, <1>12,
     <1>13, <1>14, <1>15, <1>16 DEF Usb

\* Every step keeps the safety part of the inductive invariant.
LEMMA SafetyStep == TypeOK /\ Safety /\ [Next]_vars => Safety'
<1> SUFFICES ASSUME TypeOK, Safety, [Next]_vars PROVE Safety'
  OBVIOUS
<1>1. CASE Producer
  BY <1>1, ProducerWrites, SafetyByWrite DEF TypeOK
<1>2. CASE [Reset \/ Usb]_vars
  BY <1>2, SafetyByRest
<1> QED
  BY <1>1, <1>2 DEF Next

\* The invariant all the theorems below come from.
LEMMA SafetyHolds == Spec => [](TypeOK /\ Safety)
<1>1. Init => TypeOK /\ Safety
  BY TypeInit, SafetyInit
<1>2. TypeOK /\ Safety /\ [Next]_vars => (TypeOK /\ Safety)'
  BY TypeStep, SafetyStep
<1> QED
  BY <1>1, <1>2, PTL DEF Spec

\* No accepted byte is ever lost from the books: each is confirmed, discarded
\* or still queued, and the block in flight is the head of the queue.
THEOREM BytesConserved == Spec => []Conservation
<1>1. Safety => Conservation
  BY DEF Safety
<1> QED
  BY <1>1, SafetyHolds, PTL

\* No byte of a job joins another one across a reset or a reconnection.
THEOREM OneSession == Spec => []QueueOneSession
<1>1. Safety => QueueOneSession
  BY DEF Safety
<1> QED
  BY <1>1, SafetyHolds, PTL

\* The counters bound what the printer took from both sides.
THEOREM CountersTrue == Spec => []DeliveryKnown
<1>1. Safety => DeliveryKnown
  BY DEF Safety
<1> QED
  BY <1>1, SafetyHolds, PTL

\* SOFT_RESET never runs beside a bulk transfer or before what is left of the
\* job was discarded.
THEOREM ResetAlone == Spec => []ResetQuiesced
<1>1. Safety => ResetQuiesced
  BY DEF Safety, Resets, ResetQuiesced
<1> QED
  BY <1>1, SafetyHolds, PTL

-----------------------------------------------------------------------------
(* Refinement.  Every step of the service is a step of PrintStream or leaves *)
(* its variables alone.  What it takes, beside Safety, is to know that the   *)
(* block on the wire is the head of the queue of a service without fault.    *)

OnWire ==
  /\ info.tx_busy => ~fault /\ ~info.fault /\ tx_buf = SubSeq(queue, 1, in_flight)
  /\ usb_pc = "write" => ~fault /\ staging = SubSeq(queue, 1, in_flight)

\* A write does not touch the block in flight.
LEMMA OnWireByWrite ==
  ASSUME TypeOK, Safety, OnWire, NEW data \in Seq(Byte), NEW expected, Write(data, expected)
  PROVE  OnWire'
<1> USE DEF TypeOK, Safety
<1>1. PICK n \in 0 .. Len(data) : queue' = queue \o SubSeq(data, 1, n)
  BY WriteType
<1>2. queue \in Seq(Byte) /\ SubSeq(data, 1, n) \in Seq(Byte) /\ Len(SubSeq(data, 1, n)) = n
  BY PrefixLemma DEF Streams
<1>3. in_flight \in 0 .. Len(queue)
  BY UsedType DEF Conservation, Numbers, used
<1> DEFINE d == SubSeq(data, 1, n)
<1>4. SubSeq(queue \o d, 1, in_flight) = SubSeq(queue, 1, in_flight)
  <2>1. /\ queue \o d \in Seq(Byte) /\ Len(queue \o d) = Len(queue) + n
        /\ \A i \in 1 .. Len(queue) + n : (queue \o d)[i] = IF i <= Len(queue) THEN queue[i]
                                                           ELSE d[i - Len(queue)]
    BY <1>2, ConcatProperties
  <2>2. Len(queue) \in Nat /\ n \in Nat
    BY <1>2, LenProperties
  <2> HIDE DEF d
  <2>3. in_flight \in 0 .. Len(queue \o d)
    BY <1>3, <2>1, <2>2
  <2>4. /\ SubSeq(queue \o d, 1, in_flight) \in Seq(Byte)
        /\ Len(SubSeq(queue \o d, 1, in_flight)) = in_flight
        /\ \A i \in 1 .. in_flight : SubSeq(queue \o d, 1, in_flight)[i] = (queue \o d)[i]
    BY <2>1, <2>3, PrefixLemma
  <2>5. /\ SubSeq(queue, 1, in_flight) \in Seq(Byte)
        /\ Len(SubSeq(queue, 1, in_flight)) = in_flight
        /\ \A i \in 1 .. in_flight : SubSeq(queue, 1, in_flight)[i] = queue[i]
    BY <1>2, <1>3, PrefixLemma
  <2>6. \A i \in 1 .. in_flight : (queue \o d)[i] = queue[i]
    BY <1>3, <2>1, <2>2
  <2> QED
    BY <2>4, <2>5, <2>6, SeqEqual
<1>5. UNCHANGED <<info, fault, in_flight, tx_buf, staging, usb_pc>>
  BY DEF Write, flags, host
<1> QED
  BY <1>1, <1>4, <1>5 DEF OnWire

\* The other steps keep the block on the wire, or take it off.
LEMMA OnWireByRest ==
  ASSUME TypeOK, Safety, OnWire, [Reset \/ Usb]_vars
  PROVE  OnWire'
<1> USE DEF TypeOK, Safety, Driver
<1>1. CASE Reset
  BY <1>1 DEF Reset, OnWire, host
<1>2. CASE Open \/ SetConfig \/ Close
  BY <1>2 DEF Open, SetConfig, Close, OnWire, NoPrinter, Blocks
<1>3. CASE \E success \in BOOLEAN : TransferDone(success)
  BY <1>3 DEF TransferDone, OnWire
<1>4. CASE \E success \in BOOLEAN : ResetDone(success)
  BY <1>4 DEF ResetDone, OnWire, Resets
<1>5. CASE \E valid, port \in BOOLEAN : QueryDone(valid, port)
  BY <1>5 DEF QueryDone, OnWire
<1>6. CASE HostTick
  BY <1>6 DEF HostTick, OnWire, flags
<1>7. CASE TickReset
  <2>1. in_flight = 0 /\ usb_pc = "loop" /\ info' = info
    BY <1>7 DEF TickReset, host
  <2>2. usb_pc' # "write"
    BY <1>7, <2>1 DEF TickReset
  <2>3. ~info.tx_busy
    BY <2>1 DEF Blocks
  <2> QED
    BY <2>1, <2>2, <2>3 DEF OnWire
<1>8. CASE TickReserve
  BY <1>8 DEF TickReserve, OnWire, Blocks, host, flags, writable
<1>9. CASE \E pipe \in BOOLEAN : SubmitReset(pipe)
  BY <1>9 DEF SubmitReset, OnWire, flags
<1>10. CASE \E pipe \in BOOLEAN : SubmitWrite(pipe)
  BY <1>10 DEF SubmitWrite, OnWire, Blocks, flags
<1>11. CASE UndoReset \/ UndoWrite
  BY <1>11 DEF UndoReset, UndoWrite, OnWire, Blocks, flags, host
<1>12. CASE UNCHANGED vars
  BY <1>12 DEF vars, OnWire, flags, host
<1> QED
  BY <1>1, <1>2, <1>3, <1>4, <1>5, <1>6, <1>7, <1>8, <1>9, <1>10, <1>11, <1>12 DEF Usb

\* What the steps that do not write do to the stream.
StreamMoves ==
  \/ Stream!Confirm \/ Stream!Interrupt \/ Stream!Abort \/ Stream!Clear
  \/ UNCHANGED <<queue, printed, fault>>

\* A prefix of the block in flight is one of the queue.
LEMMA TakenPrefix ==
  ASSUME TypeOK, Safety, info.tx_busy, OnWire, NEW taken \in 0 .. Len(tx_buf)
  PROVE  SubSeq(tx_buf, 1, taken) = SubSeq(queue, 1, taken) /\ taken \in 0 .. Len(queue)
<1> USE DEF TypeOK, Safety
<1>1. /\ tx_buf \in Seq(Byte) /\ queue \in Seq(Byte) /\ in_flight = Len(tx_buf)
      /\ in_flight <= Len(queue) /\ tx_buf = SubSeq(queue, 1, in_flight)
  BY DEF Streams, Conservation, OnWire, used
<1>2. in_flight \in 0 .. Len(queue) /\ taken \in 0 .. Len(queue)
  BY <1>1, LenProperties
<1>3. /\ SubSeq(tx_buf, 1, taken) \in Seq(Byte) /\ Len(SubSeq(tx_buf, 1, taken)) = taken
      /\ \A i \in 1 .. taken : SubSeq(tx_buf, 1, taken)[i] = tx_buf[i]
  BY <1>1, PrefixLemma
<1>4. /\ SubSeq(queue, 1, taken) \in Seq(Byte) /\ Len(SubSeq(queue, 1, taken)) = taken
      /\ \A i \in 1 .. taken : SubSeq(queue, 1, taken)[i] = queue[i]
  BY <1>1, <1>2, PrefixLemma
<1>5. \A i \in 1 .. in_flight : tx_buf[i] = queue[i]
  BY <1>1, <1>2, PrefixLemma
<1>6. \A i \in 1 .. taken : tx_buf[i] = queue[i]
  <2>1. \A i \in 1 .. taken : i \in 1 .. in_flight
    BY <1>1, <1>2
  <2> QED
    BY <1>5, <2>1
<1> QED
  BY <1>2, <1>3, <1>4, <1>6, SeqEqual

\* Nothing printed.
LEMMA NothingTaken == TypeOK => printed = printed \o Stream!Prefix(0)
<1>1. SubSeq(queue, 1, 0) = <<>>
  BY SubSeqEmpty
<1> QED
  BY <1>1, ConcatEmptySeq DEF TypeOK, Streams, Stream!Prefix

\* The steps that are no write are moves of the promised stream, or stutter.
LEMMA StreamByRest ==
  ASSUME TypeOK, Safety, OnWire, [Reset \/ Usb]_vars
  PROVE  StreamMoves
<1>1. CASE Reset
  BY <1>1 DEF Reset, StreamMoves
<1>2. CASE Open
  BY <1>2 DEF Open, StreamMoves, flags
<1>3. CASE SetConfig
  <2>1. queue' = <<>> /\ fault' \in BOOLEAN /\ UNCHANGED printed
    BY <1>3 DEF SetConfig, discard, TypeOK, Driver
  <2> QED
    BY <2>1 DEF StreamMoves, Stream!Clear
<1>4. CASE Close
  <2>1. queue' = <<>> /\ fault' \in BOOLEAN
    BY <1>4 DEF Close, discard, TypeOK, Flags
  <2>2. PICK taken \in 0 .. (IF info.tx_busy THEN Len(tx_buf) ELSE 0) :
          printed' = printed \o SubSeq(tx_buf, 1, taken)
    BY <1>4 DEF Close
  <2>3. CASE info.tx_busy
    <3>1. taken \in 0 .. Len(tx_buf) /\ ~fault
      BY <2>2, <2>3 DEF OnWire
    <3>2. taken \in 0 .. Len(queue) /\ printed' = printed \o Stream!Prefix(taken)
      BY <2>2, <2>3, <3>1, TakenPrefix DEF Stream!Prefix
    <3> QED
      BY <2>1, <3>1, <3>2 DEF StreamMoves, Stream!Abort
  <2>4. CASE ~info.tx_busy
    <3>1. taken = 0
      BY <2>2, <2>4
    <3>2. printed' = printed
      BY <2>2, <3>1, SubSeqEmpty, ConcatEmptySeq DEF TypeOK, Streams
    <3> QED
      BY <2>1, <3>2 DEF StreamMoves, Stream!Clear
  <2> QED
    BY <2>3, <2>4
<1>5. CASE \E success \in BOOLEAN : TransferDone(success)
  <2> PICK success \in BOOLEAN : TransferDone(success)
    BY <1>5
  <2>1. /\ info.tx_busy /\ in_flight > 0 /\ in_flight = Len(tx_buf) /\ in_flight <= used
        /\ ~fault /\ ~info.fault /\ in_flight \in Nat /\ Len(queue) \in Nat
    BY UsedType DEF TransferDone, TypeOK, Numbers, Safety, Blocks, Conservation, OnWire, used
  <2>2. in_flight \in 1 .. Len(queue)
    BY <2>1 DEF used
  <2>3. CASE success
    <3>1. \E taken \in {Len(tx_buf)} : printed' = printed \o SubSeq(tx_buf, 1, taken)
      BY <2>3 DEF TransferDone
    <3>2. Len(tx_buf) \in 0 .. Len(tx_buf)
      BY <2>1
    <3>3. printed' = printed \o Stream!Prefix(in_flight)
      BY <2>1, <3>1, <3>2, TakenPrefix DEF Stream!Prefix
    <3>4. queue' = SubSeq(queue, in_flight + 1, Len(queue))
      BY <2>1, <2>3 DEF TransferDone, used
    <3>5. fault' = fault
      BY <2>1, <2>3 DEF TransferDone, TypeOK, Flags, Driver
    <3> QED
      BY <2>1, <2>2, <3>3, <3>4, <3>5 DEF StreamMoves, Stream!Confirm
  <2>4. CASE ~success
    <3>1. PICK taken \in 0 .. Len(tx_buf) : printed' = printed \o SubSeq(tx_buf, 1, taken)
      BY <2>4 DEF TransferDone
    <3>2. taken \in 0 .. Len(queue) /\ printed' = printed \o Stream!Prefix(taken)
      BY <2>1, <3>1, TakenPrefix DEF Stream!Prefix
    <3>3. queue' = queue /\ fault' = TRUE
      BY <2>1, <2>4 DEF TransferDone
    <3> QED
      BY <2>1, <3>2, <3>3 DEF StreamMoves, Stream!Interrupt
  <2> QED
    BY <2>3, <2>4
<1>6. CASE \E success \in BOOLEAN : ResetDone(success)
  <2>1. queue' = <<>> /\ UNCHANGED printed
    BY <1>6 DEF ResetDone, Safety, Resets
  <2>2. fault' \in BOOLEAN
    BY <1>6 DEF ResetDone, TypeOK, Flags, Driver
  <2> QED
    BY <2>1, <2>2 DEF StreamMoves, Stream!Clear
<1>7. CASE \E valid, port \in BOOLEAN : QueryDone(valid, port)
  <2>1. UNCHANGED <<queue, printed>> /\ fault' = (fault \/ (info.fault /\ connected))
    BY <1>7 DEF QueryDone
  <2>2. CASE fault' = fault
    BY <2>1, <2>2 DEF StreamMoves
  <2>3. CASE fault' # fault
    <3>1. ~fault /\ fault' = TRUE
      BY <2>1, <2>3 DEF TypeOK, Flags, Driver
    <3>2. 0 \in 0 .. Len(queue) /\ printed' = printed \o Stream!Prefix(0)
      BY <2>1, NothingTaken, UsedType DEF TypeOK, used
    <3> QED
      BY <2>1, <3>1, <3>2 DEF StreamMoves, Stream!Interrupt
  <2> QED
    BY <2>2, <2>3
<1>8. CASE TickReset
  <2>1. queue' = <<>> /\ fault' \in BOOLEAN /\ UNCHANGED printed
    BY <1>8 DEF TickReset, discard, TypeOK, Flags
  <2> QED
    BY <2>1 DEF StreamMoves, Stream!Clear
<1>9. CASE HostTick \/ TickReserve \/ UndoReset \/ UndoWrite
  BY <1>9 DEF HostTick, TickReserve, UndoReset, UndoWrite, StreamMoves, flags
<1>10. CASE \E pipe \in BOOLEAN : SubmitReset(pipe) \/ SubmitWrite(pipe)
  BY <1>10 DEF SubmitReset, SubmitWrite, StreamMoves, flags
<1>11. CASE UNCHANGED vars
  BY <1>11 DEF vars, StreamMoves, flags
<1> QED
  BY <1>1, <1>2, <1>3, <1>4, <1>5, <1>6, <1>7, <1>8, <1>9, <1>10, <1>11 DEF Usb

\* What a write does to the stream.
LEMMA StreamByWrite ==
  ASSUME TypeOK, NEW data \in Seq(Byte), NEW expected, Write(data, expected)
  PROVE  Stream!Accept \/ UNCHANGED <<queue, printed, fault>>
<1>1. PICK n \in 0 .. Len(data) :
        /\ queue' = queue \o SubSeq(data, 1, n)
        /\ queue' \in Seq(Byte) /\ used' = used + n
        /\ n > 0 => meant(expected)
  BY WriteType DEF TypeOK
<1>2. /\ queue \in Seq(Byte) /\ SubSeq(data, 1, n) \in Seq(Byte) /\ Len(queue) \in Nat
      /\ n \in Nat /\ Len(SubSeq(data, 1, n)) = n
  BY PrefixLemma, LenProperties DEF TypeOK, Streams
<1>3. UNCHANGED <<printed, fault>>
  BY DEF Write, flags
<1>4. CASE n = 0
  <2>1. queue' = queue
    BY <1>1, <1>2, <1>4, SubSeqEmpty, ConcatEmptySeq
  <2> QED
    BY <1>3, <2>1
<1>5. CASE n > 0
  <2>1. ~fault
    BY <1>1, <1>5 DEF meant, writable
  <2>2. Len(queue') >= Len(queue)
    BY <1>1, <1>2 DEF used
  <2>3. SubSeq(queue', 1, Len(queue)) = queue
    <3> DEFINE d == SubSeq(data, 1, n)
    <3>1. /\ queue \o d \in Seq(Byte) /\ Len(queue \o d) = Len(queue) + n
          /\ \A i \in 1 .. Len(queue) + n : (queue \o d)[i] = IF i <= Len(queue) THEN queue[i]
                                                             ELSE d[i - Len(queue)]
      BY <1>2, ConcatProperties
    <3> HIDE DEF d
    <3>2. Len(queue) \in 0 .. Len(queue \o d)
      BY <1>2, <3>1
    <3>3. /\ SubSeq(queue \o d, 1, Len(queue)) \in Seq(Byte)
          /\ Len(SubSeq(queue \o d, 1, Len(queue))) = Len(queue)
          /\ \A i \in 1 .. Len(queue) : SubSeq(queue \o d, 1, Len(queue))[i] = (queue \o d)[i]
      BY <3>1, <3>2, PrefixLemma
    <3>4. \A i \in 1 .. Len(queue) : (queue \o d)[i] = queue[i]
      BY <1>2, <3>1
    <3>5. queue' = queue \o d
      BY <1>1 DEF d
    <3> QED
      BY <1>2, <3>3, <3>4, <3>5, SeqEqual
  <2> QED
    BY <1>1, <1>3, <2>1, <2>2, <2>3 DEF Stream!Accept
<1> QED
  BY <1>2, <1>4, <1>5

\* The invariant with the block on the wire.
LEMMA ServiceHolds == Spec => [](TypeOK /\ Safety /\ OnWire)
<1>1. Init => TypeOK /\ Safety /\ OnWire
  <2>1. Init => OnWire
    BY DEF Init, OnWire, NoPrinter
  <2> QED
    BY <2>1, TypeInit, SafetyInit
<1>2. TypeOK /\ Safety /\ OnWire /\ [Next]_vars => (TypeOK /\ Safety /\ OnWire)'
  <2> SUFFICES ASSUME TypeOK, Safety, OnWire, [Next]_vars PROVE OnWire'
    BY TypeStep, SafetyStep
  <2>1. CASE Producer
    BY <2>1, ProducerWrites, OnWireByWrite DEF TypeOK
  <2>2. CASE [Reset \/ Usb]_vars
    BY <2>2, OnWireByRest
  <2> QED
    BY <2>1, <2>2 DEF Next
<1> QED
  BY <1>1, <1>2, PTL DEF Spec

\* The service is a PrintStream: whatever printers come and go, transfers fail
\* and resets are asked for, it prints at most once, in order, and after an
\* interrupted block nothing more until the rest was thrown away.
THEOREM ServiceIsStream == Spec => StreamSpec
<1>1. Init => Stream!Init
  BY DEF Init, Stream!Init
<1>2. TypeOK /\ Safety /\ OnWire /\ [Next]_vars => [Stream!Next]_Stream!vars
  <2> SUFFICES ASSUME TypeOK, Safety, OnWire, [Next]_vars
               PROVE  [Stream!Next]_Stream!vars
    OBVIOUS
  <2>1. CASE Producer
    <3>1. Stream!Accept \/ UNCHANGED <<queue, printed, fault>>
      BY <2>1, ProducerWrites, StreamByWrite DEF TypeOK
    <3> QED
      BY <3>1 DEF Stream!Next, Stream!vars
  <2>2. CASE [Reset \/ Usb]_vars
    <3>1. StreamMoves
      BY <2>2, StreamByRest
    <3> QED
      BY <3>1 DEF StreamMoves, Stream!Next, Stream!vars
  <2> QED
    BY <2>1, <2>2 DEF Next
<1> QED
  BY <1>1, <1>2, ServiceHolds, PTL DEF Spec, StreamSpec, Stream!Spec

-----------------------------------------------------------------------------
(* Order.  It follows from the steps of the stream alone: a byte goes from   *)
(* the queue to the printer, and while the stream is not stopped everything  *)
(* printed is older than everything queued.                                  *)

Rising(s) == \A i, j \in 1 .. Len(s) : i < j => s[i].id < s[j].id
Below(s, u) == \A i \in 1 .. Len(s), j \in 1 .. Len(u) : s[i].id < u[j].id
Under(s, x) == \A i \in 1 .. Len(s) : s[i].id < x

InOrder ==
  /\ Rising(printed) /\ Rising(queue)
  /\ ~fault => Below(printed, queue)

\* What has an order keeps it when it is cut in two.
LEMMA CutOrder ==
  ASSUME NEW s \in Seq(Byte), NEW n \in 0 .. Len(s)
  PROVE  LET a == SubSeq(s, 1, n)
             b == SubSeq(s, n + 1, Len(s))
         IN  /\ a \in Seq(Byte) /\ b \in Seq(Byte)
             /\ Rising(s) => Rising(a) /\ Rising(b) /\ Below(a, b)
             /\ \A u : Below(u, s) => Below(u, a) /\ Below(u, b)
             /\ \A x : Under(s, x) => Under(a, x) /\ Under(b, x)
<1> DEFINE a == SubSeq(s, 1, n)
           b == SubSeq(s, n + 1, Len(s))
           m == Len(s)
<1>1. m \in Nat /\ n \in Nat /\ n <= m
  BY LenProperties
<1>2. /\ a \in Seq(Byte) /\ Len(a) = n
      /\ \A i \in 1 .. n : a[i] = s[i]
  BY PrefixLemma
<1>3. /\ b \in Seq(Byte) /\ Len(b) = m - n
      /\ \A i \in 1 .. m - n : b[i] = s[n + i]
  BY SuffixLemma
<1> HIDE DEF a, b
<1>4. \A i \in 1 .. n : i \in 1 .. m
  BY <1>1
<1>5. \A i \in 1 .. m - n : n + i \in 1 .. m
  BY <1>1
<1>6. ASSUME Rising(s)
      PROVE  Rising(a) /\ Rising(b) /\ Below(a, b)
  <2>1. Rising(a)
    BY <1>2, <1>4, <1>6 DEF Rising
  <2>2. Rising(b)
    <3> SUFFICES ASSUME NEW i \in 1 .. m - n, NEW j \in 1 .. m - n, i < j
                 PROVE  b[i].id < b[j].id
      BY <1>3 DEF Rising
    <3>1. n + i < n + j /\ n + i \in 1 .. m /\ n + j \in 1 .. m
      BY <1>1, <1>5
    <3> QED
      BY <1>3, <1>6, <3>1 DEF Rising
  <2>3. Below(a, b)
    <3> SUFFICES ASSUME NEW i \in 1 .. n, NEW j \in 1 .. m - n
                 PROVE  a[i].id < b[j].id
      BY <1>2, <1>3 DEF Below
    <3>1. i < n + j /\ i \in 1 .. m /\ n + j \in 1 .. m
      BY <1>1, <1>5
    <3> QED
      BY <1>2, <1>3, <1>6, <3>1 DEF Rising
  <2> QED
    BY <2>1, <2>2, <2>3
<1>7. ASSUME NEW u, Below(u, s)
      PROVE  Below(u, a) /\ Below(u, b)
  BY <1>2, <1>3, <1>4, <1>5, <1>7 DEF Below
<1>8. ASSUME NEW x, Under(s, x)
      PROVE  Under(a, x) /\ Under(b, x)
  BY <1>2, <1>3, <1>4, <1>5, <1>8 DEF Under
<1> QED
  BY <1>2, <1>3, <1>6, <1>7, <1>8 DEF a, b

\* What is put behind something older has an order.
LEMMA JoinOrder ==
  ASSUME NEW s \in Seq(Byte), NEW u \in Seq(Byte)
  PROVE  /\ s \o u \in Seq(Byte)
         /\ Rising(s) /\ Rising(u) /\ Below(s, u) => Rising(s \o u)
         /\ \A w : Below(s, w) /\ Below(u, w) => Below(s \o u, w)
         /\ \A w : Below(w, s) /\ Below(w, u) => Below(w, s \o u)
         /\ \A x : Under(s, x) /\ Under(u, x) => Under(s \o u, x)
<1> DEFINE c == s \o u
           n == Len(s)
           m == Len(u)
<1>1. n \in Nat /\ m \in Nat
  BY LenProperties
<1>2. /\ c \in Seq(Byte) /\ Len(c) = n + m
      /\ \A i \in 1 .. n + m : c[i] = IF i <= n THEN s[i] ELSE u[i - n]
  BY ConcatProperties
<1> HIDE DEF c
<1>3. \A i \in 1 .. n + m : \/ i \in 1 .. n /\ c[i] = s[i]
                            \/ i > n /\ i - n \in 1 .. m /\ c[i] = u[i - n]
  BY <1>1, <1>2
<1>4. ASSUME Rising(s), Rising(u), Below(s, u)
      PROVE  Rising(c)
  <2> SUFFICES ASSUME NEW i \in 1 .. n + m, NEW j \in 1 .. n + m, i < j
               PROVE  c[i].id < c[j].id
    BY <1>2 DEF Rising
  <2>1. CASE i \in 1 .. n /\ c[i] = s[i] /\ j \in 1 .. n /\ c[j] = s[j]
    BY <1>4, <2>1 DEF Rising
  <2>2. CASE i \in 1 .. n /\ c[i] = s[i] /\ j - n \in 1 .. m /\ c[j] = u[j - n]
    BY <1>4, <2>2 DEF Below
  <2>3. CASE i > n /\ i - n \in 1 .. m /\ c[i] = u[i - n]
    <3>1. j > n
      BY <1>1, <2>3
    <3>2. c[j] = u[j - n] /\ j - n \in 1 .. m
      BY <1>3, <3>1
    <3>3. i - n < j - n
      BY <1>1, <2>3
    <3> QED
      BY <1>4, <2>3, <3>2, <3>3 DEF Rising
  <2> QED
    BY <1>3, <2>1, <2>2, <2>3
<1>5. ASSUME NEW w, Below(s, w), Below(u, w)
      PROVE  Below(c, w)
  BY <1>2, <1>3, <1>5 DEF Below
<1>6. ASSUME NEW w, Below(w, s), Below(w, u)
      PROVE  Below(w, c)
  BY <1>2, <1>3, <1>6 DEF Below
<1>7. ASSUME NEW x, Under(s, x), Under(u, x)
      PROVE  Under(c, x)
  BY <1>2, <1>3, <1>7 DEF Under
<1> QED
  BY <1>2, <1>4, <1>5, <1>6, <1>7 DEF c

\* Nothing comes before or after nothing.
LEMMA EmptyOrder ==
  /\ Rising(<<>>) /\ \A s : Below(<<>>, s) /\ Below(s, <<>>)
  /\ \A x : Under(<<>>, x)
<1>1. Len(<<>>) = 0 /\ 1 .. 0 = {}
  OBVIOUS
<1> QED
  BY <1>1 DEF Rising, Below, Under

\* The steps of the stream keep the order, and nothing in it becomes newer.
LEMMA OrderByMoves ==
  ASSUME TypeOK, StreamMoves, InOrder
  PROVE  /\ InOrder'
         /\ \A x : Under(printed, x) /\ Under(queue, x) => Under(printed', x) /\ Under(queue', x)
<1>1. printed \in Seq(Byte) /\ queue \in Seq(Byte)
  BY DEF TypeOK, Streams
<1>2. ASSUME NEW n \in 0 .. Len(queue), ~fault, printed' = printed \o Stream!Prefix(n)
      PROVE  /\ Rising(printed')
             /\ Below(printed', SubSeq(queue, n + 1, Len(queue)))
             /\ \A x : Under(printed, x) /\ Under(queue, x) => Under(printed', x)
  <2> DEFINE a == SubSeq(queue, 1, n)
             b == SubSeq(queue, n + 1, Len(queue))
  <2>1. /\ a \in Seq(Byte) /\ b \in Seq(Byte)
        /\ Rising(a) /\ Rising(b) /\ Below(a, b)
        /\ Below(printed, a) /\ Below(printed, b)
        /\ \A x : Under(queue, x) => Under(a, x)
    BY <1>1, <1>2, CutOrder DEF InOrder
  <2>2. printed' = printed \o a
    BY <1>2 DEF Stream!Prefix
  <2> HIDE DEF a, b
  <2>3. /\ Rising(printed \o a)
        /\ Below(printed \o a, b)
        /\ \A x : Under(printed, x) /\ Under(a, x) => Under(printed \o a, x)
    BY <1>1, <2>1, JoinOrder DEF InOrder
  <2> QED
    BY <2>1, <2>2, <2>3 DEF b
<1>3. CASE Stream!Confirm
  <2>1. PICK n \in 1 .. Len(queue) :
          /\ printed' = printed \o Stream!Prefix(n)
          /\ queue' = SubSeq(queue, n + 1, Len(queue))
    BY <1>3 DEF Stream!Confirm
  <2>2. n \in 0 .. Len(queue) /\ ~fault /\ fault' = fault
    BY <1>1, <1>3, <2>1, LenProperties DEF Stream!Confirm
  <2>3. /\ Rising(printed') /\ Below(printed', queue')
        /\ \A x : Under(printed, x) /\ Under(queue, x) => Under(printed', x)
    BY <1>2, <2>1, <2>2
  <2>4. Rising(queue') /\ \A x : Under(queue, x) => Under(queue', x)
    BY <1>1, <2>1, <2>2, CutOrder DEF InOrder
  <2> QED
    BY <2>3, <2>4 DEF InOrder
<1>4. CASE Stream!Interrupt
  <2>1. PICK n \in 0 .. Len(queue) : printed' = printed \o Stream!Prefix(n)
    BY <1>4 DEF Stream!Interrupt
  <2>2. /\ Rising(printed')
        /\ \A x : Under(printed, x) /\ Under(queue, x) => Under(printed', x)
    BY <1>2, <1>4, <2>1 DEF Stream!Interrupt
  <2> QED
    BY <1>4, <2>2 DEF InOrder, Stream!Interrupt
<1>5. CASE Stream!Abort
  <2>1. queue' = <<>>
    BY <1>5 DEF Stream!Abort
  <2>2. PICK n \in 0 .. (IF fault THEN 0 ELSE Len(queue)) : printed' = printed \o Stream!Prefix(n)
    BY <1>5 DEF Stream!Abort
  <2>3. /\ Rising(printed')
        /\ \A x : Under(printed, x) /\ Under(queue, x) => Under(printed', x)
    <3>1. CASE ~fault
      BY <1>2, <2>2, <3>1
    <3>2. CASE fault
      <4>1. printed' = printed
        BY <2>2, <3>2, NothingTaken
      <4> QED
        BY <4>1 DEF InOrder
    <3> QED
      BY <3>1, <3>2
  <2> QED
    BY <2>1, <2>3, EmptyOrder DEF InOrder
<1>6. CASE Stream!Clear
  BY <1>6, EmptyOrder DEF InOrder, Stream!Clear
<1>7. CASE UNCHANGED <<queue, printed, fault>>
  BY <1>7 DEF InOrder
<1> QED
  BY <1>3, <1>4, <1>5, <1>6, <1>7 DEF StreamMoves

\* A write of bytes that are newer than everything so far keeps it too.
LEMMA OrderByWrite ==
  ASSUME TypeOK, InOrder, NEW data \in Seq(Byte), NEW expected, Write(data, expected),
         Rising(data), Below(printed, data), Below(queue, data)
  PROVE  /\ InOrder'
         /\ \A x : Under(queue, x) /\ Under(data, x) => Under(queue', x)
         /\ printed' = printed
<1>1. PICK n \in 0 .. Len(data) : queue' = queue \o SubSeq(data, 1, n)
  BY WriteType DEF TypeOK
<1> DEFINE d == SubSeq(data, 1, n)
<1>2. /\ d \in Seq(Byte) /\ Rising(d) /\ Below(printed, d) /\ Below(queue, d)
      /\ \A x : Under(data, x) => Under(d, x)
  BY CutOrder
<1>3. queue \in Seq(Byte) /\ Rising(queue) /\ Rising(printed) /\ printed' = printed /\ fault' = fault
  BY DEF TypeOK, Streams, InOrder, Write, flags
<1>4. queue' = queue \o d
  BY <1>1
<1> HIDE DEF d
<1>5. /\ Rising(queue \o d)
      /\ Below(printed, queue) => Below(printed, queue \o d)
      /\ \A x : Under(queue, x) /\ Under(d, x) => Under(queue \o d, x)
  BY <1>2, <1>3, JoinOrder
<1> QED
  BY <1>2, <1>3, <1>4, <1>5 DEF InOrder

\* No byte reaches a printer twice or out of order, whatever transfers fail,
\* printers come and go and resets are asked for ("Never replay data").
THEOREM NoReplay == Spec => []PrintedOnce
<1> DEFINE Order == InOrder /\ Under(printed, accepted + 1) /\ Under(queue, accepted + 1)
<1>1. Init => Order
  BY EmptyOrder DEF Init, InOrder
<1>2. TypeOK /\ Safety /\ OnWire /\ Order /\ [Next]_vars => Order'
  <2> SUFFICES ASSUME TypeOK, Safety, OnWire, Order, [Next]_vars PROVE Order'
    OBVIOUS
  <2>1. accepted \in Nat /\ printed \in Seq(Byte) /\ queue \in Seq(Byte)
    BY DEF TypeOK, Numbers, Streams
  <2>2. CASE Producer
    <3>1. PICK expected \in 0 .. session, data \in Seq(Byte) :
            /\ Write(data, expected)
            /\ \A i \in 1 .. Len(data) : data[i].job = expected /\ data[i].id = accepted + i
      BY <2>2, ProducerWrites DEF TypeOK
    <3> DEFINE n == Len(data)
    <3>2. Len(data) = n /\ n \in Nat
      BY LenProperties
    <3>3. \A i \in 1 .. n : data[i].id = accepted + i
      BY <3>1
    <3>4. Write(data, expected)
      BY <3>1
    <3> HIDE DEF n
    <3>5. Rising(data)
      <4> SUFFICES ASSUME NEW i \in 1 .. n, NEW j \in 1 .. n, i < j
                   PROVE  data[i].id < data[j].id
        BY <3>2 DEF Rising
      <4> QED
        BY <2>1, <3>2, <3>3
    <3>6. \A s : s \in Seq(Byte) /\ Under(s, accepted + 1) => Below(s, data)
      <4> SUFFICES ASSUME NEW s \in Seq(Byte), Under(s, accepted + 1),
                          NEW i \in 1 .. Len(s), NEW j \in 1 .. n
                   PROVE  s[i].id < data[j].id
        BY <3>2 DEF Below
      <4>1. s[i].id \in Nat /\ s[i].id < accepted + 1
        <5>1. s[i] \in Byte
          BY ElementOfSeq
        <5> QED
          BY <5>1 DEF Byte, Under
      <4>2. data[j].id = accepted + j /\ accepted + 1 <= accepted + j /\ j \in Nat
        BY <2>1, <3>2, <3>3
      <4> QED
        BY <2>1, <4>1, <4>2
    <3>7. /\ InOrder' /\ printed' = printed
          /\ \A x : Under(queue, x) /\ Under(data, x) => Under(queue', x)
      BY <2>1, <3>2, <3>4, <3>5, <3>6, OrderByWrite
    <3>8. PICK k \in 0 .. n : accepted' = accepted + k /\ queue' = queue \o SubSeq(data, 1, k)
      BY <3>2, <3>4, WriteType DEF TypeOK
    <3> DEFINE d == SubSeq(data, 1, k)
    <3>9. d \in Seq(Byte) /\ Len(d) = k /\ \A i \in 1 .. k : d[i] = data[i]
      BY <3>2, <3>8, PrefixLemma
    <3> HIDE DEF d
    <3>10. Under(d, accepted' + 1)
      <4>1. \A i \in 1 .. k : i \in 1 .. n /\ accepted + i < accepted + k + 1
        BY <2>1, <3>2, <3>8
      <4> QED
        BY <3>3, <3>8, <3>9, <4>1 DEF Under
    <3>11. \A s : s \in Seq(Byte) /\ Under(s, accepted + 1) => Under(s, accepted' + 1)
      <4> SUFFICES ASSUME NEW s \in Seq(Byte), Under(s, accepted + 1), NEW i \in 1 .. Len(s)
                   PROVE  s[i].id < accepted' + 1
        BY DEF Under
      <4>1. s[i].id \in Nat /\ s[i].id < accepted + 1
        <5>1. s[i] \in Byte
          BY ElementOfSeq
        <5> QED
          BY <5>1 DEF Byte, Under
      <4> QED
        BY <2>1, <3>2, <3>8, <4>1
    <3>12. Under(queue', accepted' + 1)
      BY <2>1, <3>8, <3>9, <3>10, <3>11, JoinOrder DEF d
    <3> QED
      BY <2>1, <3>7, <3>11, <3>12
  <2>3. CASE [Reset \/ Usb]_vars
    <3>1. accepted' = accepted
      BY <2>3 DEF Usb, Reset, Open, SetConfig, Close, TransferDone, QueryDone, ResetDone, HostTick,
         TickReset, TickReserve, SubmitReset, SubmitWrite, UndoReset, UndoWrite, vars, counters
    <3>2. StreamMoves
      BY <2>3, StreamByRest
    <3> QED
      BY <3>1, <3>2, OrderByMoves
  <2> QED
    BY <2>2, <2>3 DEF Next
<1>3. Order => PrintedOnce
  BY DEF InOrder, Rising, PrintedOnce
<1> HIDE DEF Order
<1> QED
  BY <1>1, <1>2, <1>3, ServiceHolds, PTL DEF Spec

-----------------------------------------------------------------------------
(* The invariant.  It follows a byte on its way: from the wire to APP, then  *)
(* deferred or queued, then printed.                                        *)

\* APP has a DATA frame in its hands.
Receiving == app.pc \in {"flush", "receive", "receive_write", "offer"}

\* The bytes among the frames of s.
DataIds(s) == {s[i] : i \in 1 .. Len(s)} \ {Ask}

InLine(s) == \A i, j \in 1 .. Len(s) :
               i < j /\ s[i] # Ask /\ s[j] # Ask => s[i] < s[j]

Pcs == {"loop", "flush", "receive", "receive_write", "offer", "tick",
                  "tick_write", "send", "service_reset", "flush_save"}

LinkTypeOK ==
  /\ active \in BOOLEAN /\ reply \in BOOLEAN
  /\ pending \in Seq(Byte) /\ Len(pending) <= 1
  /\ app \in [pc : Pcs, frame : Nat,
              snap : [session : Nat, up : BOOLEAN],
              status : {"BUSY", "READY"}, back : {"loop", "flush_save"}]
  /\ rx \in Seq(Nat) /\ Len(rx) <= Depth
  /\ core \in [kind : Cores, first : Nat, asked : BOOLEAN, busy : BOOLEAN,
               waits : BOOLEAN]
  /\ sent \in Nat

\* Every byte the service may still be offered.
NewIds ==
  DataIds(rx) \cup (IF Receiving THEN {app.frame} ELSE {})
  \cup (IF pending = <<>> THEN {} ELSE {pending[1].id}) \cup {sent + 1}

\* The deferred byte is older than the one in APP's hands, that one older
\* than those on the wire, and all of them newer than what the service has.
Line ==
  /\ InLine(rx)
  /\ \A x \in DataIds(rx) : x <= sent
  /\ Receiving => /\ app.frame # Ask /\ app.frame <= sent
                  /\ \A x \in DataIds(rx) : app.frame < x
  /\ pending # <<>> => /\ pending[1].id <= sent
                       /\ Receiving => pending[1].id < app.frame
                       /\ \A x \in DataIds(rx) : pending[1].id < x
  /\ app.pc = "offer" => pending = <<>>
  /\ app.pc \in {"receive_write", "tick_write"} => pending # <<>>

Newer == \A x \in NewIds : Under(printed, x) /\ Under(queue, x)

\* A byte was deferred while the printer was up in its session.
PendUp ==
  /\ pending # <<>> => /\ pending[1].job <= session
                       /\ pending[1].job = session => connected /\ ~resetting
  /\ app.pc = "offer" => /\ app.snap.session <= session
                         /\ app.snap.session = session /\ app.snap.up
                              => connected /\ ~resetting

\* The places of the queue that are taken or spoken for.
Places == used + Len(pending) + (IF Receiving THEN 1 ELSE 0)
          + Cardinality(DataIds(rx))
          + (IF ~core.busy /\ ~core.waits THEN 1 ELSE 0)

Room ==
  /\ app.pc = "send" /\ app.status = "READY"
       => used < QueueSize - Reserve /\ pending = <<>>
  /\ Places <= QueueSize + 1
  /\ app.pc = "receive" /\ pending # <<>> => pending[1].job # session \/ fault

Service == TypeOK /\ Safety /\ OnWire /\ InOrder
LinkInv == Service /\ LinkTypeOK /\ Line /\ Newer /\ PendUp

-----------------------------------------------------------------------------
(* Lemmas about the frames on the wire.                                     *)

\* A frame leaves the wire.
LEMMA TailFrames ==
  ASSUME NEW s \in Seq(Nat), s # <<>>, InLine(s)
  PROVE  /\ Head(s) \in Nat
         /\ Tail(s) \in Seq(Nat) /\ Len(Tail(s)) = Len(s) - 1 /\ InLine(Tail(s))
         /\ DataIds(Tail(s)) \subseteq DataIds(s)
         /\ Head(s) # Ask => /\ Head(s) \in DataIds(s)
                             /\ \A x \in DataIds(Tail(s)) : Head(s) < x
<1> DEFINE t == Tail(s)
           n == Len(s)
<1>1. n \in Nat /\ n >= 1 /\ Head(s) = s[1] /\ \A i \in 1 .. n : s[i] \in Nat
  BY LenProperties, ElementOfSeq, EmptySeq
<1>2. t \in Seq(Nat) /\ Len(t) = n - 1 /\ \A i \in 1 .. n - 1 : t[i] = s[i + 1]
  BY HeadTailProperties
<1> HIDE DEF t, n
<1>3. 1 \in 1 .. n /\ \A i \in 1 .. n - 1 : i + 1 \in 1 .. n /\ 1 < i + 1
  BY <1>1
<1>4. \A i, j \in 1 .. n - 1 : i < j => i + 1 < j + 1
  BY <1>1
<1>5. InLine(t)
  BY <1>2, <1>3, <1>4 DEF InLine, n
<1>6. DataIds(t) \subseteq DataIds(s)
  BY <1>2, <1>3 DEF DataIds, n
<1>7. Head(s) # Ask => Head(s) \in DataIds(s)
  BY <1>1, <1>3 DEF DataIds, n
<1>8. ASSUME Head(s) # Ask, NEW x \in DataIds(t)
      PROVE  Head(s) < x
  <2>1. PICK i \in 1 .. n - 1 : x = s[i + 1] /\ x # Ask
    BY <1>2, <1>8 DEF DataIds
  <2>2. i + 1 \in 1 .. n /\ 1 < i + 1
    BY <1>3
  <2> QED
    BY <1>1, <1>3, <1>8, <2>1, <2>2 DEF InLine, n
<1> QED
  BY <1>1, <1>2, <1>3, <1>5, <1>6, <1>7, <1>8 DEF t, n

\* A frame enters the wire behind older ones.
LEMMA AppendFrames ==
  ASSUME NEW s \in Seq(Nat), NEW f \in Nat, InLine(s),
         f # Ask => \A x \in DataIds(s) : x < f
  PROVE  /\ Append(s, f) \in Seq(Nat) /\ Len(Append(s, f)) = Len(s) + 1
         /\ InLine(Append(s, f))
         /\ DataIds(Append(s, f)) = DataIds(s) \cup ({f} \ {Ask})
<1> DEFINE t == Append(s, f)
           n == Len(s)
<1>1. n \in Nat
  BY LenProperties
<1>2. t \in Seq(Nat) /\ Len(t) = n + 1 /\ t[n + 1] = f /\ \A i \in 1 .. n : t[i] = s[i]
  BY AppendProperties
<1> HIDE DEF t, n
<1>3. \A i \in 1 .. n + 1 : i \in 1 .. n \/ i = n + 1
  BY <1>1
<1>4. InLine(t)
  <2> SUFFICES ASSUME NEW i \in 1 .. n + 1, NEW j \in 1 .. n + 1, i < j,
                      t[i] # Ask, t[j] # Ask
               PROVE  t[i] < t[j]
    BY <1>2 DEF InLine
  <2>1. i \in 1 .. n
    BY <1>1
  <2>2. CASE j \in 1 .. n
    BY <1>2, <2>1, <2>2 DEF InLine, n
  <2>3. CASE j = n + 1
    <3>1. t[i] \in DataIds(s)
      BY <1>2, <2>1 DEF DataIds, n
    <3> QED
      BY <1>2, <2>3, <3>1
  <2> QED
    BY <1>3, <2>2, <2>3
<1>5. DataIds(t) = DataIds(s) \cup ({f} \ {Ask})
  <2>1. {t[i] : i \in 1 .. n + 1} = {s[i] : i \in 1 .. n} \cup {f}
    <3>1. ASSUME NEW y \in {t[i] : i \in 1 .. n + 1}
          PROVE  y \in {s[i] : i \in 1 .. n} \cup {f}
      BY <1>2, <1>3
    <3>2. n + 1 \in 1 .. n + 1 /\ \A i \in 1 .. n : i \in 1 .. n + 1
      BY <1>1
    <3>3. ASSUME NEW y \in {s[i] : i \in 1 .. n} \cup {f}
          PROVE  y \in {t[i] : i \in 1 .. n + 1}
      BY <1>2, <3>2
    <3> QED
      BY <3>1, <3>3
  <2> QED
    BY <1>2, <2>1 DEF DataIds, n
<1> QED
  BY <1>2, <1>4, <1>5 DEF t, n

\* There are no more bytes than frames.
LEMMA CountFrames ==
  ASSUME NEW s \in Seq(Nat)
  PROVE  /\ IsFiniteSet(DataIds(s)) /\ Cardinality(DataIds(s)) \in Nat
         /\ Cardinality(DataIds(s)) <= Len(s)
<1> DEFINE n == Len(s)
           f == [i \in 1 .. n |-> s[i]]
           R == {s[i] : i \in 1 .. n}
<1>1. n \in Nat
  BY LenProperties
<1>2. IsFiniteSet(1 .. n) /\ Cardinality(1 .. n) = n
  <2>1. 1 \in Int /\ n \in Int
    BY <1>1
  <2>2. /\ IsFiniteSet(1 .. n)
        /\ Cardinality(1 .. n) = IF 1 > n THEN 0 ELSE n - 1 + 1
    BY <2>1, FS_Interval
  <2> QED
    BY <1>1, <2>2
<1>3. f \in Surjection(1 .. n, R)
  BY DEF Surjection
<1>4. IsFiniteSet(R) /\ Cardinality(R) <= n
  BY <1>2, <1>3, FS_Surjection
<1>5. DataIds(s) \subseteq R
  BY DEF DataIds
<1>6. /\ IsFiniteSet(DataIds(s))
      /\ Cardinality(DataIds(s)) <= Cardinality(R)
  BY <1>4, <1>5, FS_Subset
<1> QED
  BY <1>1, <1>4, <1>6, FS_CardinalityType DEF n

-----------------------------------------------------------------------------
(* What the steps of the service do to what the adapter relies on.          *)

Over(s, x) == \A i \in 1 .. Len(s) : s[i].id >= x

\* Anything but a write: the queue only loses bytes, and a session in which
\* the printer goes away or a reset begins is over.
LEMMA RestFacts ==
  ASSUME Service, [Reset \/ Usb]_vars
  PROVE  /\ Service'
         /\ \A x : Under(printed, x) /\ Under(queue, x)
                     => Under(printed', x) /\ Under(queue', x)
         /\ \A x : Over(queue, x) => Over(queue', x)
         /\ used' <= used
         /\ session' \in Nat /\ session <= session'
         /\ session' = session /\ connected /\ ~resetting
              => connected' /\ ~resetting' /\ (fault => fault')
         /\ resetting => resetting' \/ queue' = <<>>
<1> USE DEF Service
<1>1. Service' /\ \A x : Under(printed, x) /\ Under(queue, x)
                           => Under(printed', x) /\ Under(queue', x)
  BY TypeByRest, SafetyByRest, OnWireByRest, StreamByRest, OrderByMoves
<1>2. session \in Nat /\ queue \in Seq(Byte) /\ used \in Nat
  BY UsedType DEF TypeOK, Numbers, Streams
<1>0. /\ connected \in BOOLEAN /\ fault \in BOOLEAN /\ resetting \in BOOLEAN
      /\ info.fault \in BOOLEAN /\ session + 1 # session
  BY <1>2 DEF TypeOK, Flags, Driver
<1>3. queue' = queue \/ queue' = <<>> \/ \E n \in 1 .. Len(queue) : queue' = SubSeq(queue, n + 1, Len(queue))
  <2>1. StreamMoves
    BY StreamByRest
  <2>3. CASE Stream!Confirm
    BY <2>3 DEF Stream!Confirm
  <2>4. CASE Stream!Interrupt
    BY <2>4 DEF Stream!Interrupt
  <2>5. CASE Stream!Abort \/ Stream!Clear
    BY <2>5 DEF Stream!Abort, Stream!Clear
  <2> QED
    BY <2>1, <2>3, <2>4, <2>5 DEF StreamMoves
<1>4. used' <= used /\ \A x : Over(queue, x) => Over(queue', x)
  <2>1. CASE queue' = queue
    BY <1>2, <2>1 DEF used
  <2>2. CASE queue' = <<>>
    BY <1>2, <2>2 DEF used, Over
  <2>3. CASE \E n \in 1 .. Len(queue) : queue' = SubSeq(queue, n + 1, Len(queue))
    <3>1. PICK n \in 1 .. Len(queue) : queue' = SubSeq(queue, n + 1, Len(queue))
      BY <2>3
    <3>2. n \in 0 .. Len(queue) /\ n \in Nat /\ Len(queue) \in Nat
      BY <1>2 DEF used
    <3>3. /\ Len(queue') = Len(queue) - n
          /\ \A i \in 1 .. Len(queue) - n : queue'[i] = queue[n + i]
      BY <1>2, <3>1, <3>2, SuffixLemma
    <3>4. \A i \in 1 .. Len(queue) - n : n + i \in 1 .. Len(queue)
      BY <3>2
    <3> QED
      BY <3>2, <3>3, <3>4 DEF used, Over
  <2> QED
    BY <1>3, <2>1, <2>2, <2>3
<1>5. session' \in Nat /\ session <= session'
  <2>1. session' = session \/ session' = session + 1
    <3>1. CASE Reset \/ SetConfig \/ Close
      BY <3>1 DEF Reset, SetConfig, Close
    <3>2. CASE \E success \in BOOLEAN : TransferDone(success) \/ ResetDone(success)
      BY <3>2 DEF TransferDone, ResetDone
    <3>3. CASE \E valid, port \in BOOLEAN : QueryDone(valid, port)
      BY <3>3 DEF QueryDone
    <3>4. CASE Open \/ HostTick \/ TickReset \/ TickReserve \/ UndoReset \/ UndoWrite
      BY <3>4 DEF Open, HostTick, TickReset, TickReserve, UndoReset, UndoWrite
    <3>5. CASE \E pipe \in BOOLEAN : SubmitReset(pipe) \/ SubmitWrite(pipe)
      BY <3>5 DEF SubmitReset, SubmitWrite
    <3>6. CASE UNCHANGED vars
      BY <3>6 DEF vars
    <3> QED
      BY <3>1, <3>2, <3>3, <3>4, <3>5, <3>6 DEF Usb
  <2> QED
    BY <1>2, <2>1
<1>6. ASSUME session' = session, connected, ~resetting
      PROVE  connected' /\ ~resetting' /\ (fault => fault')
  <2>1. CASE Reset \/ SetConfig \/ Close
    BY <1>0, <1>6, <2>1 DEF Reset, SetConfig, Close
  <2>2. CASE \E success \in BOOLEAN : TransferDone(success)
    BY <1>0, <1>6, <2>2 DEF TransferDone
  <2>3. CASE \E success \in BOOLEAN : ResetDone(success)
    BY <1>0, <1>6, <2>3 DEF ResetDone, Safety, Resets
  <2>4. CASE \E valid, port \in BOOLEAN : QueryDone(valid, port)
    BY <1>0, <1>6, <2>4 DEF QueryDone
  <2>5. CASE Open \/ HostTick \/ TickReset \/ TickReserve \/ UndoReset \/ UndoWrite
    <3>1. UNCHANGED <<connected, fault, resetting>>
      BY <1>6, <2>5 DEF Open, HostTick, TickReset, TickReserve, UndoReset, UndoWrite, flags
    <3> QED
      BY <1>6, <3>1
  <2>6. CASE \E pipe \in BOOLEAN : SubmitReset(pipe) \/ SubmitWrite(pipe)
    <3>1. UNCHANGED <<connected, fault, resetting>>
      BY <2>6 DEF SubmitReset, SubmitWrite, flags
    <3> QED
      BY <1>6, <3>1
  <2>7. CASE UNCHANGED vars
    BY <1>6, <2>7 DEF vars, flags
  <2> QED
    BY <2>1, <2>2, <2>3, <2>4, <2>5, <2>6, <2>7 DEF Usb
<1>7. ASSUME resetting PROVE resetting' \/ queue' = <<>>
  <2>1. CASE Reset \/ SetConfig \/ Close
    BY <1>7, <2>1 DEF Reset, SetConfig, Close, discard
  <2>2. CASE \E success \in BOOLEAN : TransferDone(success)
    BY <1>7, <2>2 DEF TransferDone
  <2>3. CASE \E success \in BOOLEAN : ResetDone(success)
    BY <1>7, <2>3 DEF ResetDone, Safety, Resets
  <2>4. CASE \E valid, port \in BOOLEAN : QueryDone(valid, port)
    BY <1>7, <2>4 DEF QueryDone
  <2>5. CASE Open \/ HostTick \/ TickReset \/ TickReserve \/ UndoReset \/ UndoWrite
    BY <1>7, <2>5 DEF Open, HostTick, TickReset, TickReserve, UndoReset, UndoWrite, flags, discard
  <2>6. CASE \E pipe \in BOOLEAN : SubmitReset(pipe) \/ SubmitWrite(pipe)
    BY <1>7, <2>6 DEF SubmitReset, SubmitWrite, flags
  <2>7. CASE UNCHANGED vars
    BY <1>7, <2>7 DEF vars, flags
  <2> QED
    BY <2>1, <2>2, <2>3, <2>4, <2>5, <2>6, <2>7 DEF Usb
<1> QED
  BY <1>1, <1>4, <1>5, <1>6, <1>7

\* A write of one byte that is newer than all the service has: it is taken, or
\* everything stays as it is because the session is over or the queue full.
LEMMA WriteFacts ==
  ASSUME Service, NEW b \in Byte, Write(<<b>>, b.job),
         Under(printed, b.id), Under(queue, b.id)
  PROVE  /\ Service'
         /\ UNCHANGED <<printed, session, connected, resetting, fault>>
         /\ \/ /\ accepted' = accepted + 1 /\ used' = used + 1
               /\ meant(b.job) /\ used' <= QueueSize
               /\ \A x : Under(queue, x) /\ b.id < x => Under(queue', x)
               /\ \A x : Over(queue, x) /\ b.id >= x => Over(queue', x)
            \/ /\ accepted' = accepted /\ queue' = queue
               /\ ~meant(b.job) \/ used = QueueSize
<1> USE DEF Service
<1> DEFINE data == <<b>>
<1>1. data \in Seq(Byte) /\ Len(data) = 1 /\ data[1] = b /\ \A i \in 1 .. 1 : i = 1
  OBVIOUS
<1>2. Write(data, b.job)
  OBVIOUS
<1> HIDE DEF data
<1>3. UNCHANGED <<printed, session, connected, resetting, fault>>
  BY <1>2 DEF Write, flags
<1>4. Service'
  <2>1. TypeOK' /\ OnWire'
    BY <1>1, <1>2, TypeByWrite, OnWireByWrite
  <2>2. Safety'
    <3>1. \A i \in 1 .. Len(data) : data[i].job = b.job
      BY <1>1
    <3> QED
      BY <1>1, <1>2, <3>1, SafetyByWrite
  <2>3. Rising(data) /\ Below(printed, data) /\ Below(queue, data)
    <3>1. Rising(data)
      BY <1>1 DEF Rising
    <3> QED
      BY <1>1, <3>1 DEF Below, Under
  <2>4. InOrder'
    BY <1>1, <1>2, <2>3, OrderByWrite
  <2> QED
    BY <2>1, <2>2, <2>4
<1>5. /\ used \in Nat /\ used <= QueueSize /\ queue \in Seq(Byte) /\ QueueSize \in Nat
      /\ accepted \in Nat
  BY UsedType, PrinterAssumption DEF TypeOK, Streams, Numbers
<1>6. CASE meant(b.job) /\ used < QueueSize
  <2> DEFINE n == IF Len(data) < room THEN Len(data) ELSE room
  <2>1. n = 1
    BY <1>1, <1>5, <1>6 DEF room
  <2>2. queue' = queue \o SubSeq(data, 1, n) /\ accepted' = accepted + n
    BY <1>2, <1>6 DEF Write
  <2>3. SubSeq(data, 1, 1) = data
    <3>1. /\ SubSeq(data, 1, 1) \in Seq(Byte) /\ Len(SubSeq(data, 1, 1)) = 1
          /\ \A i \in 1 .. 1 : SubSeq(data, 1, 1)[i] = data[i]
      BY <1>1, PrefixLemma
    <3> QED
      BY <1>1, <3>1, SeqEqual
  <2>4. queue' = queue \o data /\ accepted' = accepted + 1
    BY <2>1, <2>2, <2>3
  <2>5. /\ Len(queue \o data) = Len(queue) + 1
        /\ \A i \in 1 .. Len(queue) + 1 : (queue \o data)[i] = IF i <= Len(queue) THEN queue[i]
                                                               ELSE data[i - Len(queue)]
    BY <1>1, <1>5, ConcatProperties
  <2>6. \A i \in 1 .. Len(queue) + 1 : \/ i \in 1 .. Len(queue) /\ queue'[i] = queue[i]
                                       \/ queue'[i] = b
    <3> TAKE i \in 1 .. Len(queue) + 1
    <3>1. CASE i <= Len(queue)
      BY <1>5, <2>4, <2>5, <3>1 DEF used
    <3>2. CASE ~(i <= Len(queue))
      <4>1. i - Len(queue) = 1
        BY <1>5, <3>2 DEF used
      <4> QED
        BY <1>1, <2>4, <2>5, <3>2, <4>1
    <3> QED
      BY <3>1, <3>2
  <2>7. used' = used + 1 /\ Len(queue') = Len(queue) + 1 /\ used' <= QueueSize
    BY <1>5, <1>6, <2>4, <2>5 DEF used
  <2>8. /\ \A x : Under(queue, x) /\ b.id < x => Under(queue', x)
        /\ \A x : Over(queue, x) /\ b.id >= x => Over(queue', x)
    BY <2>6, <2>7 DEF Under, Over
  <2> QED
    BY <1>3, <1>4, <1>6, <2>4, <2>7, <2>8
<1>7. CASE ~(meant(b.job) /\ used < QueueSize)
  <2>1. CASE ~meant(b.job)
    BY <1>2, <1>3, <1>4, <2>1 DEF Write
  <2>2. CASE meant(b.job) /\ used = QueueSize
    <3>1. room = 0
      BY <1>5, <2>2 DEF room
    <3>2. queue' = queue \o SubSeq(data, 1, 0) /\ accepted' = accepted + 0
      BY <1>1, <1>2, <2>2, <3>1 DEF Write
    <3>3. SubSeq(data, 1, 0) = <<>> /\ queue \o <<>> = queue
      BY <1>5, SubSeqEmpty, ConcatEmptySeq
    <3> QED
      BY <1>3, <1>4, <1>5, <2>2, <3>2, <3>3
  <2> QED
    BY <1>5, <1>7, <2>1, <2>2
<1> QED
  BY <1>6, <1>7

-----------------------------------------------------------------------------
(* The adapter keeps the invariant.                                         *)

\* The deferred byte, when there is one.
LEMMA Deferred ==
  ASSUME LinkTypeOK, pending # <<>>
  PROVE  pending[1] \in Byte /\ Len(pending) = 1 /\ pending = <<pending[1]>>
<1>1. pending \in Seq(Byte) /\ Len(pending) \in Nat /\ Len(pending) # 0
  BY LenProperties, EmptySeq DEF LinkTypeOK
<1>2. Len(pending) = 1 /\ 1 \in 1 .. Len(pending)
  <2>1. \A n \in Nat : n # 0 /\ n <= 1 => n = 1 /\ 1 \in 1 .. n
    OBVIOUS
  <2>2. Len(pending) <= 1
    BY DEF LinkTypeOK
  <2> QED
    BY <1>1, <2>1, <2>2
<1>3. pending[1] \in Byte
  BY <1>1, <1>2, ElementOfSeq
<1>4. \A i \in 1 .. 1 : i = 1
  OBVIOUS
<1>5. <<pending[1]>> \in Seq(Byte) /\ Len(<<pending[1]>>) = 1 /\ <<pending[1]>>[1] = pending[1]
  BY <1>3
<1> QED
  BY <1>1, <1>2, <1>3, <1>4, <1>5, SeqEqual

\* No byte, or one, is deferred.
LEMMA DeferType ==
  /\ <<>> \in Seq(Byte) /\ Len(<<>>) = 0 /\ Len(<<>>) <= 1
  /\ \A b \in Byte : /\ <<b>> \in Seq(Byte) /\ Len(<<b>>) = 1 /\ Len(<<b>>) <= 1
                     /\ <<b>>[1] = b /\ <<b>> # <<>>
  OBVIOUS

\* APP goes on to another place.
LEMMA GotoFacts ==
  ASSUME LinkTypeOK, NEW pc \in Pcs, Goto(pc)
  PROVE  /\ app' \in [pc : Pcs, frame : Nat, snap : [session : Nat, up : BOOLEAN],
                      status : {"BUSY", "READY"}, back : {"loop", "flush_save"}]
         /\ app'.pc = pc /\ app'.frame = app.frame /\ app'.snap = app.snap
         /\ app'.status = app.status /\ app'.back = app.back
  BY DEF LinkTypeOK, Goto

\* A step that leaves the service alone.
LEMMA QuietFacts ==
  ASSUME Service, UNCHANGED vars
  PROVE  /\ Service'
         /\ UNCHANGED <<queue, used, session, accepted, connected, fault, resetting, printed, writable>>
<1>1. Service'
  BY RestFacts
<1> QED
  BY <1>1 DEF vars, used, counters, flags, writable

\* As long as no byte becomes new, what is new stays newer.
LEMMA NewerShrinks ==
  ASSUME Newer, NewIds' \subseteq NewIds,
         \A x : Under(printed, x) /\ Under(queue, x) => Under(printed', x) /\ Under(queue', x)
  PROVE  Newer'
  BY DEF Newer

\* The service moves on by itself.
LEMMA InvByUsb ==
  ASSUME LinkInv, [Reset \/ Usb]_vars, UNCHANGED link_vars
  PROVE  LinkInv'
<1> USE DEF LinkInv
<1>1. /\ UNCHANGED <<active, reply, pending, app, rx, core, sent>>
  BY DEF link_vars, adapter
<1>2. LinkTypeOK'
  <2>1. LinkTypeOK
    OBVIOUS
  <2> QED
    BY <1>1, <2>1, Zenon DEF LinkTypeOK
<1>3. Line'
  BY <1>1 DEF Line, DataIds, InLine, Receiving
<1>4. NewIds' = NewIds
  BY <1>1 DEF NewIds, DataIds, Receiving
<1>5. Newer'
  BY <1>4, RestFacts, NewerShrinks
<1>6. PendUp'
  <2>1. session' \in Nat /\ session <= session' /\ session \in Nat
    BY RestFacts DEF Service, TypeOK, Numbers
  <2>2. session' = session /\ connected /\ ~resetting => connected' /\ ~resetting'
    BY RestFacts
  <2>3. pending # <<>> => pending[1].job \in Nat
    BY Deferred DEF Byte
  <2>4. app.snap.session \in Nat
    BY DEF LinkTypeOK
  <2>5. pending # <<>> => /\ pending[1].job <= session'
                          /\ pending[1].job = session' => connected' /\ ~resetting'
    BY <2>1, <2>2, <2>3 DEF PendUp
  <2>6. app.pc = "offer" => /\ app.snap.session <= session'
                            /\ app.snap.session = session' /\ app.snap.up
                                 => connected' /\ ~resetting'
    BY <2>1, <2>2, <2>4 DEF PendUp
  <2> QED
    BY <1>1, <2>5, <2>6 DEF PendUp
<1> QED
  BY <1>2, <1>3, <1>5, <1>6, RestFacts

\* What is needed after a step of the adapter that leaves the service alone.
LEMMA InvByQuiet ==
  ASSUME LinkInv, UNCHANGED vars, LinkTypeOK', Line', NewIds' \subseteq NewIds, PendUp'
  PROVE  LinkInv'
  BY QuietFacts, NewerShrinks DEF LinkInv

\* The core sends a byte, a request, or changes what it knows.
LEMMA InvByCore ==
  ASSUME LinkInv, CoreData \/ CoreAsk
  PROVE  LinkInv'
<1> USE DEF LinkInv
<1>1. UNCHANGED <<vars, active, reply, pending, app>> /\ Len(rx) < Depth
  BY DEF CoreData, CoreAsk, adapter
<1>2. UNCHANGED <<session, connected, resetting>> /\ Service' /\ UNCHANGED <<printed, queue>>
  BY <1>1, QuietFacts
<1>3. PendUp'
  BY <1>1, <1>2 DEF PendUp
<1>4. rx \in Seq(Nat) /\ sent \in Nat /\ InLine(rx) /\ Depth \in Nat /\ Len(rx) \in Nat
  BY LenProperties, LinkAssumption DEF LinkTypeOK, Line
<1>5. ASSUME CoreData PROVE LinkInv'
  <2>1. sent' = sent + 1 /\ sent' \in Nat /\ sent' # Ask
    BY <1>4, <1>5 DEF CoreData, Ask
  <2>2. rx' = rx \/ rx' = Append(rx, sent')
    BY <1>5 DEF CoreData
  <2>3. /\ \A x \in DataIds(rx) : x <= sent /\ x \in Nat
    BY <1>4, ElementOfSeq DEF Line, DataIds
  <2>4. \A x \in DataIds(rx) : x < sent'
    BY <1>4, <2>1, <2>3
  <2>5. /\ rx' \in Seq(Nat) /\ Len(rx') <= Depth /\ InLine(rx')
        /\ DataIds(rx') \subseteq DataIds(rx) \cup {sent'}
    <3>1. CASE rx' = rx
      BY <1>1, <1>4, <3>1
    <3>2. CASE rx' = Append(rx, sent')
      <4>1. /\ Append(rx, sent') \in Seq(Nat) /\ Len(Append(rx, sent')) = Len(rx) + 1
            /\ InLine(Append(rx, sent'))
            /\ DataIds(Append(rx, sent')) = DataIds(rx) \cup ({sent'} \ {Ask})
        BY <1>4, <2>1, <2>4, AppendFrames
      <4> QED
        BY <1>1, <1>4, <3>2, <4>1
    <3> QED
      BY <2>2, <3>1, <3>2
  <2>6. LinkTypeOK'
    BY <1>1, <1>5, <2>1, <2>5 DEF LinkTypeOK, CoreData
  <2>7. app.frame \in Nat /\ (pending # <<>> => pending[1].id \in Nat)
    BY Deferred DEF LinkTypeOK, Byte
  <2>8. /\ Receiving' = Receiving
        /\ Receiving => app.frame # Ask /\ app.frame <= sent /\ \A x \in DataIds(rx) : app.frame < x
        /\ pending # <<>> => /\ pending[1].id <= sent
                             /\ Receiving => pending[1].id < app.frame
                             /\ \A x \in DataIds(rx) : pending[1].id < x
    BY <1>1 DEF Receiving, Line
  <2>9. Line'
    <3>1. ASSUME NEW x \in DataIds(rx') PROVE x <= sent'
      <4>1. x \in DataIds(rx) \/ x = sent'
        BY <2>5
      <4> QED
        BY <2>1, <2>3, <2>4, <4>1
    <3>2. Receiving => app.frame # Ask /\ app.frame <= sent' /\ \A x \in DataIds(rx') : app.frame < x
      BY <1>4, <2>1, <2>5, <2>7, <2>8
    <3>3. pending # <<>> => /\ pending[1].id <= sent'
                            /\ Receiving => pending[1].id < app.frame
                            /\ \A x \in DataIds(rx') : pending[1].id < x
      BY <1>4, <2>1, <2>5, <2>7, <2>8
    <3> QED
      BY <1>1, <2>5, <2>8, <3>1, <3>2, <3>3 DEF Line, DataIds, InLine
  <2>10. Newer'
    <3>1. NewIds' \subseteq NewIds \cup {sent + 2}
      <4>1. sent' + 1 = sent + 2
        BY <1>4, <2>1
      <4>2. NewIds' = DataIds(rx') \cup (IF Receiving THEN {app.frame} ELSE {})
                      \cup (IF pending = <<>> THEN {} ELSE {pending[1].id}) \cup {sent + 2}
        BY <1>1, <2>8, <4>1 DEF NewIds, DataIds
      <4> QED
        BY <2>1, <2>5, <4>2 DEF NewIds
    <3>2. sent + 1 \in NewIds
      BY DEF NewIds
    <3>3. \A s : s \in Seq(Byte) /\ Under(s, sent + 1) => Under(s, sent + 2)
      <4> SUFFICES ASSUME NEW s \in Seq(Byte), Under(s, sent + 1), NEW i \in 1 .. Len(s)
                   PROVE  s[i].id < sent + 2
        BY DEF Under
      <4>1. s[i].id \in Nat /\ s[i].id < sent + 1
        <5>1. s[i] \in Byte
          BY ElementOfSeq
        <5> QED
          BY <5>1 DEF Byte, Under
      <4> QED
        BY <1>4, <4>1
    <3>4. printed \in Seq(Byte) /\ queue \in Seq(Byte)
      BY DEF Service, TypeOK, Streams
    <3> QED
      BY <1>2, <3>1, <3>2, <3>3, <3>4 DEF Newer
  <2> QED
    BY <1>2, <1>3, <2>6, <2>9, <2>10
<1>6. ASSUME CoreAsk PROVE LinkInv'
  <2>1. sent' = sent /\ (rx' = rx \/ rx' = Append(rx, Ask))
    BY <1>6 DEF CoreAsk
  <2>2. rx' \in Seq(Nat) /\ Len(rx') <= Depth /\ InLine(rx') /\ DataIds(rx') = DataIds(rx)
    <3>1. CASE rx' = rx
      BY <1>1, <1>4, <3>1
    <3>2. CASE rx' = Append(rx, Ask)
      <4>1. /\ Append(rx, Ask) \in Seq(Nat) /\ Len(Append(rx, Ask)) = Len(rx) + 1
            /\ InLine(Append(rx, Ask))
            /\ DataIds(Append(rx, Ask)) = DataIds(rx) \cup ({Ask} \ {Ask})
        <5>1. Ask \in Nat
          BY DEF Ask
        <5> QED
          BY <1>4, <5>1, AppendFrames
      <4> QED
        BY <1>1, <1>4, <3>2, <4>1
    <3> QED
      BY <2>1, <3>1, <3>2
  <2>3. LinkTypeOK'
    BY <1>1, <1>6, <2>1, <2>2 DEF LinkTypeOK, CoreAsk
  <2>4. Receiving' = Receiving
    BY <1>1 DEF Receiving
  <2>5. Line'
    BY <1>1, <2>1, <2>2, <2>4 DEF Line
  <2>6. NewIds' = NewIds
    BY <1>1, <2>1, <2>2, <2>4 DEF NewIds
  <2> QED
    BY <1>1, <1>3, <2>3, <2>5, <2>6, InvByQuiet
<1> QED
  BY <1>5, <1>6

\* APP takes the oldest frame.
LEMMA InvByDispatch ==
  ASSUME LinkInv, NEW at \in {"loop", "flush_save"}, Dispatch(at)
  PROVE  LinkInv'
<1> USE DEF LinkInv
<1>1. /\ UNCHANGED <<vars, pending, sent, core>> /\ rx # <<>> /\ rx' = Tail(rx) /\ app.pc = at
      /\ active' = TRUE
  BY DEF Dispatch
<1>2. UNCHANGED <<session, connected, resetting>>
  BY <1>1, QuietFacts
<1>3. rx \in Seq(Nat) /\ InLine(rx) /\ ~Receiving /\ Len(rx) \in Nat /\ Len(rx) <= Depth
      /\ Depth \in Nat
  BY <1>1, LenProperties, LinkAssumption DEF LinkTypeOK, Line, Receiving
<1>4. /\ Head(rx) \in Nat
      /\ rx' \in Seq(Nat) /\ Len(rx') = Len(rx) - 1 /\ InLine(rx')
      /\ DataIds(rx') \subseteq DataIds(rx)
      /\ Head(rx) # Ask => /\ Head(rx) \in DataIds(rx)
                           /\ \A x \in DataIds(rx') : Head(rx) < x
  BY <1>1, <1>3, TailFrames
<1>5. Len(rx') <= Depth
  BY <1>3, <1>4
<1>6. /\ \A x \in DataIds(rx) : x <= sent
      /\ pending # <<>> => /\ pending[1].id <= sent
                           /\ \A x \in DataIds(rx) : pending[1].id < x
  BY DEF Line
<1>7. CASE Head(rx) = Ask
  <2>1. app' = app /\ reply' \in BOOLEAN
    BY <1>7 DEF Dispatch
  <2>2. LinkTypeOK'
    BY <1>1, <1>4, <1>5, <2>1 DEF LinkTypeOK
  <2>3. ~Receiving' /\ app'.pc = at
    BY <1>1, <1>3, <2>1 DEF Receiving
  <2>4. Line'
    BY <1>1, <1>4, <1>6, <2>3 DEF Line
  <2>5. NewIds' \subseteq NewIds
    BY <1>1, <1>3, <1>4, <2>3 DEF NewIds
  <2>6. PendUp'
    BY <1>1, <1>2, <2>1 DEF PendUp
  <2> QED
    BY <1>1, <2>2, <2>4, <2>5, <2>6, InvByQuiet
<1>8. CASE Head(rx) # Ask
  <2>1. app' = [app EXCEPT !.pc = "flush", !.frame = Head(rx), !.back = at] /\ reply' = reply
    BY <1>8 DEF Dispatch
  <2>2. /\ app' \in [pc : Pcs, frame : Nat, snap : [session : Nat, up : BOOLEAN],
                     status : {"BUSY", "READY"}, back : {"loop", "flush_save"}]
        /\ app'.pc = "flush" /\ app'.frame = Head(rx)
    BY <1>4, <2>1 DEF LinkTypeOK, Pcs
  <2>3. LinkTypeOK'
    BY <1>1, <1>4, <1>5, <2>1, <2>2 DEF LinkTypeOK
  <2>4. Receiving'
    BY <2>2 DEF Receiving
  <2>5. Line'
    BY <1>1, <1>4, <1>6, <1>8, <2>2, <2>4 DEF Line
  <2>6. NewIds' \subseteq NewIds
    <3>1. NewIds' = DataIds(rx') \cup {Head(rx)}
                    \cup (IF pending = <<>> THEN {} ELSE {pending[1].id}) \cup {sent + 1}
      BY <1>1, <2>2, <2>4 DEF NewIds
    <3>2. NewIds = DataIds(rx)
                    \cup (IF pending = <<>> THEN {} ELSE {pending[1].id}) \cup {sent + 1}
      BY <1>3 DEF NewIds
    <3> QED
      BY <1>4, <1>8, <3>1, <3>2
  <2>7. PendUp'
    BY <1>1, <1>2, <2>2 DEF PendUp
  <2> QED
    BY <1>1, <2>3, <2>5, <2>6, <2>7, InvByQuiet
<1> QED
  BY <1>7, <1>8

\* flush_pending() looks at the session: the byte of another one is dropped.
LEMMA InvBySnapshot ==
  ASSUME LinkInv, ReceiveFlush \/ TickStart
  PROVE  LinkInv'
<1> USE DEF LinkInv
<1>1. /\ UNCHANGED <<vars, active, reply, rx, core, sent>>
      /\ \/ app.pc = "flush" /\ app'.pc = "receive" /\ pending' = <<>>
         \/ app.pc = "flush" /\ app'.pc = "receive_write" /\ pending' = pending /\ pending # <<>>
         \/ app.pc = "loop" /\ app'.pc = "tick" /\ pending' = <<>>
         \/ app.pc = "loop" /\ app'.pc = "tick_write" /\ pending' = pending /\ pending # <<>>
      /\ app' \in [pc : Pcs, frame : Nat, snap : [session : Nat, up : BOOLEAN],
                   status : {"BUSY", "READY"}, back : {"loop", "flush_save"}]
      /\ app'.frame = app.frame
  <2>1. {"receive", "receive_write", "tick", "tick_write"} \subseteq Pcs
    BY DEF Pcs
  <2>2. CASE ReceiveFlush
    BY <2>1, <2>2, GotoFacts DEF ReceiveFlush, FlushSnapshot
  <2>3. CASE TickStart
    BY <2>1, <2>3, GotoFacts DEF TickStart, FlushSnapshot
  <2> QED
    BY <2>2, <2>3
<1>2. UNCHANGED <<session, connected, resetting>>
  BY <1>1, QuietFacts
<1>3. Receiving' = Receiving
  BY <1>1 DEF Receiving
<1>4. LinkTypeOK'
  <2>1. pending' = pending \/ pending' = <<>>
    BY <1>1
  <2>2. pending' \in Seq(Byte) /\ Len(pending') <= 1
    <3>1. pending \in Seq(Byte) /\ Len(pending) <= 1
      BY DEF LinkTypeOK
    <3> QED
      BY <2>1, <3>1, DeferType
  <2> QED
    BY <1>1, <2>2 DEF LinkTypeOK
<1>5. Line'
  BY <1>1, <1>3 DEF Line
<1>6. NewIds' \subseteq NewIds
  BY <1>1, <1>3 DEF NewIds
<1>7. PendUp'
  BY <1>1, <1>2 DEF PendUp
<1> QED
  BY <1>1, <1>4, <1>5, <1>6, <1>7, InvByQuiet

\* What an offer of the deferred byte does.
LEMMA FlushFacts ==
  ASSUME LinkInv, ReceiveFlushWrite \/ TickFlushWrite
  PROVE  /\ Write(<<pending[1]>>, pending[1].job) /\ pending # <<>> /\ pending[1] \in Byte
         /\ Under(printed, pending[1].id) /\ Under(queue, pending[1].id)
         /\ UNCHANGED <<active, reply, rx, core, sent, last_status, switches>>
         /\ pending' = IF accepted' = accepted THEN pending ELSE <<>>
         /\ \/ app.pc = "receive_write" /\ app'.pc = "receive"
            \/ app.pc = "tick_write" /\ app'.pc = "tick"
         /\ app' \in [pc : Pcs, frame : Nat, snap : [session : Nat, up : BOOLEAN],
                      status : {"BUSY", "READY"}, back : {"loop", "flush_save"}]
         /\ app'.frame = app.frame /\ app'.back = app.back
<1> USE DEF LinkInv
<1>1. {"receive", "tick"} \subseteq Pcs
  BY DEF Pcs
<1>2. /\ Write(pending, pending[1].job)
      /\ UNCHANGED <<active, reply, rx, core, sent, last_status, switches>>
      /\ pending' = IF accepted' = accepted THEN pending ELSE <<>>
  BY DEF ReceiveFlushWrite, TickFlushWrite, FlushWrite
<1>3. /\ \/ app.pc = "receive_write" /\ app'.pc = "receive"
         \/ app.pc = "tick_write" /\ app'.pc = "tick"
      /\ app' \in [pc : Pcs, frame : Nat, snap : [session : Nat, up : BOOLEAN],
                   status : {"BUSY", "READY"}, back : {"loop", "flush_save"}]
      /\ app'.frame = app.frame /\ app'.back = app.back
  <2>1. CASE ReceiveFlushWrite
    BY <1>1, <2>1, GotoFacts DEF ReceiveFlushWrite, FlushWrite
  <2>2. CASE TickFlushWrite
    BY <1>1, <2>2, GotoFacts DEF TickFlushWrite, FlushWrite
  <2> QED
    BY <2>1, <2>2
<1>4. pending # <<>>
  BY <1>3 DEF Line
<1>5. pending[1] \in Byte /\ pending = <<pending[1]>>
  BY <1>4, Deferred
<1>6. Under(printed, pending[1].id) /\ Under(queue, pending[1].id)
  BY <1>4 DEF Newer, NewIds
<1> QED
  BY <1>2, <1>3, <1>4, <1>5, <1>6

\* flush_pending() offers the byte.
LEMMA InvByFlush ==
  ASSUME LinkInv, ReceiveFlushWrite \/ TickFlushWrite
  PROVE  LinkInv'
<1> USE DEF LinkInv
<1> DEFINE b == pending[1]
<1>1. /\ Write(<<b>>, b.job) /\ pending # <<>> /\ b \in Byte
      /\ Under(printed, b.id) /\ Under(queue, b.id)
      /\ UNCHANGED <<active, reply, rx, core, sent>>
      /\ pending' = IF accepted' = accepted THEN pending ELSE <<>>
      /\ \/ app.pc = "receive_write" /\ app'.pc = "receive"
         \/ app.pc = "tick_write" /\ app'.pc = "tick"
      /\ app' \in [pc : Pcs, frame : Nat, snap : [session : Nat, up : BOOLEAN],
                   status : {"BUSY", "READY"}, back : {"loop", "flush_save"}]
      /\ app'.frame = app.frame
  BY FlushFacts
<1>2. /\ Service' /\ UNCHANGED <<printed, session, connected, resetting, fault>>
      /\ \/ /\ accepted' = accepted + 1
            /\ \A x : Under(queue, x) /\ b.id < x => Under(queue', x)
         \/ accepted' = accepted /\ queue' = queue
  BY <1>1, WriteFacts
<1>3. Receiving' = Receiving
  BY <1>1 DEF Receiving
<1>4. pending' = pending \/ pending' = <<>>
  BY <1>1
<1>5. LinkTypeOK'
  BY <1>1, <1>4, DeferType DEF LinkTypeOK
<1>6. Line'
  BY <1>1, <1>3, <1>4 DEF Line
<1>7. PendUp'
  BY <1>1, <1>2, <1>4 DEF PendUp
<1>8. Newer'
  <2>1. CASE accepted' = accepted
    <3>1. UNCHANGED queue /\ pending' = pending
      <4>1. accepted \in Nat /\ accepted + 1 # accepted
        BY DEF Service, TypeOK, Numbers
      <4> QED
        BY <1>1, <1>2, <2>1, <4>1
    <3>2. NewIds' = NewIds
      BY <1>1, <1>3, <3>1 DEF NewIds
    <3> QED
      BY <1>2, <3>1, <3>2 DEF Newer
  <2>2. CASE accepted' # accepted
    <3>1. pending' = <<>> /\ \A x : Under(queue, x) /\ b.id < x => Under(queue', x)
      BY <1>1, <1>2, <2>2
    <3>2. NewIds' = DataIds(rx) \cup (IF Receiving THEN {app.frame} ELSE {}) \cup {sent + 1}
      BY <1>1, <1>3, <3>1 DEF NewIds
    <3>3. NewIds' \subseteq NewIds
      BY <3>2 DEF NewIds
    <3>4. \A x \in NewIds' : b.id < x
      <4>1. /\ b.id <= sent /\ (Receiving => b.id < app.frame)
            /\ \A x \in DataIds(rx) : b.id < x
        BY <1>1 DEF Line
      <4>2. b.id \in Nat /\ sent \in Nat
        BY <1>1 DEF Byte, LinkTypeOK
      <4>3. b.id < sent + 1
        BY <4>1, <4>2
      <4> QED
        BY <3>2, <4>1, <4>3
    <3> QED
      BY <1>2, <3>1, <3>3, <3>4 DEF Newer
  <2> QED
    BY <2>1, <2>2
<1> QED
  BY <1>2, <1>5, <1>6, <1>7, <1>8

\* receive() takes a snapshot, or rejects its byte.
LEMMA InvByReceive ==
  ASSUME LinkInv, ReceiveSnapshot
  PROVE  LinkInv'
<1> USE DEF LinkInv
<1>1. UNCHANGED <<vars, active, reply, pending, rx, core, sent>> /\ app.pc = "receive"
  BY DEF ReceiveSnapshot, adapter
<1>2. UNCHANGED <<session, connected, resetting, writable>>
  BY <1>1, QuietFacts
<1>3. session \in Nat /\ writable \in BOOLEAN
  BY DEF Service, TypeOK, Numbers, writable
<1>4. CASE pending # <<>>
  <2>1. app' = [Idle EXCEPT !.pc = app.back]
    BY <1>4 DEF ReceiveSnapshot
  <2>2. /\ app' \in [pc : Pcs, frame : Nat, snap : [session : Nat, up : BOOLEAN],
                     status : {"BUSY", "READY"}, back : {"loop", "flush_save"}]
        /\ app'.pc \in {"loop", "flush_save"}
    BY <2>1 DEF Idle, LinkTypeOK, Pcs, Ask
  <2>3. LinkTypeOK'
    BY <1>1, <2>2 DEF LinkTypeOK
  <2>4. ~Receiving' /\ app'.pc \notin {"offer", "receive_write", "tick_write"}
    BY <2>2 DEF Receiving
  <2>5. Line'
    BY <1>1, <2>4 DEF Line
  <2>6. NewIds' \subseteq NewIds
    BY <1>1, <2>4 DEF NewIds
  <2>7. PendUp'
    BY <1>1, <1>2, <2>4 DEF PendUp
  <2> QED
    BY <1>1, <2>3, <2>5, <2>6, <2>7, InvByQuiet
<1>5. CASE pending = <<>>
  <2>1. app' = [app EXCEPT !.pc = "offer", !.snap.session = session, !.snap.up = writable]
    BY <1>5 DEF ReceiveSnapshot
  <2>2. app.snap \in [session : Nat, up : BOOLEAN]
    BY DEF LinkTypeOK
  <2>3. /\ app' \in [pc : Pcs, frame : Nat, snap : [session : Nat, up : BOOLEAN],
                     status : {"BUSY", "READY"}, back : {"loop", "flush_save"}]
        /\ app'.pc = "offer" /\ app'.frame = app.frame
        /\ app'.snap.session = session /\ app'.snap.up = writable
    BY <1>3, <2>1, <2>2 DEF LinkTypeOK, Pcs
  <2>4. LinkTypeOK'
    BY <1>1, <2>3 DEF LinkTypeOK
  <2>5. Receiving' /\ Receiving
    BY <1>1, <2>3 DEF Receiving
  <2>6. Line'
    BY <1>1, <1>5, <2>3, <2>5 DEF Line
  <2>7. NewIds' \subseteq NewIds
    BY <1>1, <2>3, <2>5 DEF NewIds
  <2>8. PendUp'
    BY <1>1, <1>2, <1>3, <1>5, <2>3 DEF PendUp, writable
  <2> QED
    BY <1>1, <2>4, <2>6, <2>7, <2>8, InvByQuiet
<1> QED
  BY <1>4, <1>5

\* What an offer of the byte in APP's hands does.
LEMMA OfferFacts ==
  ASSUME LinkInv, ReceiveWrite
  PROVE  LET b == [id |-> app.frame, job |-> app.snap.session]
         IN  /\ Write(<<b>>, b.job) /\ b \in Byte /\ pending = <<>> /\ Receiving
             /\ Under(printed, b.id) /\ Under(queue, b.id)
             /\ pending' = IF accepted' = accepted /\ app.snap.up THEN <<b>> ELSE pending
             /\ UNCHANGED <<active, reply, rx, core, sent, last_status, switches>>
             /\ app' \in [pc : Pcs, frame : Nat, snap : [session : Nat, up : BOOLEAN],
                          status : {"BUSY", "READY"}, back : {"loop", "flush_save"}]
             /\ app'.pc = app.back /\ app'.pc \in {"loop", "flush_save"} /\ app.pc = "offer"
             /\ ~Receiving'
<1> USE DEF LinkInv
<1> DEFINE b == [id |-> app.frame, job |-> app.snap.session]
<1>1. /\ Write(<<b>>, b.job)
      /\ pending' = IF accepted' = accepted /\ app.snap.up THEN <<b>> ELSE pending
  BY DEF ReceiveWrite
<1>2. /\ UNCHANGED <<active, reply, rx, core, sent, last_status, switches>>
      /\ app' = [Idle EXCEPT !.pc = app.back] /\ app.pc = "offer"
  BY DEF ReceiveWrite
<1>3. app.snap \in [session : Nat, up : BOOLEAN] /\ app.frame \in Nat
  BY DEF LinkTypeOK
<1>4. b \in Byte /\ b.id = app.frame
  BY <1>3 DEF Byte
<1>5. pending = <<>> /\ Receiving
  BY <1>2 DEF Line, Receiving
<1>6. Under(printed, b.id) /\ Under(queue, b.id)
  BY <1>4, <1>5 DEF Newer, NewIds
<1>7. /\ app' \in [pc : Pcs, frame : Nat, snap : [session : Nat, up : BOOLEAN],
                   status : {"BUSY", "READY"}, back : {"loop", "flush_save"}]
      /\ app'.pc = app.back /\ app'.pc \in {"loop", "flush_save"}
  BY <1>2 DEF Idle, LinkTypeOK, Pcs, Ask
<1>8. ~Receiving'
  BY <1>7 DEF Receiving
<1> QED
  BY <1>1, <1>2, <1>4, <1>5, <1>6, <1>7, <1>8

\* receive() offers its byte.
LEMMA InvByOffer ==
  ASSUME LinkInv, ReceiveWrite
  PROVE  LinkInv'
<1> USE DEF LinkInv
<1> DEFINE b == [id |-> app.frame, job |-> app.snap.session]
<1>1. /\ Write(<<b>>, b.job) /\ b \in Byte /\ pending = <<>> /\ Receiving
      /\ Under(printed, b.id) /\ Under(queue, b.id)
      /\ pending' = IF accepted' = accepted /\ app.snap.up THEN <<b>> ELSE pending
      /\ UNCHANGED <<active, reply, rx, core, sent>>
      /\ app' \in [pc : Pcs, frame : Nat, snap : [session : Nat, up : BOOLEAN],
                   status : {"BUSY", "READY"}, back : {"loop", "flush_save"}]
      /\ app'.pc \in {"loop", "flush_save"} /\ app.pc = "offer"
      /\ ~Receiving'
  BY OfferFacts
<1>2. b.id = app.frame /\ b.job = app.snap.session
  OBVIOUS
<1> HIDE DEF b
<1>3. /\ Service' /\ UNCHANGED <<printed, session, connected, resetting, fault>>
      /\ \/ /\ accepted' = accepted + 1
            /\ \A x : Under(queue, x) /\ b.id < x => Under(queue', x)
         \/ accepted' = accepted /\ queue' = queue
  BY <1>1, WriteFacts
<1>4. pending' = <<b>> \/ pending' = <<>>
  BY <1>1
<1>5. pending' \in Seq(Byte) /\ Len(pending') <= 1 /\ (pending' # <<>> => pending'[1] = b)
  BY <1>1, <1>4, DeferType
<1>6. LinkTypeOK'
  BY <1>1, <1>5 DEF LinkTypeOK
<1>7. b.id <= sent /\ \A x \in DataIds(rx) : b.id < x
  BY <1>1, <1>2 DEF Line
<1>8. Line'
  <2>1. app'.pc \notin {"offer", "receive_write", "tick_write"}
    BY <1>1
  <2> QED
    BY <1>1, <1>5, <1>7, <2>1 DEF Line
<1>9. PendUp'
  <2>1. app'.pc # "offer"
    BY <1>1
  <2>2. pending' # <<>> => app.snap.up
    BY <1>1
  <2> QED
    BY <1>1, <1>2, <1>3, <1>5, <2>1, <2>2 DEF PendUp
<1>10. Newer'
  <2>1. NewIds' \subseteq NewIds
    BY <1>1, <1>2, <1>5 DEF NewIds
  <2>2. CASE accepted' = accepted
    <3>1. UNCHANGED queue
      <4>1. accepted + 1 # accepted
        BY DEF Service, TypeOK, Numbers
      <4> QED
        BY <1>3, <2>2, <4>1
    <3> QED
      BY <1>3, <2>1, <3>1 DEF Newer
  <2>3. CASE accepted' # accepted
    <3>1. pending' = <<>> /\ \A x : Under(queue, x) /\ b.id < x => Under(queue', x)
      BY <1>1, <1>3, <2>3
    <3>2. NewIds' = DataIds(rx) \cup {sent + 1}
      BY <1>1, <3>1 DEF NewIds
    <3>3. b.id < sent + 1
      BY <1>1, <1>7 DEF Byte, LinkTypeOK
    <3>4. \A x \in NewIds' : b.id < x
      BY <1>7, <3>2, <3>3
    <3> QED
      BY <1>3, <2>1, <3>1, <3>4 DEF Newer
  <2> QED
    BY <2>2, <2>3
<1> QED
  BY <1>3, <1>6, <1>8, <1>9, <1>10

\* The status frame: what is said of the printer, and sent.
LEMMA InvByStatus ==
  ASSUME LinkInv, \/ \E due \in BOOLEAN : TickStatus(due)
                  \/ \E lost \in BOOLEAN : TickSend(lost)
  PROVE  LinkInv'
<1> USE DEF LinkInv
<1>1. UNCHANGED <<vars, active, pending, rx, sent>>
  BY DEF TickStatus, TickSend, adapter
<1>2. UNCHANGED <<session, connected, resetting>>
  BY <1>1, QuietFacts
<1>3. /\ app' \in [pc : Pcs, frame : Nat, snap : [session : Nat, up : BOOLEAN],
                   status : {"BUSY", "READY"}, back : {"loop", "flush_save"}]
      /\ app'.pc \in {"loop", "send"} /\ app.pc \in {"tick", "send"}
  <2>1. CASE \E due \in BOOLEAN : TickStatus(due)
    <3>1. PICK level \in {"BUSY", "READY"} :
            app' = [app EXCEPT !.pc = "send", !.status = level] \/ Goto("loop")
      BY <2>1 DEF TickStatus
    <3> QED
      BY <2>1, <3>1 DEF TickStatus, Goto, LinkTypeOK, Pcs
  <2>2. CASE \E lost \in BOOLEAN : TickSend(lost)
    BY <2>2 DEF TickSend, Idle, LinkTypeOK, Pcs, Ask
  <2> QED
    BY <2>1, <2>2
<1>4. reply' \in BOOLEAN /\ core' \in [kind : Cores, first : Nat, asked : BOOLEAN, busy : BOOLEAN,
                                       waits : BOOLEAN]
  <2>1. CASE \E due \in BOOLEAN : TickStatus(due)
    BY <2>1 DEF TickStatus, LinkTypeOK
  <2>2. CASE \E lost \in BOOLEAN : TickSend(lost)
    BY <2>2 DEF TickSend, LinkTypeOK, adapter
  <2> QED
    BY <2>1, <2>2
<1>5. LinkTypeOK'
  BY <1>1, <1>3, <1>4 DEF LinkTypeOK
<1>6. ~Receiving' /\ ~Receiving /\ app'.pc \notin {"offer", "receive_write", "tick_write"}
  BY <1>3 DEF Receiving
<1>7. Line'
  BY <1>1, <1>6 DEF Line
<1>8. NewIds' \subseteq NewIds
  BY <1>1, <1>6 DEF NewIds
<1>9. PendUp'
  BY <1>1, <1>2, <1>6 DEF PendUp
<1> QED
  BY <1>1, <1>5, <1>7, <1>8, <1>9, InvByQuiet

\* configure() changes the core.
LEMMA InvBySwitch ==
  ASSUME LinkInv, SwitchReset \/ SwitchServiceReset \/ SwitchCore
  PROVE  LinkInv'
<1> USE DEF LinkInv
<1>1. {"service_reset", "flush_save", "loop"} \subseteq Pcs
  BY DEF Pcs
<1>2. /\ app' \in [pc : Pcs, frame : Nat, snap : [session : Nat, up : BOOLEAN],
                   status : {"BUSY", "READY"}, back : {"loop", "flush_save"}]
      /\ app'.pc \in {"service_reset", "flush_save", "loop"}
      /\ app.pc \in {"service_reset", "flush_save", "loop"}
  <2>1. PICK pc \in {"service_reset", "flush_save", "loop"} : Goto(pc)
    BY DEF SwitchReset, SwitchServiceReset, SwitchCore
  <2>2. app'.pc = pc /\ app' \in [pc : Pcs, frame : Nat, snap : [session : Nat, up : BOOLEAN],
                   status : {"BUSY", "READY"}, back : {"loop", "flush_save"}]
    BY <1>1, <2>1, GotoFacts
  <2> QED
    BY <2>1, <2>2 DEF SwitchReset, SwitchServiceReset, SwitchCore
<1>3. ~Receiving' /\ ~Receiving /\ app'.pc \notin {"offer", "receive_write", "tick_write"}
  BY <1>2 DEF Receiving
<1>4. /\ active' \in BOOLEAN /\ reply' \in BOOLEAN
      /\ pending' = pending \/ pending' = <<>>
      /\ rx' = rx \/ rx' = <<>>
      /\ sent' = sent
  BY DEF SwitchReset, SwitchServiceReset, SwitchCore, clear_link, adapter, LinkTypeOK
<1>5. core' \in [kind : Cores, first : Nat, asked : BOOLEAN, busy : BOOLEAN, waits : BOOLEAN]
  <2>1. CASE SwitchReset \/ SwitchServiceReset
    BY <2>1 DEF SwitchReset, SwitchServiceReset, LinkTypeOK
  <2>2. CASE SwitchCore
    BY <2>2 DEF SwitchCore, NewCore, LinkTypeOK
  <2> QED
    BY <2>1, <2>2
<1>6. pending' \in Seq(Byte) /\ Len(pending') <= 1
  <2>1. pending \in Seq(Byte) /\ Len(pending) <= 1
    BY DEF LinkTypeOK
  <2> QED
    BY <1>4, <2>1, DeferType
<1>7. /\ rx' \in Seq(Nat) /\ Len(rx') <= Depth /\ InLine(rx') /\ DataIds(rx') \subseteq DataIds(rx)
  <2>1. CASE rx' = rx
    BY <2>1 DEF LinkTypeOK, Line
  <2>2. CASE rx' = <<>>
    <3>1. Len(<<>>) = 0 /\ <<>> \in Seq(Nat) /\ 1 .. 0 = {} /\ 0 <= Depth
      BY LinkAssumption
    <3>2. InLine(rx') /\ DataIds(rx') = {}
      BY <2>2, <3>1 DEF InLine, DataIds
    <3> QED
      BY <2>2, <3>1, <3>2
  <2> QED
    BY <1>4, <2>1, <2>2
<1>8. LinkTypeOK'
  BY <1>2, <1>4, <1>5, <1>6, <1>7 DEF LinkTypeOK
<1>9. Line'
  <2>1. \A x \in DataIds(rx') : x <= sent'
    BY <1>4, <1>7 DEF Line
  <2>2. pending' # <<>> => /\ pending'[1].id <= sent'
                           /\ \A x \in DataIds(rx') : pending'[1].id < x
    BY <1>4, <1>7 DEF Line
  <2> QED
    BY <1>3, <1>7, <2>1, <2>2 DEF Line
<1>10. NewIds' \subseteq NewIds
  BY <1>3, <1>4, <1>7 DEF NewIds
<1>11. CASE UNCHANGED vars
  <2>1. UNCHANGED <<session, connected, resetting>>
    BY <1>11, QuietFacts
  <2>2. PendUp'
    BY <1>3, <1>4, <2>1 DEF PendUp
  <2> QED
    BY <1>8, <1>9, <1>10, <1>11, <2>2, InvByQuiet
<1>12. CASE Reset
  <2>1. session' = session + 1 /\ session \in Nat
    BY <1>12 DEF Reset, Service, TypeOK, Numbers
  <2>2. Service' /\ Newer'
    BY <1>10, <1>12, RestFacts, NewerShrinks
  <2>3. pending # <<>> => pending[1].job \in Nat
    BY Deferred DEF Byte
  <2>4. PendUp'
    BY <1>3, <1>4, <2>1, <2>3 DEF PendUp
  <2> QED
    BY <1>8, <1>9, <2>2, <2>4
<1> QED
  BY <1>11, <1>12 DEF SwitchReset, SwitchServiceReset, SwitchCore

\* It holds at the start.
LEMMA InvInit == LinkInit => LinkInv
<1> SUFFICES ASSUME LinkInit PROVE LinkInv
  OBVIOUS
<1>1. Init /\ rx = <<>> /\ pending = <<>> /\ sent = 0 /\ app = Idle /\ app.pc = "loop"
  BY DEF LinkInit, Idle
<1>2. Len(<<>>) = 0 /\ <<>> \in Seq(Nat) /\ <<>> \in Seq(Byte) /\ 1 .. 0 = {} /\ 0 <= Depth
  BY LinkAssumption
<1>3. Service
  <2>1. InOrder /\ OnWire
    BY <1>1, EmptyOrder DEF Init, InOrder, OnWire, NoPrinter
  <2> QED
    BY <1>1, <2>1, TypeInit, SafetyInit DEF Service
<1>4. LinkTypeOK
  <2>1. core \in [kind : Cores, first : Nat, asked : BOOLEAN, busy : BOOLEAN, waits : BOOLEAN]
    <3>1. sent + 1 \in Nat
      BY <1>1
    <3>2. PICK kind \in Cores : core = NewCore(kind)
      BY DEF LinkInit
    <3> QED
      BY <3>1, <3>2 DEF NewCore
  <2>2. app \in [pc : Pcs, frame : Nat, snap : [session : Nat, up : BOOLEAN],
                 status : {"BUSY", "READY"}, back : {"loop", "flush_save"}]
    BY <1>1 DEF Idle, Pcs, Ask
  <2> QED
    <3>1. pending \in Seq(Byte) /\ Len(pending) <= 1
      BY <1>1, DeferType
    <3>2. rx \in Seq(Nat) /\ Len(rx) <= Depth /\ sent \in Nat
      BY <1>1, <1>2
    <3>3. active \in BOOLEAN /\ reply \in BOOLEAN
      BY DEF LinkInit
    <3> QED
      BY <2>1, <2>2, <3>1, <3>2, <3>3 DEF LinkTypeOK
<1>5. DataIds(rx) = {} /\ ~Receiving /\ InLine(rx)
  BY <1>1, <1>2 DEF DataIds, Receiving, InLine
<1>6. Line /\ PendUp
  BY <1>1, <1>5 DEF Line, PendUp
<1>7. Newer
  BY <1>1, EmptyOrder DEF Newer, Init
<1> QED
  BY <1>3, <1>4, <1>6, <1>7 DEF LinkInv

\* And every step keeps it.
LEMMA InvStep == LinkInv /\ [LinkNext]_all_vars => LinkInv'
<1> SUFFICES ASSUME LinkInv, [LinkNext]_all_vars PROVE LinkInv'
  OBVIOUS
<1>1. CASE Usb /\ UNCHANGED link_vars
  BY <1>1, InvByUsb
<1>2. CASE CoreData \/ CoreAsk
  BY <1>2, InvByCore
<1>3. CASE Dispatch("loop") \/ Dispatch("flush_save")
  BY <1>3, InvByDispatch
<1>4. CASE ReceiveFlush \/ TickStart
  BY <1>4, InvBySnapshot
<1>5. CASE ReceiveFlushWrite \/ TickFlushWrite
  BY <1>5, InvByFlush
<1>6. CASE ReceiveSnapshot \/ ReceiveWrite
  BY <1>6, InvByReceive, InvByOffer
<1>7. CASE \/ \E due \in BOOLEAN : TickStatus(due)
           \/ \E lost \in BOOLEAN : TickSend(lost)
  BY <1>7, InvByStatus
<1>8. CASE SwitchReset \/ SwitchServiceReset \/ SwitchCore
  BY <1>8, InvBySwitch
<1>9. CASE UNCHANGED all_vars
  BY <1>9, InvByUsb DEF all_vars
<1> QED
  BY <1>1, <1>2, <1>3, <1>4, <1>5, <1>6, <1>7, <1>8, <1>9 DEF LinkNext, App

\* The invariant of the service under its adapter.
THEOREM LinkInvariant == LinkSpec => []LinkInv
  BY InvInit, InvStep, PTL DEF LinkSpec

\* No byte of a core is printed twice or before an older one: a byte that was
\* deferred at a full queue still goes before its successors, and one that a
\* reset caught is gone ("Never replay data").
THEOREM LinkNoReplay == LinkSpec => []PrintedOnce
<1>1. LinkInv => PrintedOnce
  BY DEF LinkInv, Service, InOrder, Rising, PrintedOnce
<1> QED
  BY <1>1, LinkInvariant, PTL

\* No byte of a job joins another one, across a change of the core too.
THEOREM LinkOneSession == LinkSpec => []QueueOneSession
<1>1. LinkInv => QueueOneSession
  BY DEF LinkInv, Service, Safety
<1> QED
  BY <1>1, LinkInvariant, PTL

-----------------------------------------------------------------------------
(* The reserve.  READY is sent with more room than the reserve; from then on *)
(* each byte of the core takes a place of its own, until the next READY,     *)
(* when at most Depth of them are still on the wire.                         *)

\* The parts of Places.
held    == IF Receiving THEN 1 ELSE 0
wire    == Cardinality(DataIds(rx))
granted == IF ~core.busy /\ ~core.waits THEN 1 ELSE 0

\* Their ranges.
PlacesRange ==
  /\ used \in Nat /\ wire \in Nat /\ wire <= Len(rx) /\ Len(rx) \in Nat /\ Len(rx) <= Depth
  /\ Len(pending) \in Nat /\ held \in Nat /\ granted \in Nat
  /\ Len(pending) <= 1 /\ held <= 1 /\ granted <= 1
  /\ QueueSize \in Nat /\ Reserve \in Nat /\ Depth \in Nat /\ Reserve < QueueSize
  /\ used <= QueueSize
  /\ Places = used + Len(pending) + held + wire + granted

\* They hold in every state of the invariant.
LEMMA PlacesParts == LinkInv => PlacesRange
<1> SUFFICES ASSUME LinkInv PROVE PlacesRange
  OBVIOUS
<1>1. used \in Nat /\ used <= QueueSize
  BY UsedType DEF LinkInv, Service, TypeOK, Streams
<1>2. rx \in Seq(Nat) /\ Len(rx) <= Depth /\ Len(rx) \in Nat
  BY LenProperties DEF LinkInv, LinkTypeOK
<1>3. wire \in Nat /\ wire <= Len(rx)
  BY <1>2, CountFrames DEF wire
<1>4. Len(pending) \in Nat /\ Len(pending) <= 1
  BY LenProperties DEF LinkInv, LinkTypeOK
<1> QED
  BY <1>1, <1>2, <1>3, <1>4, PrinterAssumption, LinkAssumption
     DEF held, granted, Places, wire, PlacesRange

\* And in the state after it.
LEMMA PlacesNext == LinkInv' => PlacesRange'
  BY PlacesParts, PTL

\* A byte that meets a deferred one finds no printer at work.
NoUse == app.pc = "receive" /\ pending # <<>> => pending[1].job # session \/ fault

\* The last READY was sent with room beyond the reserve.
ReadyRoom == app.pc = "send" /\ app.status = "READY"
               => used < QueueSize - Reserve /\ pending = <<>>

\* The service only makes room.
LEMMA RoomByUsb ==
  ASSUME LinkInv, LinkInv', Room, [Reset \/ Usb]_vars, UNCHANGED link_vars
  PROVE  Room'
<1>1. UNCHANGED <<pending, app, rx, core>> /\ Service
  BY DEF link_vars, adapter, LinkInv
<1>2. used' <= used /\ session' \in Nat /\ session <= session' /\ session \in Nat
      /\ (session' = session /\ connected /\ ~resetting => (fault => fault'))
  BY <1>1, RestFacts DEF Service, TypeOK, Numbers
<1>3. held' = held /\ wire' = wire /\ granted' = granted
  BY <1>1 DEF held, Receiving, wire, DataIds, granted
<1>4. /\ used \in Nat /\ used' \in Nat /\ QueueSize \in Nat /\ Reserve \in Nat /\ wire \in Nat
      /\ Len(pending) \in Nat /\ held \in Nat /\ granted \in Nat
  BY PlacesParts, PlacesNext DEF PlacesRange
<1>5. Places' <= QueueSize + 1
  <2>1. Places = used + Len(pending) + held + wire + granted
    BY PlacesParts, PlacesNext DEF PlacesRange
  <2>2. Places' = used' + Len(pending) + held + wire + granted
    BY <1>1, <1>3, PlacesParts, PlacesNext DEF PlacesRange
  <2>3. Places <= QueueSize + 1
    BY DEF Room
  <2>4. used + Len(pending) + held + wire + granted <= QueueSize + 1 /\ used' <= used
    BY <1>2, <2>1, <2>3
  <2>5. \A u, v, p, h, w, g, q \in Nat : v <= u /\ u + p + h + w + g <= q + 1 => v + p + h + w + g <= q + 1
    OBVIOUS
  <2>6. used' + Len(pending) + held + wire + granted <= QueueSize + 1
    BY <1>4, <2>4, <2>5
  <2> QED
    BY <2>2, <2>6
<1>6. ReadyRoom'
  BY <1>1, <1>2, <1>4 DEF Room, ReadyRoom
<1>7. NoUse'
  <2> SUFFICES ASSUME app.pc = "receive", pending # <<>>, pending[1].job = session'
               PROVE  fault'
    BY <1>1 DEF NoUse
  <2>1. pending[1].job \in Nat /\ pending[1].job <= session
    BY Deferred DEF LinkInv, PendUp, Byte
  <2>2. session' = session /\ pending[1].job = session
    BY <1>2, <2>1
  <2>3. connected /\ ~resetting
    BY <2>2 DEF LinkInv, PendUp
  <2>4. fault
    BY <2>2 DEF Room
  <2> QED
    BY <1>2, <2>2, <2>3, <2>4
<1> QED
  BY <1>5, <1>6, <1>7 DEF Room, ReadyRoom, NoUse

\* A byte on the wire takes the place it was granted.
LEMMA RoomByCore ==
  ASSUME LinkInv, LinkInv', Room, CoreData \/ CoreAsk
  PROVE  Room'
<1>1. UNCHANGED <<vars, pending, app>>
  BY DEF CoreData, CoreAsk, adapter
<1>2. UNCHANGED <<used, session, fault>>
  BY <1>1, QuietFacts DEF LinkInv
<1>3. held' = held
  BY <1>1 DEF held, Receiving
<1>4. rx \in Seq(Nat) /\ InLine(rx) /\ sent \in Nat
  BY DEF LinkInv, LinkTypeOK, Line
<1>5. wire' + granted' <= wire + granted
  <2>1. IsFiniteSet(DataIds(rx)) /\ wire \in Nat
    BY <1>4, CountFrames DEF wire
  <2>2. CASE CoreData
    <3>1. granted = 1 /\ granted' = 0
      BY <2>2 DEF CoreData, granted, LinkInv, LinkTypeOK
    <3>2. sent' = sent + 1 /\ sent' \in Nat /\ (rx' = rx \/ rx' = Append(rx, sent'))
      BY <1>4, <2>2 DEF CoreData
    <3>3. \A x \in DataIds(rx) : x < sent'
      <4>1. \A x \in DataIds(rx) : x <= sent /\ x \in Nat
        BY <1>4, ElementOfSeq DEF LinkInv, Line, DataIds
      <4> QED
        BY <1>4, <3>2, <4>1
    <3>4. wire' <= wire + 1
      <4>1. CASE rx' = rx
        BY <2>1, <4>1 DEF wire, DataIds
      <4>2. CASE rx' = Append(rx, sent')
        <5>1. DataIds(Append(rx, sent')) = DataIds(rx) \cup ({sent'} \ {Ask})
          BY <1>4, <3>2, <3>3, AppendFrames
        <5>2. {sent'} \ {Ask} = {sent'}
          BY <1>4, <3>2 DEF Ask
        <5>3. Cardinality(DataIds(rx) \cup {sent'}) =
                IF sent' \in DataIds(rx) THEN Cardinality(DataIds(rx)) ELSE Cardinality(DataIds(rx)) + 1
          BY <2>1, FS_AddElement
        <5>4. wire' = Cardinality(DataIds(rx) \cup {sent'})
          BY <4>2, <5>1, <5>2 DEF wire
        <5> QED
          BY <2>1, <5>3, <5>4 DEF wire
      <4> QED
        BY <3>2, <4>1, <4>2
    <3>5. wire' \in Nat
      BY PlacesParts, PlacesNext DEF PlacesRange
    <3>6. \A w, v \in Nat : v <= w + 1 => v + 0 <= w + 1
      OBVIOUS
    <3> QED
      BY <2>1, <3>1, <3>4, <3>5, <3>6
  <2>3. CASE CoreAsk
    <3>1. rx' = rx \/ rx' = Append(rx, Ask)
      BY <2>3 DEF CoreAsk
    <3>2. DataIds(rx') = DataIds(rx)
      <4>1. DataIds(Append(rx, Ask)) = DataIds(rx) \cup ({Ask} \ {Ask})
        <5>1. Ask \in Nat
          BY DEF Ask
        <5> QED
          BY <1>4, <5>1, AppendFrames
      <4> QED
        BY <3>1, <4>1
    <3>3. wire' = wire
      BY <3>2 DEF wire
    <3>4. granted' = granted
      BY <2>3 DEF CoreAsk, granted, LinkInv, LinkTypeOK
    <3>5. wire \in Nat /\ granted \in Nat
      BY PlacesParts DEF PlacesRange
    <3> QED
      BY <3>3, <3>4, <3>5
  <2> QED
    BY <2>2, <2>3
<1>6. Places' <= QueueSize + 1
  <2>1. Places = used + Len(pending) + held + wire + granted
    BY PlacesParts, PlacesNext DEF PlacesRange
  <2>2. Places' = used + Len(pending) + held + wire' + granted'
    BY <1>1, <1>2, <1>3, PlacesParts, PlacesNext DEF PlacesRange
  <2>3. Places <= QueueSize + 1
    BY DEF Room
  <2>4. used \in Nat /\ Len(pending) \in Nat /\ held \in Nat /\ wire \in Nat /\ granted \in Nat
        /\ wire' \in Nat /\ granted' \in Nat /\ QueueSize \in Nat
    BY PlacesParts, PlacesNext DEF PlacesRange
  <2>5. \A u, p, h, w, g, v, k, q \in Nat :
          v + k <= w + g /\ u + p + h + w + g <= q + 1 => u + p + h + v + k <= q + 1
    OBVIOUS
  <2>6. used + Len(pending) + held + wire + granted <= QueueSize + 1
    BY <2>1, <2>3
  <2>7. used + Len(pending) + held + wire' + granted' <= QueueSize + 1
    BY <1>5, <2>4, <2>5, <2>6
  <2> QED
    BY <2>2, <2>7
<1> QED
  BY <1>1, <1>2, <1>6 DEF Room

\* No more places are taken than before.
LEMMA PlacesKept ==
  ASSUME LinkInv, LinkInv', Room,
         used' + Len(pending') + held' + wire' + granted'
           <= used + Len(pending) + held + wire + granted
  PROVE  Places' <= QueueSize + 1
<1>1. Places = used + Len(pending) + held + wire + granted /\ Places <= QueueSize + 1
  BY PlacesParts DEF PlacesRange, Room
<1>2. Places' = used' + Len(pending') + held' + wire' + granted'
  BY PlacesNext DEF PlacesRange
<1>3. /\ used \in Nat /\ Len(pending) \in Nat /\ held \in Nat /\ wire \in Nat /\ granted \in Nat
      /\ QueueSize \in Nat
  BY PlacesParts DEF PlacesRange
<1>4. /\ used' \in Nat /\ Len(pending') \in Nat /\ held' \in Nat /\ wire' \in Nat
      /\ granted' \in Nat
  BY PlacesNext DEF PlacesRange
<1>5. \A x, y, q \in Nat : y <= x /\ x <= q + 1 => y <= q + 1
  OBVIOUS
<1>6. \A u, p, h, w, g \in Nat : u + p + h + w + g \in Nat
  OBVIOUS
<1>7. used + Len(pending) + held + wire + granted \in Nat
  BY <1>3, <1>6
<1>8. used' + Len(pending') + held' + wire' + granted' \in Nat
  BY <1>4, <1>6
<1>9. used + Len(pending) + held + wire + granted <= QueueSize + 1
  BY <1>1
<1>10. used' + Len(pending') + held' + wire' + granted' <= QueueSize + 1
  BY <1>3, <1>5, <1>7, <1>8, <1>9
<1> QED
  BY <1>2, <1>10

\* The parts each step leaves alone.
LEMMA PartsAlone ==
  /\ UNCHANGED rx => wire' = wire
  /\ UNCHANGED core => granted' = granted
  /\ UNCHANGED pending => Len(pending') = Len(pending)
  /\ LinkInv /\ UNCHANGED vars => UNCHANGED <<used, session, fault>>
  BY QuietFacts DEF wire, DataIds, granted, LinkInv

\* APP takes a frame: its byte moves from the wire into APP's hands.
LEMMA RoomByDispatch ==
  ASSUME LinkInv, LinkInv', Room, NEW at \in {"loop", "flush_save"}, Dispatch(at)
  PROVE  Room'
<1>1. /\ UNCHANGED <<vars, pending, core>> /\ rx # <<>> /\ rx' = Tail(rx) /\ app.pc = at
  BY DEF Dispatch
<1>2. rx \in Seq(Nat) /\ InLine(rx)
  BY DEF LinkInv, LinkTypeOK, Line
<1>3. /\ DataIds(rx') \subseteq DataIds(rx)
      /\ rx' \in Seq(Nat)
      /\ Head(rx) # Ask => /\ Head(rx) \in DataIds(rx)
                           /\ \A x \in DataIds(rx') : Head(rx) < x
      /\ Head(rx) \in Nat
  BY <1>1, <1>2, TailFrames
<1>4. IsFiniteSet(DataIds(rx)) /\ wire \in Nat /\ IsFiniteSet(DataIds(rx')) /\ wire' \in Nat
  BY <1>2, <1>3, CountFrames DEF wire
<1>5. held = 0
  BY <1>1 DEF held, Receiving
<1>6. held' + wire' <= wire /\ app'.pc \in {at, "flush"}
  <2>1. CASE Head(rx) = Ask
    <3>1. held' = 0 /\ app'.pc = at
      BY <1>1, <2>1 DEF held, Receiving, Dispatch
    <3>2. wire' <= wire
      BY <1>3, <1>4, FS_Subset DEF wire
    <3>3. \A w, v \in Nat : v <= w => 0 + v <= w
      OBVIOUS
    <3> QED
      BY <1>4, <3>1, <3>2, <3>3
  <2>2. CASE Head(rx) # Ask
    <3>1. app'.pc = "flush" /\ held' = 1
      BY <2>2 DEF Dispatch, held, Receiving, LinkInv, LinkTypeOK
    <3>2. Head(rx) \notin DataIds(rx')
      BY <1>3, <2>2
    <3>3. Cardinality(DataIds(rx') \cup {Head(rx)}) = wire' + 1
      <4>1. Cardinality(DataIds(rx') \cup {Head(rx)}) = Cardinality(DataIds(rx')) + 1
        BY <1>4, <3>2, FS_AddElement
      <4> QED
        BY <4>1 DEF wire
    <3>4. DataIds(rx') \cup {Head(rx)} \subseteq DataIds(rx)
      BY <1>3, <2>2
    <3>5. Cardinality(DataIds(rx') \cup {Head(rx)}) <= wire
      BY <1>4, <3>4, FS_Subset DEF wire
    <3>6. \A w, v, c \in Nat : c = v + 1 /\ c <= w => 1 + v <= w
      OBVIOUS
    <3>7. Cardinality(DataIds(rx') \cup {Head(rx)}) \in Nat
      BY <1>4, FS_AddElement, FS_CardinalityType
    <3> QED
      BY <1>4, <3>1, <3>3, <3>5, <3>6, <3>7
  <2> QED
    BY <2>1, <2>2
<1>7. Places' <= QueueSize + 1
  <2>1. used' = used /\ Len(pending') = Len(pending) /\ granted' = granted
    BY <1>1, PartsAlone
  <2>2. /\ used \in Nat /\ Len(pending) \in Nat /\ wire \in Nat /\ granted \in Nat
        /\ wire' \in Nat /\ held' \in Nat
    BY PlacesParts, PlacesNext DEF PlacesRange
  <2>3. \A u, p, w, g, h, v \in Nat : h + v <= w => u + p + h + v + g <= u + p + 0 + w + g
    OBVIOUS
  <2>4. used' + Len(pending') + held' + wire' + granted'
          <= used + Len(pending) + held + wire + granted
    BY <1>5, <1>6, <2>1, <2>2, <2>3
  <2> QED
    BY <2>4, PlacesKept
<1> QED
  BY <1>6, <1>7 DEF Room

\* flush_pending() looks at the session.
LEMMA RoomBySnapshot ==
  ASSUME LinkInv, LinkInv', Room, ReceiveFlush \/ TickStart
  PROVE  Room'
<1>1. /\ UNCHANGED <<vars, rx, core>> /\ (pending' = pending \/ pending' = <<>>)
      /\ app' = [app EXCEPT !.pc = app'.pc]
      /\ \/ app.pc = "flush" /\ app'.pc = "receive" /\ pending' = <<>>
         \/ app.pc = "flush" /\ app'.pc = "receive_write"
         \/ app.pc = "loop" /\ app'.pc \in {"tick", "tick_write"}
  BY DEF ReceiveFlush, TickStart, FlushSnapshot, Goto, LinkInv, LinkTypeOK
<1>2. held' = held
  BY <1>1 DEF held, Receiving
<1>3. used' = used /\ wire' = wire /\ granted' = granted
  BY <1>1, PartsAlone
<1>4. Len(pending') <= Len(pending)
  <2>1. Len(pending) \in Nat
    BY PlacesParts DEF PlacesRange
  <2> QED
    BY <1>1, <2>1, DeferType
<1>5. Places' <= QueueSize + 1
  <2>1. /\ used \in Nat /\ Len(pending) \in Nat /\ held \in Nat /\ wire \in Nat /\ granted \in Nat
        /\ Len(pending') \in Nat
    BY PlacesParts, PlacesNext DEF PlacesRange
  <2>2. \A u, p, h, w, g, r \in Nat : r <= p => u + r + h + w + g <= u + p + h + w + g
    OBVIOUS
  <2> QED
    BY <1>2, <1>3, <1>4, <2>1, <2>2, PlacesKept
<1> QED
  BY <1>1, <1>5 DEF Room

\* flush_pending() offers the byte.
LEMMA RoomByFlush ==
  ASSUME LinkInv, LinkInv', Room, ReceiveFlushWrite \/ TickFlushWrite
  PROVE  Room'
<1> DEFINE b == pending[1]
<1>1. /\ Write(<<b>>, b.job) /\ pending # <<>> /\ b \in Byte
      /\ Under(printed, b.id) /\ Under(queue, b.id)
      /\ UNCHANGED <<rx, core>>
      /\ pending' = IF accepted' = accepted THEN pending ELSE <<>>
      /\ \/ app.pc = "receive_write" /\ app'.pc = "receive"
         \/ app.pc = "tick_write" /\ app'.pc = "tick"
  BY FlushFacts
<1>2. /\ UNCHANGED <<session, connected, resetting, fault>>
      /\ \/ accepted' = accepted + 1 /\ used' = used + 1
         \/ /\ accepted' = accepted /\ queue' = queue
            /\ ~meant(b.job) \/ used = QueueSize
  BY <1>1, WriteFacts DEF LinkInv
<1>3. wire' = wire /\ granted' = granted
  BY <1>1, PartsAlone
<1>4. held' = held
  BY <1>1 DEF held, Receiving
<1>5. accepted \in Nat /\ accepted + 1 # accepted
  BY DEF LinkInv, Service, TypeOK, Numbers
<1>6. /\ used \in Nat /\ Len(pending) \in Nat /\ held \in Nat /\ wire \in Nat /\ granted \in Nat
      /\ QueueSize \in Nat
  BY PlacesParts DEF PlacesRange
<1>7. Len(pending) = 1
  BY <1>1, Deferred DEF LinkInv
<1>8. CASE accepted' = accepted + 1
  <2>1. pending' = <<>> /\ used' = used + 1 /\ Len(pending') = 0
    BY <1>1, <1>2, <1>5, <1>8, DeferType
  <2>2. \A u, h, w, g \in Nat : u + 1 + 0 + h + w + g <= u + 1 + h + w + g
    OBVIOUS
  <2>3. Places' <= QueueSize + 1
    BY <1>3, <1>4, <1>6, <1>7, <2>1, <2>2, PlacesKept
  <2> QED
    BY <1>1, <2>1, <2>3 DEF Room
<1>9. CASE accepted' = accepted
  <2>1. pending' = pending /\ queue' = queue /\ used' = used /\ (~meant(b.job) \/ used = QueueSize)
    BY <1>1, <1>2, <1>5, <1>9 DEF used
  <2>2. \A u, p, h, w, g \in Nat : u + p + h + w + g <= u + p + h + w + g
    OBVIOUS
  <2>3. Places' <= QueueSize + 1
    BY <1>3, <1>4, <1>6, <2>1, <2>2, PlacesKept
  <2>4. ASSUME app'.pc = "receive", b.job = session
        PROVE  fault
    <3>1. connected /\ ~resetting
      BY <1>1, <2>4 DEF LinkInv, PendUp
    <3>2. CASE ~meant(b.job)
      BY <2>4, <3>1, <3>2 DEF meant, writable
    <3>3. CASE used = QueueSize
      <4>1. held = 1
        BY <1>1, <2>4 DEF held, Receiving
      <4>2. Places = QueueSize + 1 + 1 + wire + granted /\ Places <= QueueSize + 1
        BY <1>7, <3>3, <4>1, PlacesParts DEF PlacesRange, Room
      <4> QED
        BY <1>6, <4>2
    <3> QED
      BY <2>1, <3>2, <3>3
  <2>5. app'.pc # "send"
    BY <1>1
  <2> QED
    BY <1>1, <1>2, <2>1, <2>3, <2>4, <2>5 DEF Room
<1> QED
  BY <1>2, <1>8, <1>9

\* receive() takes a snapshot or rejects its byte.
LEMMA RoomByReceive ==
  ASSUME LinkInv, LinkInv', Room, ReceiveSnapshot
  PROVE  Room'
<1>1. UNCHANGED <<vars, pending, rx, core>> /\ app.pc = "receive"
  BY DEF ReceiveSnapshot, adapter
<1>2. app'.pc \in {"loop", "flush_save", "offer"}
  BY ZenonT(60) DEF ReceiveSnapshot, Idle, LinkInv, LinkTypeOK
<1>3. held = 1 /\ held' <= 1 /\ held' \in Nat
  BY <1>1 DEF held, Receiving
<1>4. used' = used /\ wire' = wire /\ granted' = granted /\ Len(pending') = Len(pending)
  BY <1>1, PartsAlone
<1>5. Places' <= QueueSize + 1
  <2>1. used \in Nat /\ Len(pending) \in Nat /\ wire \in Nat /\ granted \in Nat
    BY PlacesParts DEF PlacesRange
  <2>2. \A u, p, w, g, k \in Nat : k <= 1 => u + p + k + w + g <= u + p + 1 + w + g
    OBVIOUS
  <2> QED
    BY <1>3, <1>4, <2>1, <2>2, PlacesKept
<1> QED
  BY <1>2, <1>5 DEF Room

\* receive() offers its byte: it is queued, deferred or rejected.
LEMMA RoomByOffer ==
  ASSUME LinkInv, LinkInv', Room, ReceiveWrite
  PROVE  Room'
<1> DEFINE b == [id |-> app.frame, job |-> app.snap.session]
<1>1. /\ Write(<<b>>, b.job) /\ b \in Byte /\ pending = <<>> /\ Receiving
      /\ Under(printed, b.id) /\ Under(queue, b.id)
      /\ pending' = IF accepted' = accepted /\ app.snap.up THEN <<b>> ELSE pending
      /\ UNCHANGED <<rx, core>>
      /\ app'.pc \in {"loop", "flush_save"}
      /\ ~Receiving'
  BY OfferFacts
<1> HIDE DEF b
<1>2. \/ accepted' = accepted + 1 /\ used' = used + 1
      \/ accepted' = accepted /\ queue' = queue
  BY <1>1, WriteFacts DEF LinkInv
<1>3. wire' = wire /\ granted' = granted /\ held = 1 /\ held' = 0
  BY <1>1, PartsAlone DEF held
<1>4. accepted \in Nat /\ accepted + 1 # accepted
  BY DEF LinkInv, Service, TypeOK, Numbers
<1>5. used \in Nat /\ wire \in Nat /\ granted \in Nat
  BY PlacesParts DEF PlacesRange
<1>6. Len(pending) = 0
  BY <1>1, DeferType
<1>7. CASE accepted' = accepted + 1
  <2>1. used' = used + 1 /\ Len(pending') = 0
    BY <1>1, <1>2, <1>4, <1>6, <1>7
  <2>2. \A u, w, g \in Nat : u + 1 + 0 + 0 + w + g <= u + 0 + 1 + w + g
    OBVIOUS
  <2>3. Places' <= QueueSize + 1
    BY <1>3, <1>5, <1>6, <2>1, <2>2, PlacesKept
  <2> QED
    BY <1>1, <2>3 DEF Room
<1>8. CASE accepted' = accepted
  <2>1. used' = used /\ Len(pending') \in Nat /\ Len(pending') <= 1
    BY <1>1, <1>2, <1>4, <1>8, PlacesNext DEF used, PlacesRange
  <2>2. \A u, w, g, p \in Nat : p <= 1 => u + p + 0 + w + g <= u + 0 + 1 + w + g
    OBVIOUS
  <2>3. Places' <= QueueSize + 1
    BY <1>3, <1>5, <1>6, <2>1, <2>2, PlacesKept
  <2> QED
    BY <1>1, <2>3 DEF Room
<1> QED
  BY <1>2, <1>7, <1>8

\* The status frame is made and sent: READY grants the core one more byte.
LEMMA RoomByStatus ==
  ASSUME LinkInv, LinkInv', Room, Depth <= Reserve + 1,
         \/ \E due \in BOOLEAN : TickStatus(due)
         \/ \E lost \in BOOLEAN : TickSend(lost)
  PROVE  Room'
<1>1. UNCHANGED <<vars, pending, rx>>
  BY DEF TickStatus, TickSend, adapter
<1>2. used' = used /\ wire' = wire /\ Len(pending') = Len(pending)
  BY <1>1, PartsAlone
<1>3. /\ used \in Nat /\ Len(pending) \in Nat /\ wire \in Nat /\ granted \in Nat /\ granted' \in Nat
      /\ QueueSize \in Nat /\ Reserve \in Nat /\ Reserve < QueueSize /\ Depth \in Nat
      /\ wire <= Len(rx) /\ Len(rx) <= Depth /\ Len(rx) \in Nat /\ granted' <= 1
  BY PlacesParts, PlacesNext DEF PlacesRange
<1>4. CASE \E due \in BOOLEAN : TickStatus(due)
  <2>1. app.pc = "tick" /\ core' = core /\ app'.pc \in {"loop", "send"}
    BY <1>4 DEF TickStatus, Goto, LinkInv, LinkTypeOK
  <2>2. held' = 0 /\ held = 0 /\ granted' = granted
    BY <2>1, PartsAlone DEF held, Receiving
  <2>3. \A u, p, w, g \in Nat : u + p + 0 + w + g <= u + p + 0 + w + g
    OBVIOUS
  <2>4. Places' <= QueueSize + 1
    BY <1>2, <1>3, <2>2, <2>3, PlacesKept
  <2>5. ASSUME app'.pc = "send", app'.status = "READY"
        PROVE  used' < QueueSize - Reserve /\ pending' = <<>>
    <3>1. ~busy
      <4>1. app' = [app EXCEPT !.pc = "send", !.status = IF busy THEN "BUSY" ELSE "READY"]
        BY <1>4, <2>1, <2>5 DEF TickStatus, Goto, LinkInv, LinkTypeOK
      <4> QED
        BY <2>5, <4>1 DEF LinkInv, LinkTypeOK
    <3>2. pending = <<>> /\ ~(QueueSize - used <= Reserve)
      BY <3>1 DEF busy
    <3> QED
      BY <1>1, <1>2, <1>3, <3>2
  <2> QED
    BY <2>1, <2>4, <2>5 DEF Room
<1>5. CASE \E lost \in BOOLEAN : TickSend(lost)
  <2>1. app.pc = "send" /\ app'.pc = "loop"
    BY <1>5 DEF TickSend, Idle
  <2>2. held' = 0 /\ held = 0
    BY <2>1 DEF held, Receiving
  <2>3. Places' <= QueueSize + 1
    <3>1. CASE granted' <= granted
      <4>1. \A u, p, w, g, r \in Nat : r <= g => u + p + 0 + w + r <= u + p + 0 + w + g
        OBVIOUS
      <4> QED
        BY <1>2, <1>3, <2>2, <3>1, <4>1, PlacesKept
    <3>2. CASE app.status = "READY"
      <4>1. used < QueueSize - Reserve /\ Len(pending) = 0
        BY <2>1, <3>2, DeferType DEF Room
      <4>2. Places' = used + 0 + 0 + wire + granted'
        BY <1>2, <2>2, <4>1, PlacesNext DEF PlacesRange
      <4>3. \A u, q, e, d, w, l, g \in Nat :
              u < q - e /\ d <= e + 1 /\ w <= l /\ l <= d /\ g <= 1 => u + 0 + 0 + w + g <= q + 1
        OBVIOUS
      <4> QED
        BY <1>3, <4>1, <4>2, <4>3
    <3>3. CASE app.status = "BUSY"
      <4>1. core' = core \/ core'.busy = TRUE
        BY <1>5, <3>3 DEF TickSend, LinkInv, LinkTypeOK
      <4>2. CASE core' = core
        <5>1. granted' <= granted
          BY <1>3, <4>2 DEF granted
        <5> QED
          BY <3>1, <5>1
      <4>3. CASE core'.busy = TRUE
        <5>1. granted' = 0
          BY <4>3 DEF granted
        <5> QED
          BY <1>3, <3>1, <5>1
      <4> QED
        BY <4>1, <4>2, <4>3
    <3> QED
      BY <3>2, <3>3 DEF LinkInv, LinkTypeOK
  <2> QED
    BY <2>1, <2>3 DEF Room
<1> QED
  BY <1>4, <1>5

\* configure() gives places back.
LEMMA RoomBySwitch ==
  ASSUME LinkInv, LinkInv', Room, SwitchReset \/ SwitchServiceReset \/ SwitchCore
  PROVE  Room'
<1>1. /\ app.pc \in {"loop", "service_reset", "flush_save"}
      /\ app'.pc \in {"loop", "service_reset", "flush_save"}
  BY DEF SwitchReset, SwitchServiceReset, SwitchCore, Goto, LinkInv, LinkTypeOK
<1>2. /\ pending' = pending \/ pending' = <<>>
      /\ UNCHANGED <<rx, core>> \/ (rx' = <<>> /\ core'.busy = TRUE)
      /\ UNCHANGED vars \/ Reset
  BY DEF SwitchReset, SwitchServiceReset, SwitchCore, clear_link, adapter, NewCore
<1>3. held = 0 /\ held' = 0
  BY <1>1 DEF held, Receiving
<1>4. /\ used \in Nat /\ Len(pending) \in Nat /\ wire \in Nat /\ granted \in Nat
      /\ Len(pending') \in Nat /\ wire' \in Nat /\ granted' \in Nat
  BY PlacesParts, PlacesNext DEF PlacesRange
<1>5. used' = used
  BY <1>2, PartsAlone DEF Reset, used
<1>6. Len(pending') <= Len(pending)
  BY <1>2, <1>4, DeferType
<1>7. wire' <= wire /\ granted' <= granted
  <2>1. CASE UNCHANGED <<rx, core>>
    BY <1>4, <2>1, PartsAlone
  <2>2. CASE rx' = <<>> /\ core'.busy = TRUE
    <3>1. Len(<<>>) = 0 /\ 1 .. 0 = {}
      OBVIOUS
    <3>2. DataIds(rx') = {}
      BY <2>2, <3>1 DEF DataIds
    <3>3. wire' = 0 /\ granted' = 0
      BY <2>2, <3>2, FS_EmptySet DEF wire, granted
    <3> QED
      BY <1>4, <3>3
  <2> QED
    BY <1>2, <2>1, <2>2
<1>8. \A u, p, w, g, r, v, k \in Nat :
        r <= p /\ v <= w /\ k <= g => u + r + 0 + v + k <= u + p + 0 + w + g
  OBVIOUS
<1>9. Places' <= QueueSize + 1
  BY <1>3, <1>4, <1>5, <1>6, <1>7, <1>8, PlacesKept
<1> QED
  BY <1>1, <1>9 DEF Room

\* Every step keeps the room.
LEMMA RoomStep ==
  ASSUME LinkInv, LinkInv', Room, Depth <= Reserve + 1, [LinkNext]_all_vars
  PROVE  Room'
<1>1. CASE Usb /\ UNCHANGED link_vars
  BY <1>1, RoomByUsb
<1>2. CASE CoreData \/ CoreAsk
  BY <1>2, RoomByCore
<1>3. CASE Dispatch("loop") \/ Dispatch("flush_save")
  BY <1>3, RoomByDispatch
<1>4. CASE ReceiveFlush \/ TickStart
  BY <1>4, RoomBySnapshot
<1>5. CASE ReceiveFlushWrite \/ TickFlushWrite
  BY <1>5, RoomByFlush
<1>6. CASE ReceiveSnapshot \/ ReceiveWrite
  BY <1>6, RoomByReceive, RoomByOffer
<1>7. CASE \/ \E due \in BOOLEAN : TickStatus(due)
           \/ \E lost \in BOOLEAN : TickSend(lost)
  BY <1>7, RoomByStatus
<1>8. CASE SwitchReset \/ SwitchServiceReset \/ SwitchCore
  BY <1>8, RoomBySwitch
<1>9. CASE UNCHANGED all_vars
  BY <1>9, RoomByUsb DEF all_vars
<1> QED
  BY <1>1, <1>2, <1>3, <1>4, <1>5, <1>6, <1>7, <1>8, <1>9 DEF LinkNext, App

\* The reserve is enough for every queue, every reserve and every number of
\* frames under way that it covers: no byte of the core is lost while the
\* printer works ("the reserve absorbs SPI traffic already in transit").
THEOREM ReserveEnough == LinkSpec => []ReserveHolds
<1> DEFINE Inv == LinkInv /\ (Depth <= Reserve + 1 => Room)
<1>1. LinkInit => Inv
  <2> SUFFICES ASSUME LinkInit, Depth <= Reserve + 1 PROVE LinkInv /\ Room
    BY InvInit
  <2>1. LinkInv
    BY InvInit
  <2>2. rx = <<>> /\ pending = <<>> /\ queue = <<>> /\ app.pc = "loop" /\ core.busy = TRUE
    BY DEF LinkInit, Init, Idle, NewCore
  <2>3. Len(<<>>) = 0 /\ 1 .. 0 = {}
    OBVIOUS
  <2>4. used = 0 /\ Len(pending) = 0 /\ held = 0 /\ granted = 0 /\ DataIds(rx) = {}
    BY <2>2, <2>3 DEF used, held, Receiving, granted, DataIds
  <2>5. wire = 0
    BY <2>4, FS_EmptySet DEF wire
  <2>6. Places <= QueueSize + 1
    BY <2>1, <2>4, <2>5, PlacesParts DEF PlacesRange
  <2> QED
    BY <2>1, <2>2, <2>6 DEF Room
<1>2. Inv /\ [LinkNext]_all_vars => Inv'
  BY InvStep, RoomStep
<1>3. Inv => ReserveHolds
  BY DEF Room, ReserveHolds, writable
<1> HIDE DEF Inv
<1> QED
  BY <1>1, <1>2, <1>3, PTL DEF LinkSpec

-----------------------------------------------------------------------------
(* The change of a core, without a backup RAM file being open.  (With one,   *)
(* bk_flush() goes on dispatching frames of the old core, and the property   *)
(* fails.)                                                                  *)

NoSaves == \A kind \in Cores : ~kind.backup

Cored ==
  /\ \A x \in NewIds : x >= core.first
  /\ resetting \/ Over(queue, core.first)
  /\ app.pc \in {"service_reset", "flush_save"} => pending = <<>> /\ ~active
  /\ app.pc = "flush_save" => resetting \/ queue = <<>>
  /\ (\/ rx # <<>> \/ active \/ Receiving
      \/ app.pc \in {"tick", "tick_write", "send"})
       => core.asked
  /\ Receiving => app.back = "loop"

\* What stays when nothing new appears and the core is the same.
LEMMA CoredSame ==
  ASSUME Cored, NewIds' \subseteq NewIds, core'.first = core.first,
         resetting' \/ Over(queue', core.first)
  PROVE  /\ \A x \in NewIds' : x >= core'.first
         /\ resetting' \/ Over(queue', core'.first)
  BY DEF Cored

\* The service moves on by itself.
LEMMA CoredByUsb ==
  ASSUME LinkInv, Cored, [Reset \/ Usb]_vars, UNCHANGED link_vars
  PROVE  Cored'
<1>1. UNCHANGED <<active, pending, app, rx, core, sent>> /\ Service
  BY DEF link_vars, adapter, LinkInv
<1>2. /\ \A x : Over(queue, x) => Over(queue', x)
      /\ resetting => resetting' \/ queue' = <<>>
  BY <1>1, RestFacts
<1>3. Len(<<>>) = 0 /\ 1 .. 0 = {}
  OBVIOUS
<1>4. resetting' \/ Over(queue', core.first)
  BY <1>2, <1>3 DEF Cored, Over
<1>5. NewIds' \subseteq NewIds /\ Receiving' = Receiving
  BY <1>1 DEF NewIds, DataIds, Receiving
<1>6. /\ \A x \in NewIds' : x >= core'.first
      /\ resetting' \/ Over(queue', core'.first)
  BY <1>1, <1>4, <1>5, CoredSame
<1>7. app.pc = "flush_save" => resetting' \/ queue' = <<>>
  <2>1. queue = <<>> => queue' = <<>>
    <3>1. used' <= used /\ used' \in Nat /\ queue' \in Seq(Byte)
      <4>1. Service'
        BY <1>1, RestFacts
      <4> QED
        BY <1>1, <4>1, RestFacts, LenProperties DEF Service, TypeOK, Streams, used
    <3>2. queue = <<>> => Len(queue') = 0
      BY <1>3, <3>1 DEF used
    <3> QED
      BY <3>1, <3>2, EmptySeq
  <2> QED
    BY <1>2, <2>1 DEF Cored
<1> QED
  BY <1>1, <1>5, <1>6, <1>7 DEF Cored

\* The core speaks: with that it has asked.
LEMMA CoredByCore ==
  ASSUME LinkInv, Cored, CoreData \/ CoreAsk
  PROVE  Cored'
<1>1. UNCHANGED <<vars, active, pending, app>> /\ core'.asked /\ core'.first = core.first
  BY DEF CoreData, CoreAsk, adapter, LinkInv, LinkTypeOK
<1>2. UNCHANGED <<resetting, queue>>
  BY <1>1, QuietFacts DEF LinkInv
<1>3. rx \in Seq(Nat) /\ InLine(rx) /\ sent \in Nat /\ core.first \in Nat
  BY DEF LinkInv, LinkTypeOK, Line
<1>4. /\ sent' >= sent /\ sent' \in Nat
      /\ DataIds(rx') \subseteq DataIds(rx) \cup {sent + 1}
  <2>1. CASE CoreData
    <3>1. sent' = sent + 1 /\ sent' \in Nat /\ (rx' = rx \/ rx' = Append(rx, sent'))
      BY <1>3, <2>1 DEF CoreData
    <3>2. \A x \in DataIds(rx) : x < sent'
      <4>1. \A x \in DataIds(rx) : x <= sent /\ x \in Nat
        BY <1>3, ElementOfSeq DEF LinkInv, Line, DataIds
      <4> QED
        BY <1>3, <3>1, <4>1
    <3>3. DataIds(Append(rx, sent')) = DataIds(rx) \cup ({sent'} \ {Ask})
      BY <1>3, <3>1, <3>2, AppendFrames
    <3>4. DataIds(rx') \subseteq DataIds(rx) \cup {sent + 1}
      BY <3>1, <3>3
    <3> QED
      BY <1>3, <3>1, <3>4
  <2>2. CASE CoreAsk
    <3>1. sent' = sent /\ (rx' = rx \/ rx' = Append(rx, Ask))
      BY <2>2 DEF CoreAsk
    <3>2. DataIds(Append(rx, Ask)) = DataIds(rx) \cup ({Ask} \ {Ask})
      <4>1. Ask \in Nat
        BY DEF Ask
      <4> QED
        BY <1>3, <4>1, AppendFrames
    <3>3. DataIds(rx') \subseteq DataIds(rx) \cup {sent + 1}
      BY <3>1, <3>2
    <3> QED
      BY <1>3, <3>1, <3>3
  <2> QED
    BY <2>1, <2>2
<1>5. \A x \in NewIds' : x >= core.first
  <2>1. NewIds' \subseteq NewIds \cup {sent' + 1}
    BY <1>1, <1>4 DEF NewIds, Receiving
  <2>2. sent + 1 >= core.first
    BY DEF Cored, NewIds
  <2>3. sent' + 1 >= core.first
    BY <1>3, <1>4, <2>2
  <2> QED
    BY <2>1, <2>3 DEF Cored
<1> QED
  BY <1>1, <1>2, <1>5 DEF Cored, Receiving

\* APP takes a frame, in its loop only.
LEMMA CoredByDispatch ==
  ASSUME LinkInv, Cored, Dispatch("loop")
  PROVE  Cored'
<1>1. /\ UNCHANGED <<vars, pending, core, sent>> /\ rx # <<>> /\ rx' = Tail(rx)
      /\ app.pc = "loop" /\ active' = TRUE
  BY DEF Dispatch
<1>2. UNCHANGED <<resetting, queue>>
  BY <1>1, QuietFacts DEF LinkInv
<1>3. rx \in Seq(Nat) /\ InLine(rx) /\ ~Receiving
  BY <1>1 DEF LinkInv, LinkTypeOK, Line, Receiving
<1>4. /\ DataIds(rx') \subseteq DataIds(rx)
      /\ Head(rx) # Ask => Head(rx) \in DataIds(rx)
  BY <1>1, <1>3, TailFrames
<1>5. \/ app' = app /\ ~Receiving'
      \/ /\ app'.pc = "flush" /\ app'.frame = Head(rx) /\ app'.back = "loop"
         /\ Head(rx) # Ask
  BY <1>3 DEF Dispatch, Receiving, LinkInv, LinkTypeOK
<1>6. NewIds' \subseteq NewIds
  BY <1>1, <1>4, <1>5 DEF NewIds, Receiving
<1>7. /\ \A x \in NewIds' : x >= core'.first
      /\ resetting' \/ Over(queue', core'.first)
  BY <1>1, <1>2, <1>6, CoredSame DEF Cored
<1> QED
  BY <1>1, <1>5, <1>7 DEF Cored, Receiving

\* flush_pending() looks at the session.
LEMMA CoredBySnapshot ==
  ASSUME LinkInv, Cored, ReceiveFlush \/ TickStart
  PROVE  Cored'
<1>1. /\ UNCHANGED <<vars, active, rx, core, sent>> /\ (pending' = pending \/ pending' = <<>>)
      /\ \/ app.pc = "flush" /\ app'.pc \in {"receive", "receive_write"}
         \/ app.pc = "loop" /\ app'.pc \in {"tick", "tick_write"} /\ active
      /\ app'.frame = app.frame /\ app'.back = app.back
  BY DEF ReceiveFlush, TickStart, FlushSnapshot, Goto, LinkInv, LinkTypeOK
<1>2. UNCHANGED <<resetting, queue>>
  BY <1>1, QuietFacts DEF LinkInv
<1>3. Receiving' = Receiving
  BY <1>1 DEF Receiving
<1>4. NewIds' \subseteq NewIds
  BY <1>1, <1>3 DEF NewIds
<1>5. /\ \A x \in NewIds' : x >= core'.first
      /\ resetting' \/ Over(queue', core'.first)
  BY <1>1, <1>2, <1>4, CoredSame DEF Cored
<1> QED
  BY <1>1, <1>3, <1>5 DEF Cored

\* flush_pending() offers the byte: one of the core that runs.
LEMMA CoredByFlush ==
  ASSUME LinkInv, Cored, ReceiveFlushWrite \/ TickFlushWrite
  PROVE  Cored'
<1> DEFINE b == pending[1]
<1>1. /\ Write(<<b>>, b.job) /\ pending # <<>> /\ b \in Byte
      /\ Under(printed, b.id) /\ Under(queue, b.id)
      /\ UNCHANGED <<active, rx, core, sent>>
      /\ pending' = IF accepted' = accepted THEN pending ELSE <<>>
      /\ \/ app.pc = "receive_write" /\ app'.pc = "receive"
         \/ app.pc = "tick_write" /\ app'.pc = "tick"
      /\ app'.frame = app.frame /\ app'.back = app.back
  BY FlushFacts
<1>2. b.id >= core.first
  BY <1>1 DEF Cored, NewIds
<1>3. /\ UNCHANGED resetting
      /\ \/ \A x : Over(queue, x) /\ b.id >= x => Over(queue', x)
         \/ queue' = queue
  BY <1>1, WriteFacts DEF LinkInv
<1>4. resetting' \/ Over(queue', core.first)
  BY <1>2, <1>3 DEF Cored
<1>5. Receiving' = Receiving
  BY <1>1 DEF Receiving
<1>6. NewIds' \subseteq NewIds
  BY <1>1, <1>5 DEF NewIds
<1>7. /\ \A x \in NewIds' : x >= core'.first
      /\ resetting' \/ Over(queue', core'.first)
  BY <1>1, <1>4, <1>6, CoredSame
<1> QED
  BY <1>1, <1>5, <1>7 DEF Cored

\* receive() ends, with or without a write.
LEMMA CoredByReceive ==
  ASSUME LinkInv, Cored, ReceiveSnapshot \/ ReceiveWrite
  PROVE  Cored'
<1>1. Receiving /\ app.back = "loop" /\ core.asked
  BY DEF ReceiveSnapshot, ReceiveWrite, Receiving, Cored
<1>2. CASE ReceiveSnapshot
  <2>1. UNCHANGED <<vars, active, pending, rx, core, sent>>
    BY <1>2 DEF ReceiveSnapshot, adapter
  <2>2. UNCHANGED <<resetting, queue>>
    BY <2>1, QuietFacts DEF LinkInv
  <2>3. \/ app'.pc = "loop"
        \/ app'.pc = "offer" /\ app'.back = "loop" /\ app'.frame = app.frame
    BY <1>1, <1>2 DEF ReceiveSnapshot, Idle, LinkInv, LinkTypeOK
  <2>4. NewIds' \subseteq NewIds
    BY <1>1, <2>1, <2>3 DEF NewIds, Receiving
  <2>5. /\ \A x \in NewIds' : x >= core'.first
        /\ resetting' \/ Over(queue', core'.first)
    BY <2>1, <2>2, <2>4, CoredSame DEF Cored
  <2> QED
    BY <1>1, <2>1, <2>3, <2>5 DEF Cored, Receiving
<1>3. CASE ReceiveWrite
  <2> DEFINE b == [id |-> app.frame, job |-> app.snap.session]
  <2>1. /\ Write(<<b>>, b.job) /\ b \in Byte /\ pending = <<>>
        /\ Under(printed, b.id) /\ Under(queue, b.id)
        /\ pending' = IF accepted' = accepted /\ app.snap.up THEN <<b>> ELSE pending
        /\ UNCHANGED <<active, rx, core, sent>>
        /\ app'.pc = app.back /\ ~Receiving'
    BY <1>3, OfferFacts
  <2>2. b.id = app.frame /\ b.id >= core.first
    BY <1>1 DEF Cored, NewIds
  <2> HIDE DEF b
  <2>3. /\ UNCHANGED resetting
        /\ \/ \A x : Over(queue, x) /\ b.id >= x => Over(queue', x)
           \/ queue' = queue
    BY <2>1, WriteFacts DEF LinkInv
  <2>4. resetting' \/ Over(queue', core.first)
    BY <2>2, <2>3 DEF Cored
  <2>5. pending' = <<>> \/ (pending' = <<b>> /\ pending'[1] = b)
    BY <2>1, DeferType
  <2>6. NewIds' \subseteq NewIds
    BY <1>1, <2>1, <2>2, <2>5 DEF NewIds
  <2>7. /\ \A x \in NewIds' : x >= core'.first
        /\ resetting' \/ Over(queue', core'.first)
    BY <2>1, <2>4, <2>6, CoredSame
  <2> QED
    BY <1>1, <2>1, <2>7 DEF Cored
<1> QED
  BY <1>2, <1>3

\* The status frame goes to the core that asked.
LEMMA CoredByStatus ==
  ASSUME LinkInv, Cored, \/ \E due \in BOOLEAN : TickStatus(due)
                         \/ \E lost \in BOOLEAN : TickSend(lost)
  PROVE  Cored'
<1>1. UNCHANGED <<vars, active, pending, rx, sent>>
  BY DEF TickStatus, TickSend, adapter
<1>2. UNCHANGED <<resetting, queue>>
  BY <1>1, QuietFacts DEF LinkInv
<1>3. app.pc \in {"tick", "send"} /\ app'.pc \in {"loop", "send"}
  <2>1. CASE \E due \in BOOLEAN : TickStatus(due)
    BY <2>1 DEF TickStatus, Goto, LinkInv, LinkTypeOK
  <2>2. CASE \E lost \in BOOLEAN : TickSend(lost)
    BY <2>2 DEF TickSend, Idle
  <2> QED
    BY <2>1, <2>2
<1>4. core'.first = core.first /\ core'.asked = core.asked
  BY DEF TickStatus, TickSend, LinkInv, LinkTypeOK
<1>5. ~Receiving /\ ~Receiving'
  BY <1>3 DEF Receiving
<1>6. NewIds' \subseteq NewIds
  BY <1>1, <1>5 DEF NewIds
<1>7. /\ \A x \in NewIds' : x >= core'.first
      /\ resetting' \/ Over(queue', core'.first)
  BY <1>2, <1>4, <1>6, CoredSame DEF Cored
<1> QED
  BY <1>1, <1>3, <1>4, <1>5, <1>7 DEF Cored

\* configure() leaves nothing of the old core behind.
LEMMA CoredBySwitch ==
  ASSUME LinkInv, Cored, SwitchReset \/ SwitchServiceReset \/ SwitchCore
  PROVE  Cored'
<1>0. Len(<<>>) = 0 /\ 1 .. 0 = {}
  OBVIOUS
<1>1. CASE SwitchReset
  <2>1. /\ UNCHANGED <<vars, rx, core, sent>> /\ active' = FALSE /\ pending' = <<>>
        /\ app.pc = "loop"
    BY <1>1 DEF SwitchReset, clear_link
  <2>2. UNCHANGED <<resetting, queue>>
    BY <2>1, QuietFacts DEF LinkInv
  <2>3. /\ app'.pc \in {"service_reset", "flush_save"}
        /\ app'.pc = "flush_save" => ~(used > 0)
    BY <1>1 DEF SwitchReset, Goto, LinkInv, LinkTypeOK
  <2>4. ~Receiving /\ ~Receiving'
    BY <2>1, <2>3 DEF Receiving
  <2>5. NewIds' \subseteq NewIds
    BY <2>1, <2>4 DEF NewIds
  <2>6. /\ \A x \in NewIds' : x >= core'.first
        /\ resetting' \/ Over(queue', core'.first)
    BY <2>1, <2>2, <2>5, CoredSame DEF Cored
  <2>7. app'.pc = "flush_save" => queue = <<>>
    <3>1. used \in Nat /\ queue \in Seq(Byte)
      BY UsedType DEF LinkInv, Service, TypeOK, Streams
    <3> QED
      BY <2>3, <3>1, EmptySeq DEF used
  <2> QED
    BY <2>1, <2>2, <2>3, <2>4, <2>6, <2>7 DEF Cored
<1>2. CASE SwitchServiceReset
  <2>1. /\ UNCHANGED <<active, pending, rx, core, sent>> /\ app.pc = "service_reset"
        /\ UNCHANGED queue /\ resetting'
    BY <1>2 DEF SwitchServiceReset, Reset, adapter, vars, flags
  <2>2. app'.pc = "flush_save"
    BY <1>2 DEF SwitchServiceReset, Goto, LinkInv, LinkTypeOK
  <2>3. ~Receiving /\ ~Receiving'
    BY <2>1, <2>2 DEF Receiving
  <2>4. NewIds' \subseteq NewIds
    BY <2>1, <2>3 DEF NewIds
  <2>5. /\ \A x \in NewIds' : x >= core'.first
        /\ resetting' \/ Over(queue', core'.first)
    BY <2>1, <2>4, CoredSame
  <2> QED
    BY <2>1, <2>2, <2>3, <2>5 DEF Cored
<1>3. CASE SwitchCore
  <2>1. /\ UNCHANGED <<vars, active, pending, sent>> /\ rx' = <<>>
        /\ app.pc = "flush_save" /\ core'.first = sent + 1
    BY <1>3 DEF SwitchCore, adapter, NewCore
  <2>2. UNCHANGED <<resetting, queue>> /\ pending = <<>> /\ ~active
        /\ (resetting \/ queue = <<>>)
    BY <2>1, QuietFacts DEF LinkInv, Cored
  <2>3. app'.pc = "loop"
    BY <1>3 DEF SwitchCore, Goto, LinkInv, LinkTypeOK
  <2>4. ~Receiving'
    BY <2>3 DEF Receiving
  <2>5. NewIds' = {sent + 1} /\ sent \in Nat
    BY <1>0, <2>1, <2>2, <2>4 DEF NewIds, DataIds, LinkInv, LinkTypeOK
  <2>6. \A x \in NewIds' : x >= core'.first
    BY <2>1, <2>5
  <2>7. resetting' \/ Over(queue', core'.first)
    BY <1>0, <2>2 DEF Over
  <2> QED
    BY <2>1, <2>2, <2>3, <2>4, <2>6, <2>7 DEF Cored
<1> QED
  BY <1>1, <1>2, <1>3

\* Without backup RAM files, a core starts with a clean printer: nothing its
\* predecessor sent can still enter or stay in the queue, unless a reset is
\* about to discard it; and a core that sent no printer frame gets none.
THEOREM CoresClean ==
  ASSUME NoSaves
  PROVE  LinkSpec => []CoreChanges
<1> DEFINE Inv == LinkInv /\ Cored
<1>1. LinkInit => Inv
  <2> SUFFICES ASSUME LinkInit PROVE LinkInv /\ Cored
    OBVIOUS
  <2>1. LinkInv
    BY InvInit
  <2>2. /\ rx = <<>> /\ pending = <<>> /\ queue = <<>> /\ app.pc = "loop" /\ active = FALSE
        /\ sent = 0 /\ core.first = sent + 1
    BY DEF LinkInit, Init, Idle, NewCore
  <2>3. Len(<<>>) = 0 /\ 1 .. 0 = {}
    OBVIOUS
  <2>4. ~Receiving /\ NewIds = {sent + 1}
    BY <2>2, <2>3 DEF Receiving, NewIds, DataIds
  <2>5. Over(queue, core.first) /\ \A x \in NewIds : x >= core.first
    BY <2>2, <2>3, <2>4 DEF Over
  <2> QED
    BY <2>1, <2>2, <2>4, <2>5 DEF Cored
<1>2. Inv /\ [LinkNext]_all_vars => Inv'
  <2> SUFFICES ASSUME LinkInv, Cored, [LinkNext]_all_vars PROVE Cored'
    BY InvStep
  <2>1. CASE Usb /\ UNCHANGED link_vars
    BY <2>1, CoredByUsb
  <2>2. CASE CoreData \/ CoreAsk
    BY <2>2, CoredByCore
  <2>3. CASE Dispatch("loop")
    BY <2>3, CoredByDispatch
  <2>4. CASE ReceiveFlush \/ TickStart
    BY <2>4, CoredBySnapshot
  <2>5. CASE ReceiveFlushWrite \/ TickFlushWrite
    BY <2>5, CoredByFlush
  <2>6. CASE ReceiveSnapshot \/ ReceiveWrite
    BY <2>6, CoredByReceive
  <2>7. CASE \/ \E due \in BOOLEAN : TickStatus(due)
             \/ \E lost \in BOOLEAN : TickSend(lost)
    BY <2>7, CoredByStatus
  <2>8. CASE SwitchReset \/ SwitchServiceReset \/ SwitchCore
    BY <2>8, CoredBySwitch
  <2>9. CASE UNCHANGED all_vars
    BY <2>9, CoredByUsb DEF all_vars
  <2>10. ~core.kind.backup
    BY DEF NoSaves, LinkInv, LinkTypeOK
  <2> QED
    BY <2>1, <2>2, <2>3, <2>4, <2>5, <2>6, <2>7, <2>8, <2>9, <2>10 DEF LinkNext, App
<1>3. Inv => CoreChanges
  <2> SUFFICES ASSUME LinkInv, Cored PROVE CoreChanges
    OBVIOUS
  <2>1. \A i \in 1 .. Len(pending) : pending[i].id >= core.first
    <3>1. pending # <<>> => pending[1].id >= core.first /\ Len(pending) = 1
      BY Deferred DEF Cored, NewIds, LinkInv
    <3>2. Len(<<>>) = 0 /\ 1 .. 0 = {} /\ \A i \in 1 .. 1 : i = 1
      OBVIOUS
    <3> QED
      BY <3>1, <3>2
  <2>2. CoreStartsClean
    BY <2>1 DEF CoreStartsClean, Cored, Over, used
  <2>3. OldCoreSilent
    BY DEF OldCoreSilent, Cored
  <2> QED
    BY <2>2, <2>3 DEF CoreChanges
<1> HIDE DEF Inv
<1> QED
  BY <1>1, <1>2, <1>3, PTL DEF LinkSpec
=============================================================================
