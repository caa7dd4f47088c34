----------------------------- MODULE PrintStream -----------------------------
(***************************************************************************)
(* What the printing service promises its producer, whatever the printer   *)
(* and the USB stack do: bytes are printed in the order they were accepted, *)
(* at most once.  An interrupted block stops the stream, since nobody knows *)
(* how much of it was printed; the stream goes on only after what is left   *)
(* of it was thrown away.                                                   *)
(***************************************************************************)
EXTENDS Naturals, Sequences

CONSTANT Byte

VARIABLES
  queue,    \* accepted, neither confirmed nor thrown away
  printed,  \* what reached a printer, in order
  stopped   \* an interrupted block or a lost printer: nothing moves

vars == <<queue, printed, stopped>>

Prefix(n) == SubSeq(queue, 1, n)

Init == queue = <<>> /\ printed = <<>> /\ stopped = FALSE

Accept ==
  /\ ~stopped
  /\ queue' \in Seq(Byte)
  /\ Len(queue') >= Len(queue)
  /\ SubSeq(queue', 1, Len(queue)) = queue
  /\ UNCHANGED <<printed, stopped>>

\* A block is confirmed: all of it was printed, and it leaves the queue.
Confirm ==
  /\ ~stopped
  /\ \E n \in 1 .. Len(queue) :
       /\ printed' = printed \o Prefix(n)
       /\ queue' = SubSeq(queue, n + 1, Len(queue))
  /\ UNCHANGED stopped

\* A block fails: some of it was printed, none of it may be sent again.
Interrupt ==
  /\ ~stopped /\ stopped' = TRUE
  /\ \E n \in 0 .. Len(queue) : printed' = printed \o Prefix(n)
  /\ UNCHANGED queue

\* The printer goes away in the middle of a block.
Abort ==
  /\ \E n \in 0 .. (IF stopped THEN 0 ELSE Len(queue)) :
       printed' = printed \o Prefix(n)
  /\ queue' = <<>>
  /\ stopped' \in BOOLEAN

\* A reset or a new printer: the rest of the stream is thrown away first.
Clear ==
  /\ queue' = <<>>
  /\ stopped' \in BOOLEAN
  /\ UNCHANGED printed

Next == Accept \/ Confirm \/ Interrupt \/ Abort \/ Clear

Spec == Init /\ [][Next]_vars
=============================================================================
