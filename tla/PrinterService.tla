--------------------------- MODULE PrinterService ---------------------------
(***************************************************************************)
(* The printing service (src/periph/printer.c) over the USB printer class  *)
(* driver (src/usb/printer_host.c).                                        *)
(*                                                                         *)
(* APP (core 0) offers bytes and asks for resets; USB (core 1) owns the    *)
(* driver and moves the queue to the device.  The two share the state      *)
(* below only under usb_host_lock(), so one step here is one locked        *)
(* section.  printer_usb_tick() takes the lock up to three times: usb_pc   *)
(* says between which of them the USB task is.  Every USB callback runs    *)
(* inside tuh_task(), that is, only while usb_pc = "loop".                 *)
(*                                                                         *)
(* A byte is [id, job]: its place in the stream its producer offers and    *)
(* the session the producer had read when it offered it.  port_status is   *)
(* reduced to `ready': (port_status & 0x38) = 0x18.  The two block buffers  *)
(* are emptied when their contents are dead.                               *)
(***************************************************************************)
EXTENDS Integers, Sequences

CONSTANTS
  QueueSize,     \* PRINTER_QUEUE_SIZE
  TransferSize,  \* PRINTER_TRANSFER_SIZE, the largest block of one transfer
  WriteMax,      \* bound: the longest write a producer offers
  MaxBytes,      \* bound: bytes accepted in all
  MaxMounts,     \* bound: printers plugged in
  MaxResets      \* bound: sessions a reset may open

ASSUME PrinterAssumption ==
  /\ TransferSize \in Nat \ {0}
  /\ QueueSize \in Nat /\ QueueSize >= TransferSize
  /\ WriteMax \in Nat \ {0}
  /\ MaxBytes \in Nat /\ MaxMounts \in Nat /\ MaxResets \in Nat

VARIABLES
  queue,            \* the bytes from head on, in order (used = Len(queue))
  in_flight,        \* bytes at the head of the queue handed to USB
  connected, fault, resetting, reset_submitted,
  status_valid, ready,
  session,
  accepted, completed, discarded, uncertain,
  info,             \* the driver: its printer_info_t
  control,          \* the driver: the request its control pipe carries
  id_pending,       \* the driver: the device id was not asked for yet
  staging,          \* the block printer_usb_tick() copied out of the queue
  tx_buf,           \* the block the driver submitted
  usb_pc,           \* where printer_usb_tick() stands
  printed,          \* what the devices took, in order
  mounts, resets    \* how many there were (bounds only)

counters == <<accepted, completed, discarded, uncertain>>
flags    == <<connected, fault, resetting, reset_submitted>>
status   == <<status_valid, ready>>
host     == <<info, control, id_pending, tx_buf>>
bounds   == <<mounts, resets>>
vars     == <<queue, in_flight, flags, status, session, counters, host,
              staging, usb_pc, printed, bounds>>

Byte == [id : Nat, job : Nat]

NoPrinter == [address |-> FALSE, mounted |-> FALSE, fault |-> FALSE,
              tx_busy |-> FALSE, status_valid |-> FALSE, ready |-> FALSE]

used == Len(queue)

\* Mutant: a fault does not stop the producer.
writable_faulted == connected /\ ~resetting
writable == connected /\ ~fault /\ ~resetting

paused == status_valid /\ ~ready

\* Mutant: one byte too many.
room_past == QueueSize - used + 1
room == QueueSize - used

\* May a write that was meant for session `expected' enter the queue?
\* Mutant: the session is not compared.
meant_any(expected) == writable
meant(expected) == writable /\ expected = session

Init ==
  /\ queue = <<>> /\ in_flight = 0
  /\ connected = FALSE /\ fault = FALSE
  /\ resetting = FALSE /\ reset_submitted = FALSE
  /\ status_valid = FALSE /\ ready = FALSE
  /\ session = 0
  /\ accepted = 0 /\ completed = 0 /\ discarded = 0 /\ uncertain = 0
  /\ info = NoPrinter /\ control = "IDLE" /\ id_pending = FALSE
  /\ staging = <<>> /\ tx_buf = <<>> /\ usb_pc = "loop"
  /\ printed = <<>>
  /\ mounts = 0 /\ resets = 0

\* Mutants: the block in flight is not counted; the data stays.
discard_unsent == discarded' = discarded + used - in_flight /\ queue' = <<>>
discard_nothing == UNCHANGED <<discarded, queue>>
discard == discarded' = discarded + used /\ queue' = <<>>

\* The block in flight may have been printed, all of it, some or nothing.
\* Mutant: not counted.
doubt_none == UNCHANGED uncertain
doubt == uncertain' = uncertain + in_flight

-----------------------------------------------------------------------------
(* APP: printer_write_if_session() and printer_reset().                     *)

\* The prefix of data that fits is taken, if the service takes data at all
\* and the producer still means this session.
Write(data, expected) ==
  /\ IF meant(expected)
     THEN LET n == IF Len(data) < room THEN Len(data) ELSE room
          IN  /\ queue' = queue \o SubSeq(data, 1, n)
              /\ accepted' = accepted + n
     ELSE UNCHANGED <<queue, accepted>>
  /\ UNCHANGED <<in_flight, flags, status, session, completed, discarded,
                 uncertain, host, staging, usb_pc, printed, bounds>>

Reset ==
  /\ resets < MaxResets
  /\ ~resetting
  /\ resetting' = TRUE
  /\ session' = session + 1
  /\ resets' = resets + 1
  /\ UNCHANGED <<queue, in_flight, connected, fault, reset_submitted, status,
                 counters, host, staging, usb_pc, printed, mounts>>

-----------------------------------------------------------------------------
(* USB: the callbacks of the class driver and the service events they       *)
(* raise.                                                                   *)

\* open(): one printer at a time.
Open ==
  /\ usb_pc = "loop"
  /\ mounts < MaxMounts /\ mounts' = mounts + 1
  /\ ~info.address
  /\ info' = [NoPrinter EXCEPT !.address = TRUE]
  /\ UNCHANGED <<queue, in_flight, flags, status, session, counters, control,
                 id_pending, staging, tx_buf, usb_pc, printed, resets>>

\* set_config(), with PRINTER_EV_MOUNTED.
SetConfig ==
  /\ usb_pc = "loop"
  /\ info.address /\ ~info.mounted
  /\ info' = [info EXCEPT !.mounted = TRUE]
  /\ id_pending' = TRUE
  /\ discard
  /\ in_flight' = 0
  /\ connected' = TRUE /\ fault' = info.fault
  /\ resetting' = FALSE /\ reset_submitted' = FALSE
  /\ status_valid' = FALSE /\ ready' = FALSE
  /\ session' = session + 1
  /\ UNCHANGED <<accepted, completed, uncertain, control, staging, tx_buf,
                 usb_pc, printed, bounds>>

\* close(), with PRINTER_EV_UNMOUNTED.  Of the block on the wire the device
\* may have taken any prefix.
Close ==
  /\ usb_pc = "loop"
  /\ info.address
  /\ \E taken \in 0 .. (IF info.tx_busy THEN Len(tx_buf) ELSE 0) :
       printed' = printed \o SubSeq(tx_buf, 1, taken)
  /\ info' = NoPrinter /\ control' = "IDLE" /\ id_pending' = FALSE
  /\ fault' = (fault \/ queue # <<>>)
  /\ doubt
  /\ discard
  /\ in_flight' = 0
  /\ connected' = FALSE /\ resetting' = FALSE /\ reset_submitted' = FALSE
  /\ status_valid' = FALSE /\ ready' = FALSE
  /\ session' = session + 1
  /\ tx_buf' = <<>>
  /\ UNCHANGED <<accepted, completed, staging, usb_pc, bounds>>

\* transfer_done() for Bulk OUT, with PRINTER_EV_WRITE.  Anything but full
\* success (STALL, an error, a short transfer, a lost ACK) is `failed', and
\* the device may have taken any prefix of the block.
TransferDone(success) ==
  /\ usb_pc = "loop"
  /\ info.tx_busy
  /\ info' = [info EXCEPT !.tx_busy = FALSE, !.fault = @ \/ ~success]
  /\ \E taken \in (IF success THEN {Len(tx_buf)} ELSE 0 .. Len(tx_buf)) :
       printed' = printed \o SubSeq(tx_buf, 1, taken)
  /\ IF in_flight > 0
     THEN /\ IF success
             THEN /\ queue' = SubSeq(queue, in_flight + 1, used)
                  /\ completed' = completed + in_flight
                  /\ UNCHANGED uncertain
             ELSE /\ doubt
                  /\ UNCHANGED <<queue, completed>>
          /\ in_flight' = 0
     ELSE UNCHANGED <<queue, completed, uncertain, in_flight>>
  /\ fault' = (fault \/ (in_flight > 0 /\ ~success)
                     \/ (info'.fault /\ connected))
  /\ status_valid' = info.status_valid /\ ready' = info.ready
  /\ tx_buf' = <<>>
  /\ UNCHANGED <<connected, resetting, reset_submitted, session, accepted,
                 discarded, control, id_pending, staging, usb_pc, bounds>>

\* control_done() for GET_DEVICE_ID and GET_PORT_STATUS.
QueryDone(valid, port) ==
  /\ usb_pc = "loop"
  /\ control \in {"ID", "STATUS"}
  /\ control' = "IDLE"
  /\ info' = CASE control = "ID" -> info
               [] control = "STATUS" /\ ~valid ->
                    [info EXCEPT !.status_valid = FALSE]
               [] control = "STATUS" /\ valid ->
                    [info EXCEPT !.status_valid = TRUE, !.ready = port]
  /\ status_valid' = info'.status_valid /\ ready' = info'.ready
  /\ fault' = (fault \/ (info.fault /\ connected))
  /\ UNCHANGED <<queue, in_flight, connected, resetting, reset_submitted,
                 session, counters, id_pending, tx_buf, staging, usb_pc,
                 printed, bounds>>

\* control_done() for SOFT_RESET, with PRINTER_EV_RESET; reopening the
\* endpoints may fail too, which is the same as a failed request.
ResetDone(success) ==
  /\ usb_pc = "loop"
  /\ control = "RESET"
  /\ control' = "IDLE"
  /\ info' = [info EXCEPT !.status_valid = FALSE, !.fault = ~success]
  /\ status_valid' = FALSE /\ ready' = info.ready
  /\ IF reset_submitted
     THEN /\ fault' = (~success \/ (info'.fault /\ connected))
          /\ resetting' = FALSE /\ reset_submitted' = FALSE
     ELSE /\ fault' = (fault \/ (info'.fault /\ connected))
          /\ UNCHANGED <<resetting, reset_submitted>>
  /\ UNCHANGED <<queue, in_flight, connected, session, counters, id_pending,
                 tx_buf, staging, usb_pc, printed, bounds>>

-----------------------------------------------------------------------------
(* USB: the two ticks of usb_host_loop().                                   *)

\* printer_host_tick(): the device id once, then the port status, at most
\* once a second.  A request TinyUSB refuses, because another class holds the
\* control pipe, changes nothing here.
HostTick ==
  /\ usb_pc = "loop"
  /\ info.mounted /\ control = "IDLE"
  /\ control' = IF id_pending THEN "ID" ELSE "STATUS"
  /\ id_pending' = FALSE
  /\ UNCHANGED <<queue, in_flight, flags, status, session, counters, info,
                 tx_buf, staging, usb_pc, printed, bounds>>

\* printer_usb_tick(), the first locked section, while a reset is wanted.
TickReset ==
  /\ usb_pc = "loop"
  /\ resetting /\ in_flight = 0 /\ ~reset_submitted
  /\ discard
  /\ IF connected
     THEN /\ reset_submitted' = TRUE /\ usb_pc' = "reset"
          /\ UNCHANGED <<fault, resetting>>
     ELSE /\ fault' = FALSE /\ resetting' = FALSE
          /\ UNCHANGED <<reset_submitted, usb_pc>>
  /\ UNCHANGED <<in_flight, connected, status, session, accepted, completed,
                 uncertain, host, staging, printed, bounds>>

\* printer_usb_tick(), the first locked section, with a block to send: it is
\* reserved before any reset APP asks for from here on.
TickReserve ==
  /\ usb_pc = "loop"
  /\ writable /\ ~paused /\ in_flight = 0 /\ queue # <<>>
  /\ LET length == IF used < TransferSize THEN used ELSE TransferSize
     IN  /\ in_flight' = length
         /\ staging' = SubSeq(queue, 1, length)
  /\ usb_pc' = "write"
  /\ UNCHANGED <<queue, flags, status, session, counters, host, printed,
                 bounds>>

\* printer_host_soft_reset(): refused while a bulk transfer or another control
\* request runs.  `pipe' says whether TinyUSB took the request.
SubmitReset(pipe) ==
  /\ usb_pc = "reset"
  /\ IF info.mounted /\ ~info.tx_busy /\ control = "IDLE" /\ pipe
     THEN control' = "RESET" /\ usb_pc' = "loop"
     ELSE usb_pc' = "undo_reset" /\ UNCHANGED control
  /\ UNCHANGED <<queue, in_flight, flags, status, session, counters, info,
                 id_pending, tx_buf, staging, printed, bounds>>

\* The second locked section: the control pipe was busy, try again later.
\* Mutant: the request still counts as submitted.
UndoReset_submitted ==
  /\ usb_pc = "undo_reset"
  /\ usb_pc' = "loop"
  /\ UNCHANGED <<queue, in_flight, flags, status, session, counters, host,
                 staging, printed, bounds>>
UndoReset ==
  /\ usb_pc = "undo_reset"
  /\ reset_submitted' = FALSE
  /\ usb_pc' = "loop"
  /\ UNCHANGED <<queue, in_flight, connected, fault, resetting, status,
                 session, counters, host, staging, printed, bounds>>

\* printer_host_write(): copies the block and submits it.
SubmitWrite(pipe) ==
  /\ usb_pc = "write"
  /\ IF info.mounted /\ ~info.fault /\ ~info.tx_busy /\ control # "RESET" /\ pipe
     THEN /\ tx_buf' = staging
          /\ info' = [info EXCEPT !.tx_busy = TRUE]
          /\ usb_pc' = "loop"
     ELSE usb_pc' = "undo_write" /\ UNCHANGED <<info, tx_buf>>
  /\ staging' = <<>>
  /\ UNCHANGED <<queue, in_flight, flags, status, session, counters, control,
                 id_pending, printed, bounds>>

\* The second locked section: nothing was submitted, the bytes stay queued.
\* Mutant: the block still counts as in flight.
UndoWrite_reserved ==
  /\ usb_pc = "undo_write"
  /\ usb_pc' = "loop"
  /\ UNCHANGED <<queue, in_flight, flags, status, session, counters, host,
                 staging, printed, bounds>>
UndoWrite ==
  /\ usb_pc = "undo_write"
  /\ in_flight' = 0
  /\ usb_pc' = "loop"
  /\ UNCHANGED <<queue, flags, status, session, counters, host, staging,
                 printed, bounds>>

-----------------------------------------------------------------------------
(* The specification: any producer, any device.                             *)

\* A producer offers the next bytes of its stream for a session it read at
\* some time in the past.
Producer ==
  \E n \in 1 .. WriteMax, expected \in 0 .. session :
    /\ accepted + n <= MaxBytes
    /\ Write([i \in 1 .. n |-> [id |-> accepted + i, job |-> expected]],
             expected)

Usb ==
  \/ Open \/ SetConfig \/ Close
  \/ \E success \in BOOLEAN : TransferDone(success) \/ ResetDone(success)
  \/ \E valid, port \in BOOLEAN : QueryDone(valid, port)
  \/ HostTick \/ TickReset \/ TickReserve
  \/ \E pipe \in BOOLEAN : SubmitReset(pipe) \/ SubmitWrite(pipe)
  \/ UndoReset \/ UndoWrite

Next == Producer \/ Reset \/ Usb

Spec == Init /\ [][Next]_vars

\* usb_host_loop() never stops, and a device answers what it was sent: tuh_task
\* runs between two ticks, so a callback that waits is not passed by for ever.
\* The status poll takes the control pipe once a second and another class now
\* and then, so a tick finds it free again and again.
Fairness ==
  /\ WF_vars(TickReserve) /\ WF_vars(TickReset)
  /\ WF_vars(UndoReset) /\ WF_vars(UndoWrite)
  /\ WF_vars(\E pipe \in BOOLEAN : SubmitReset(pipe) \/ SubmitWrite(pipe))
  /\ SF_vars(TickReset /\ control = "IDLE")
  /\ SF_vars(SubmitReset(TRUE) /\ control' = "RESET")
  /\ SF_vars(SubmitWrite(TRUE) /\ info'.tx_busy)
  /\ SF_vars(\E success \in BOOLEAN : TransferDone(success))
  /\ SF_vars(\E success \in BOOLEAN : ResetDone(success))
  /\ SF_vars(\E valid, port \in BOOLEAN : QueryDone(valid, port))

FairSpec == Spec /\ Fairness

-----------------------------------------------------------------------------
(* Correctness.                                                             *)

\* The types of the variables, in four parts; the queue never outgrows its
\* array.
Streams ==
  /\ queue \in Seq(Byte) /\ staging \in Seq(Byte) /\ tx_buf \in Seq(Byte)
  /\ printed \in Seq(Byte)
  /\ used <= QueueSize

Numbers ==
  /\ in_flight \in Nat /\ session \in Nat
  /\ accepted \in Nat /\ completed \in Nat
  /\ discarded \in Nat /\ uncertain \in Nat
  /\ mounts \in Nat /\ resets \in Nat

Flags ==
  /\ connected \in BOOLEAN /\ fault \in BOOLEAN
  /\ resetting \in BOOLEAN /\ reset_submitted \in BOOLEAN
  /\ status_valid \in BOOLEAN /\ ready \in BOOLEAN
  /\ id_pending \in BOOLEAN

Driver ==
  /\ info \in [address : BOOLEAN, mounted : BOOLEAN, fault : BOOLEAN,
               tx_busy : BOOLEAN, status_valid : BOOLEAN, ready : BOOLEAN]
  /\ control \in {"IDLE", "ID", "STATUS", "RESET"}
  /\ usb_pc \in {"loop", "reset", "undo_reset", "write", "undo_write"}

TypeOK == Streams /\ Numbers /\ Flags /\ Driver

\* Every accepted byte is confirmed, discarded or still in the queue, and the
\* block in flight is the head of the queue: the queue is emptied by plug
\* events, resets and completions that come in any order.
Conservation ==
  /\ accepted = completed + discarded + used
  /\ in_flight <= used
  /\ info.tx_busy => in_flight = Len(tx_buf)

\* The bytes of the queue were all offered for one session, the current one
\* unless a reset asked for since is about to discard them: data of a
\* disconnected or reset job never joins the next one.
QueueOneSession ==
  \A i \in 1 .. used :
    /\ queue[i].job <= session
    /\ queue[i].job = session \/ resetting
    /\ queue[i].job = queue[1].job

\* No byte reaches a printer twice or out of order, whatever transfers fail,
\* printers come and go and resets are asked for ("Never replay data").
PrintedOnce ==
  \A i, j \in 1 .. Len(printed) : i < j => printed[i].id < printed[j].id

\* The counters tell the truth about the printer: it took all confirmed bytes
\* and beyond them at most the uncertain ones.
DeliveryKnown ==
  completed <= Len(printed) /\ Len(printed) <= completed + uncertain

\* SOFT_RESET never runs beside a bulk transfer, and when it does run nothing
\* of the old job is left that could follow it.
ResetQuiesced ==
  control = "RESET" => /\ ~info.tx_busy /\ in_flight = 0
                       /\ queue = <<>> /\ resetting

\* The service is a PrintStream: at most once, in order, and after an
\* interrupted block nothing more until the rest was thrown away.
Stream == INSTANCE PrintStream WITH stopped <- fault
StreamSpec == Stream!Spec

\* A reset request ends: the block in flight is waited for, and the control
\* pipe being busy only delays it.
ResetEnds == resetting ~> ~resetting

\* Queued bytes leave the queue unless the printer stops it: paused, a fault,
\* or no further bytes moved because there is nothing to move.
Drains == (queue # <<>>) ~> (queue = <<>> \/ fault \/ paused)

\* What was begun ends: a reset that was asked for, and the draining of the queue.
Finishes == ResetEnds /\ Drains
=============================================================================
