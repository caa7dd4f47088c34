----------------------------- MODULE PrinterLink -----------------------------
(***************************************************************************)
(* A core printing through the FPGA link: src/periph/printer_link.c on the *)
(* APP task, between the core's SPI frames and the printing service.       *)
(*                                                                         *)
(* The adapter runs only on APP, but each of its calls into the service is *)
(* a locked section of its own, and the USB task runs between them: app.pc *)
(* says which call comes next, app.snap holds the snapshot taken last.     *)
(* Frames of the core wait in `rx' (the FIFO of the FPGA and link_rx_queue *)
(* in one: both keep the wire order); a frame either way may be lost.      *)
(***************************************************************************)
EXTENDS PrinterService

CONSTANTS
  Reserve,     \* BUSY_RESERVE
  Depth,       \* bound: frames of the core on their way to APP
  MaxSwitches, \* bound: core loads
  Cores        \* what a core may be: records [prints, backup]

ASSUME LinkAssumption ==
  /\ Reserve \in Nat /\ Reserve < QueueSize
  /\ Depth \in Nat \ {0} /\ MaxSwitches \in Nat
  /\ Cores # {} /\ Cores \subseteq [prints : BOOLEAN, backup : BOOLEAN]

VARIABLES
  active, reply,
  pending,      \* the deferred byte with its session: a sequence of length 0 or 1
  last_status,
  app,          \* APP inside the adapter: [pc, frame, snap, status, back]
  rx,           \* frames from the core: a status request or the id of a DATA byte
  core,         \* the FPGA side: [kind, first, asked, busy, waits]
  sent,         \* bytes all cores sent so far
  switches

adapter   == <<active, reply, pending, last_status>>
link_vars == <<adapter, app, rx, core, sent, switches>>
all_vars  == <<vars, link_vars>>

Ask == 0  \* CMD_PRINTER_STATUS of the core; bytes are numbered from 1

NewCore(kind) == [kind |-> kind, first |-> sent + 1, asked |-> FALSE,
                  busy |-> TRUE, waits |-> FALSE]

Idle == [pc |-> "loop", frame |-> Ask, snap |-> [session |-> 0, up |-> FALSE],
         status |-> "BUSY", back |-> "loop"]

LinkInit ==
  /\ Init
  /\ active = FALSE /\ reply = FALSE /\ pending = <<>> /\ last_status = "BUSY"
  /\ app = Idle
  /\ rx = <<>>
  /\ sent = 0 /\ switches = 0
  /\ core \in {NewCore(k) : k \in Cores}

Goto(pc) == app' = [app EXCEPT !.pc = pc]

-----------------------------------------------------------------------------
(* The core: what the HDL does, after docs/usb_printer.md.                  *)

\* A DATA frame, on a cached BUSY=0; the next byte waits for a status frame.
CoreData ==
  /\ core.kind.prints /\ ~core.busy /\ ~core.waits
  /\ sent < MaxBytes /\ Len(rx) < Depth
  /\ sent' = sent + 1
  /\ core' = [core EXCEPT !.asked = TRUE, !.waits = TRUE]
  /\ \E lost \in BOOLEAN : rx' = IF lost THEN rx ELSE Append(rx, sent')
  /\ UNCHANGED <<vars, adapter, app, switches>>

\* A status request, sent again while it is unanswered.
CoreAsk ==
  /\ core.kind.prints
  /\ core.busy \/ core.waits
  /\ Len(rx) < Depth
  /\ core' = [core EXCEPT !.asked = TRUE]
  /\ \E lost \in BOOLEAN : rx' = IF lost THEN rx ELSE Append(rx, Ask)
  /\ UNCHANGED <<vars, adapter, app, sent, switches>>

-----------------------------------------------------------------------------
(* flush_pending(): two calls into the service, the second at `write', then  *)
(* app.pc goes to `next'.                                                    *)

FlushSnapshot(write, next) ==
  /\ IF pending = <<>> \/ pending[1].job # session
     THEN Goto(next) /\ pending' = <<>>
     ELSE Goto(write) /\ UNCHANGED pending
  /\ UNCHANGED <<vars, active, reply, last_status, rx, core, sent, switches>>

\* Mutant: the byte stays deferred after it was taken.
FlushWrite_keeps(next) ==
  /\ Write(pending, pending[1].job)
  /\ Goto(next)
  /\ UNCHANGED <<adapter, rx, core, sent, switches>>
FlushWrite(next) ==
  /\ Write(pending, pending[1].job)
  /\ pending' = IF accepted' = accepted THEN pending ELSE <<>>
  /\ Goto(next)
  /\ UNCHANGED <<active, reply, last_status, rx, core, sent, switches>>

-----------------------------------------------------------------------------
(* APP: link_dispatch_pending() hands the oldest frame to request() or      *)
(* receive().                                                               *)

Dispatch(at) ==
  /\ app.pc = at /\ rx # <<>>
  /\ rx' = Tail(rx)
  /\ active' = TRUE
  /\ IF Head(rx) = Ask
     THEN reply' = TRUE /\ UNCHANGED app
     ELSE /\ app' = [app EXCEPT !.pc = "flush", !.frame = Head(rx), !.back = at]
          /\ UNCHANGED reply
  /\ UNCHANGED <<vars, pending, last_status, core, sent, switches>>

ReceiveFlush == app.pc = "flush" /\ FlushSnapshot("receive_write", "receive")

ReceiveFlushWrite == app.pc = "receive_write" /\ FlushWrite("receive")

\* The source went on in spite of BUSY while a byte is still deferred: it is
\* rejected.  Otherwise the snapshot whose session the byte is offered for.
ReceiveSnapshot ==
  /\ app.pc = "receive"
  /\ IF pending # <<>>
     THEN app' = [Idle EXCEPT !.pc = app.back]
     ELSE app' = [app EXCEPT !.pc = "offer", !.snap.session = session,
                             !.snap.up = writable]
  /\ UNCHANGED <<vars, adapter, rx, core, sent, switches>>

ReceiveWrite ==
  /\ app.pc = "offer"
  /\ LET byte == [id |-> app.frame, job |-> app.snap.session]
     IN  /\ Write(<<byte>>, app.snap.session)
         /\ pending' = IF accepted' = accepted /\ app.snap.up
                       THEN <<byte>> ELSE pending
  /\ app' = [Idle EXCEPT !.pc = app.back]
  /\ UNCHANGED <<active, reply, last_status, rx, core, sent, switches>>

-----------------------------------------------------------------------------
(* APP: printer_link_tick().                                                *)

TickStart == app.pc = "loop" /\ active /\ FlushSnapshot("tick_write", "tick")

TickFlushWrite == app.pc = "tick_write" /\ FlushWrite("tick")

\* Mutant: no reserve.
busy_full == pending # <<>> \/ ~writable \/ QueueSize = used
             \/ ~status_valid \/ ~ready
busy == pending # <<>> \/ ~writable \/ QueueSize - used <= Reserve
        \/ ~status_valid \/ ~ready

\* Mutant: a change is sent once, and nothing repeats or answers it.
must_send_once(level, due) == level # last_status
must_send(level, due) == reply \/ level # last_status \/ due

\* The status goes out when it was asked for, when it changed, and once in
\* 100 ms (`due') because a status frame may be lost.
TickStatus(due) ==
  /\ app.pc = "tick"
  /\ LET level == IF busy THEN "BUSY" ELSE "READY"
     IN  IF must_send(level, due)
         THEN /\ app' = [app EXCEPT !.pc = "send", !.status = level]
              /\ reply' = FALSE /\ last_status' = level
         ELSE Goto("loop") /\ UNCHANGED <<reply, last_status>>
  /\ UNCHANGED <<vars, active, pending, rx, core, sent, switches>>

\* spi_send(CMD_PRINTER_STATUS): the frame reaches the core or is lost.
TickSend(lost) ==
  /\ app.pc = "send"
  /\ core' = IF lost THEN core
             ELSE [core EXCEPT !.busy = (app.status = "BUSY"), !.waits = FALSE]
  /\ app' = Idle
  /\ UNCHANGED <<vars, adapter, rx, sent, switches>>

-----------------------------------------------------------------------------
(* APP: configure(), as far as the printer is concerned.                    *)

\* Mutants: the deferred byte stays; the link stays in use.
clear_link_byte == /\ active' = FALSE /\ reply' = FALSE
                   /\ last_status' = "BUSY" /\ UNCHANGED pending
clear_link_use  == /\ pending' = <<>> /\ last_status' = "BUSY"
                   /\ UNCHANGED <<active, reply>>
clear_link == /\ active' = FALSE /\ reply' = FALSE
              /\ last_status' = "BUSY" /\ pending' = <<>>

\* printer_link_reset() up to its snapshot.
SwitchReset ==
  /\ app.pc = "loop" /\ switches < MaxSwitches
  /\ clear_link
  /\ Goto(IF used > 0 \/ fault THEN "service_reset" ELSE "flush_save")
  /\ switches' = switches + 1
  /\ UNCHANGED <<vars, rx, core, sent>>

\* printer_reset(); nothing when a reset is on its way already.
SwitchServiceReset ==
  /\ app.pc = "service_reset"
  /\ \/ Reset
     \/ resetting /\ UNCHANGED vars
  /\ Goto("flush_save")
  /\ UNCHANGED <<adapter, rx, core, sent, switches>>

\* bk_flush(): with a backup RAM file open, the frames of the core that still
\* runs go on being dispatched (Dispatch("flush_save")).  Then its frames are
\* dropped with link_set_rx_enabled(FALSE), and another core starts.
SwitchCore ==
  /\ app.pc = "flush_save"
  /\ rx' = <<>>
  /\ \E kind \in Cores : core' = NewCore(kind)
  /\ Goto("loop")
  /\ UNCHANGED <<vars, adapter, sent, switches>>

-----------------------------------------------------------------------------

App ==
  \/ Dispatch("loop")
  \/ core.kind.backup /\ Dispatch("flush_save")
  \/ ReceiveFlush \/ ReceiveFlushWrite \/ ReceiveSnapshot \/ ReceiveWrite
  \/ TickStart \/ TickFlushWrite
  \/ \E due \in BOOLEAN : TickStatus(due)
  \/ \E lost \in BOOLEAN : TickSend(lost)
  \/ SwitchReset \/ SwitchServiceReset \/ SwitchCore

LinkNext == App \/ CoreData \/ CoreAsk \/ (Usb /\ UNCHANGED link_vars)

LinkSpec == LinkInit /\ [][LinkNext]_all_vars

\* APP's loop never stops: it dispatches, ticks, and finishes what it began.
\* The 100 ms repeat comes due again and again, and the wire does not lose
\* every frame of a kind for ever.  The core repeats an unanswered request.
LinkFairness ==
  /\ Fairness
  /\ WF_all_vars(\/ ReceiveFlush \/ ReceiveFlushWrite \/ ReceiveSnapshot
                 \/ ReceiveWrite \/ TickFlushWrite \/ SwitchServiceReset
                 \/ SwitchCore)
  /\ WF_all_vars(\E due \in BOOLEAN : TickStatus(due))
  /\ WF_all_vars(\E lost \in BOOLEAN : TickSend(lost))
  /\ SF_all_vars(Dispatch("loop")) /\ SF_all_vars(TickStart)
  /\ SF_all_vars(TickStatus(TRUE)) /\ SF_all_vars(TickSend(FALSE))
  /\ SF_all_vars(CoreAsk /\ rx' # rx)

LinkFairSpec == LinkSpec /\ LinkFairness

-----------------------------------------------------------------------------
(* Correctness.  PrintedOnce and QueueOneSession of the service, now with    *)
(* the bytes numbered as the core sent them: a byte deferred at a full queue *)
(* still goes before its successors.                                         *)

\* The reserve is enough: with no more frames under way than the reserve and
\* the deferred byte cover, no byte finds a working printer with the deferred
\* byte still taken ("the reserve absorbs SPI traffic already in transit").
ReserveHolds ==
  Depth <= Reserve + 1 =>
    ~ (app.pc = "receive" /\ pending # <<>> /\ writable
       /\ pending[1].job = session)

\* A core starts with a clean printer: nothing its predecessor sent can still
\* enter or stay in the queue, unless a reset is about to discard it.
CoreStartsClean ==
  app.pc = "loop" =>
    /\ resetting \/ \A i \in 1 .. used : queue[i].id >= core.first
    /\ \A i \in 1 .. Len(pending) : pending[i].id >= core.first

\* A core that never sent a printer frame gets none ("old cores receive no
\* unsolicited printer traffic").
OldCoreSilent == app.pc = "send" => core.asked

Healthy == writable /\ status_valid /\ ready

\* BUSY clears once the printer stays ready and the queue stays low, although
\* status frames, requests and their answers may be lost.
BusyClears == <>[](Healthy /\ core.asked) => []<>(~core.busy)

\* The change of a core leaves neither bytes nor the adapter's activity behind
\* (configure(), printer_link_reset()).
CoreChanges == CoreStartsClean /\ OldCoreSilent
=============================================================================
