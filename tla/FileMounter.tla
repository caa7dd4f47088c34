----------------------------- MODULE FileMounter -----------------------------
(***************************************************************************)
(* The sector protocol of the file mounter: src/storage/img_mount.c and a  *)
(* core that reads and writes the sectors of a mounted image over a link   *)
(* that loses frames (docs/protocol.md, "File mounter").                   *)
(*                                                                         *)
(* A transfer on the link carries one frame each way.  The frames of the   *)
(* core wait in `up' and are handled by APP in that order, whoever's       *)
(* transfer pulled them; what the firmware sends reaches the core at once. *)
(*                                                                         *)
(* Scaled down: an LBA has 2 bytes for 4, a sector 2 bytes for 512 (one in *)
(* each bank), the sum is one frame for two and ideal: it matches only the *)
(* content it was made of.  One slot.                                      *)
(***************************************************************************)
EXTENDS Integers, Sequences

CONSTANTS
  Asked,       \* the sectors the core asks for, each an LBA <<low, high>>
  WriteData,   \* the sector contents the core writes
  Mounts,      \* how the image is mounted: [wp, caps], fs->wp and CAPS_IMG_WP
  Prompt,      \* TRUE: no request stays unanswered for 200 ms unless a frame was lost
  MaxRequests, \* bound: requests of the core, not counting repeats
  MaxRepeats,  \* bound: repeated requests
  MaxFaults,   \* bound: lost frames and failed card operations
  MaxCuts      \* bound: resets of the machine in the middle of a request

Byte == 0 .. 1
Lba  == Byte \X Byte

ASSUME MounterAssumption ==
  /\ Asked \subseteq Lba /\ Asked # {}
  /\ WriteData # {}
  /\ Mounts # {} /\ Mounts \subseteq [wp : BOOLEAN, caps : BOOLEAN]
  /\ Prompt \in BOOLEAN
  /\ MaxRequests \in Nat /\ MaxRepeats \in Nat
  /\ MaxFaults \in Nat /\ MaxCuts \in Nat

\* What a byte of a sector, or its sum, tells: where the content came from.
Blank   == <<"blank", 0, 0>>   \* a zeroed buffer, a register never written
Mixed   == <<"mixed", 0, 0>>   \* the sum of a buffer of two contents
Old(l)  == <<"old", l[1], l[2]>>
Content == {Old(l) : l \in Lba} \cup WriteData \cup {Blank, Mixed}

VARIABLES
  mount,  \* one of Mounts, for good
  req,    \* the request being taken: [lba, mask, op, complete, pending, started]
  wr,     \* the sector data: [bank, buf, seen, sum, sum_seen]; buf is img_buf
  serve,  \* img_serve(): [pc, op, lba, next, res]
  dirty,  \* img_dirty: written since the last f_sync
  disk,   \* the image on the card
  core,   \* the core: [state, op, lba, data, bank, buf, seen, sum]
  up,     \* frames of the core not pulled yet
  asked, repeats, faults, cuts   \* bounds

vars == <<mount, req, wr, serve, dirty, disk, core, up, asked, repeats, faults, cuts>>

Bank == 0 .. 1
Frame(c, a, d) == [cmd |-> c, addr |-> a, data |-> d]
Nop == Frame("NOP", 0, 0)

NoData == [b \in Bank |-> Blank]
Serving(pc) == serve.pc = pc
Resting == [pc |-> "rest", op |-> "READ", lba |-> <<0, 0>>, next |-> 0,
            res |-> "DONE"]

\* Is the sector buffer `b' with the bytes `seen' whole, and of this sum?
Whole(b, seen, sum) == seen = Bank /\ \A i \in Bank : b[i] = sum

Init ==
  /\ mount \in Mounts
  /\ req = [lba |-> <<0, 0>>, mask |-> {}, op |-> "READ", complete |-> FALSE,
            pending |-> FALSE, started |-> FALSE]
  /\ wr = [bank |-> 0, buf |-> NoData, seen |-> {}, sum |-> Blank,
           sum_seen |-> FALSE]
  /\ serve = Resting
  /\ dirty = FALSE
  /\ disk = [l \in Lba |-> Old(l)]
  /\ core = [state |-> "idle", op |-> "READ", lba |-> <<0, 0>>, data |-> Blank,
             bank |-> 0, buf |-> NoData, seen |-> {}, sum |-> Blank]
  /\ up = <<>>
  /\ asked = 0 /\ repeats = 0 /\ faults = 0 /\ cuts = 0

-----------------------------------------------------------------------------
(* The handlers of the core's frames.                                       *)

\* Mutant: the last byte alone makes a request.
all_bytes_last(mask) == 1 \in mask
all_bytes(mask) == mask = Byte

\* A write request starts counting its data at once.
\* Mutant: the data of the write before still counts.
wr_reset_bank(w) == [w EXCEPT !.bank = 0]
wr_reset(w) == [w EXCEPT !.bank = 0, !.seen = {}, !.sum_seen = FALSE]

on_img_lba(addr, data) ==
  /\ req' = [req EXCEPT !.started = @ \/ addr = 0,
                        !.mask = IF addr = 0 THEN {0} ELSE @ \cup {addr},
                        !.lba[addr + 1] = data]
  /\ UNCHANGED wr

on_img_sec(op) ==
  /\ req' = [req EXCEPT !.op = op, !.complete = all_bytes(req.mask),
                        !.mask = {}, !.pending = TRUE, !.started = FALSE]
  /\ wr' = IF op = "WRITE" THEN wr_reset(wr) ELSE wr

on_img_buf_bank(addr, data) ==
  /\ wr' = IF addr = 0 THEN [wr EXCEPT !.bank = data]
           ELSE [wr EXCEPT !.sum = data, !.sum_seen = TRUE]
  /\ UNCHANGED req

on_img_buf_data(data) ==
  /\ wr' = [wr EXCEPT !.buf[wr.bank] = data, !.seen = @ \cup {wr.bank}]
  /\ UNCHANGED req

Handle(f) ==
  CASE f.cmd = "LBA"  -> on_img_lba(f.addr, f.data)
    [] f.cmd = "SEC"  -> on_img_sec(f.data)
    [] f.cmd = "BANK" -> on_img_buf_bank(f.addr, f.data)
    [] f.cmd = "DATA" -> on_img_buf_data(f.data)

-----------------------------------------------------------------------------
(* The core, after docs/protocol.md.                                        *)

RequestFrames(op, lba, data) ==
  <<Frame("LBA", 0, lba[1]), Frame("LBA", 1, lba[2]), Frame("SEC", 0, op)>>
  \o IF op = "READ" THEN <<>>
     ELSE <<Frame("BANK", 0, 0), Frame("DATA", 0, data),
            Frame("BANK", 0, 1), Frame("DATA", 0, data),
            Frame("BANK", 16, data)>>

Fresh(c) == [c EXCEPT !.bank = 0, !.buf = NoData, !.seen = {}, !.sum = Blank]

CoreRequest ==
  /\ core.state = "idle"
  /\ asked < MaxRequests /\ asked' = asked + 1
  /\ \E op \in {"READ", "WRITE"}, lba \in Asked, data \in WriteData :
       /\ core' = Fresh([core EXCEPT !.state = "wait", !.op = op, !.lba = lba,
                           !.data = IF op = "WRITE" THEN data ELSE Blank])
       /\ up' = up \o RequestFrames(op, lba, data)
  /\ UNCHANGED <<mount, req, wr, serve, dirty, disk, repeats, faults, cuts>>

\* No answer for 200 ms.  With Prompt, only because something was lost.
Quiet == up = <<>> /\ Serving("rest") /\ ~req.pending

CoreTimeout ==
  /\ core.state = "wait"
  /\ Prompt => Quiet
  /\ repeats < MaxRepeats /\ repeats' = repeats + 1
  /\ core' = Fresh(core)
  /\ up' = up \o RequestFrames(core.op, core.lba, core.data)
  /\ UNCHANGED <<mount, req, wr, serve, dirty, disk, asked, faults, cuts>>

\* After an error answer, or an incomplete sector, the core asks again.
CoreRepeat ==
  /\ core.state = "again"
  /\ core' = Fresh([core EXCEPT !.state = "wait"])
  /\ up' = up \o RequestFrames(core.op, core.lba, core.data)
  /\ UNCHANGED <<mount, req, wr, serve, dirty, disk, asked, repeats, faults, cuts>>

\* The machine behind the core is reset in the middle of a request: the frames
\* it had not sent yet never come.  It asks for sectors again once it booted.
CoreReset ==
  /\ core.state = "wait"
  /\ cuts < MaxCuts /\ cuts' = cuts + 1
  /\ core' = [core EXCEPT !.state = "reset"]
  /\ \E n \in 0 .. Len(up) : up' = SubSeq(up, 1, n)
  /\ UNCHANGED <<mount, req, wr, serve, dirty, disk, asked, repeats, faults>>

CoreBoot ==
  /\ core.state = "reset"
  /\ Prompt => Quiet
  /\ core' = [core EXCEPT !.state = "idle"]
  /\ UNCHANGED <<mount, req, wr, serve, dirty, disk, up, asked, repeats, faults, cuts>>

\* What a frame of the firmware does to the core.
CoreTakes(f) ==
  CASE f.cmd = "BANK" -> [core EXCEPT !.bank = f.data]
    [] f.cmd = "DATA" -> [core EXCEPT !.buf[core.bank] = f.data,
                                      !.seen = @ \cup {core.bank}]
    [] f.cmd = "LBA"  -> [core EXCEPT !.sum = f.data]
    [] f.cmd = "SEC" /\ core.state = "wait" ->
         [core EXCEPT !.state =
            IF f.data = "ERROR"
               \/ (core.op = "READ" /\ ~Whole(core.buf, core.seen, core.sum))
            THEN "again" ELSE "idle"]
    [] OTHER -> core

-----------------------------------------------------------------------------
(* The link: one frame to the core, and the next frame of the core, if it   *)
(* has one ready; either may be lost.                                       *)

Transfer(f) ==
  \E pulled, down_lost, up_lost \in BOOLEAN :
    /\ pulled => up # <<>>
    /\ up_lost => pulled
    /\ down_lost => f # Nop
    /\ faults' = faults + (IF down_lost THEN 1 ELSE 0) + (IF up_lost THEN 1 ELSE 0)
    /\ faults' <= MaxFaults
    /\ core' = IF down_lost THEN core ELSE CoreTakes(f)
    /\ IF pulled THEN up' = Tail(up) ELSE UNCHANGED up
    /\ IF pulled /\ ~up_lost THEN Handle(Head(up)) ELSE UNCHANGED <<mount, req, wr>>

\* Any other frame on the link while no request is served: link_poll(), keys
\* and mouse, the OSD, and the NOPs img_serve() and img_tick() poll with.
Poll ==
  /\ Serving("rest")
  /\ up # <<>>
  /\ Transfer(Nop)
  /\ UNCHANGED <<mount, serve, dirty, disk, asked, repeats, cuts>>

-----------------------------------------------------------------------------
(* img_tick() and img_serve().                                              *)

\* A complete request, or one with an LBA byte missing.
ServeStart ==
  /\ Serving("rest") /\ req.pending
  /\ req' = [req EXCEPT !.pending = FALSE]
  /\ serve' = [Resting EXCEPT !.op = req.op, !.lba = req.lba,
                 !.res = IF req.complete THEN "DONE" ELSE "ERROR",
                 !.pc = IF ~req.complete THEN "answer"
                        ELSE IF req.op = "READ" THEN "read" ELSE "receive"]
  /\ UNCHANGED <<mount, wr, dirty, disk, core, up, asked, repeats, faults, cuts>>

\* The answer to a card operation that failed or not.
\* Mutant: an error is not told.
result_done(ok) == "DONE"
result(ok) == IF ok THEN "DONE" ELSE "ERROR"

\* img_read_sector(): the buffer is zeroed first, and sent even if the read
\* fails.
ServeRead ==
  /\ Serving("read")
  /\ \E ok \in BOOLEAN :
       /\ faults' = faults + (IF ok THEN 0 ELSE 1) /\ faults' <= MaxFaults
       /\ wr' = [wr EXCEPT !.buf = IF ok THEN [b \in Bank |-> disk[serve.lba]]
                                   ELSE NoData]
       /\ serve' = [serve EXCEPT !.pc = "bank", !.next = 0,
                                 !.res = result(ok)]
  /\ UNCHANGED <<mount, req, dirty, disk, core, up, asked, repeats, cuts>>

\* img_send_sector(): a bank frame, its data frame, and so on, then the sum
\* of what the buffer holds by then.
SendBank ==
  /\ Serving("bank")
  /\ Transfer(Frame("BANK", 0, serve.next))
  /\ serve' = [serve EXCEPT !.pc = "data"]
  /\ UNCHANGED <<mount, dirty, disk, asked, repeats, cuts>>

\* Mutant: one byte past the sector.
more_past(next) == next \in Bank
more(next) == next + 1 \in Bank

SendData ==
  /\ Serving("data")
  /\ Transfer(Frame("DATA", 0, wr.buf[serve.next]))
  /\ serve' = IF more(serve.next)
              THEN [serve EXCEPT !.pc = "bank", !.next = @ + 1]
              ELSE [serve EXCEPT !.pc = "sum"]
  /\ UNCHANGED <<mount, dirty, disk, asked, repeats, cuts>>

SumOf(b) == IF \A i \in Bank : b[i] = b[0] THEN b[0] ELSE Mixed

SendSum ==
  /\ Serving("sum")
  /\ Transfer(Frame("LBA", 0, SumOf(wr.buf)))
  /\ serve' = [serve EXCEPT !.pc = "answer"]
  /\ UNCHANGED <<mount, dirty, disk, asked, repeats, cuts>>

\* img_receive_sector(): NOPs until the data and the sum are in.
ReceivePoll ==
  /\ Serving("receive")
  /\ ~ (wr.seen = Bank /\ wr.sum_seen)
  /\ up # <<>>
  /\ Transfer(Nop)
  /\ UNCHANGED <<mount, serve, dirty, disk, asked, repeats, cuts>>

\* The 4000 polls are over without all of it.
\* Mutant: the polls have no end.
polls_endless == FALSE
polls_over == up = <<>>
ReceiveGiveUp ==
  /\ Serving("receive")
  /\ ~ (wr.seen = Bank /\ wr.sum_seen)
  /\ polls_over
  /\ serve' = [serve EXCEPT !.pc = "answer", !.res = "ERROR"]
  /\ UNCHANGED <<mount, req, wr, dirty, disk, core, up, asked, repeats, faults, cuts>>

\* Mutant: the flag is not looked at.
protected_ignored == FALSE
protected == mount.wp

\* All of it came: wrong, dropped on a write protected image, or written; a
\* failed write may have reached the card or not.
ServeWrite ==
  /\ Serving("receive")
  /\ wr.seen = Bank /\ wr.sum_seen
  /\ \/ /\ ~Whole(wr.buf, wr.seen, wr.sum)
        /\ serve' = [serve EXCEPT !.pc = "answer", !.res = "ERROR"]
        /\ UNCHANGED <<mount, dirty, disk, faults>>
     \/ /\ Whole(wr.buf, wr.seen, wr.sum) /\ protected
        /\ serve' = [serve EXCEPT !.pc = "answer",
                                  !.res = IF mount.caps THEN "PROTECTED" ELSE "DONE"]
        /\ UNCHANGED <<mount, dirty, disk, faults>>
     \/ /\ Whole(wr.buf, wr.seen, wr.sum) /\ ~protected
        /\ \E ok, written \in BOOLEAN :
             /\ ok => written
             /\ faults' = faults + (IF ok THEN 0 ELSE 1) /\ faults' <= MaxFaults
             /\ disk' = IF written THEN [disk EXCEPT ![serve.lba] = wr.sum]
                        ELSE disk
             /\ serve' = [serve EXCEPT !.pc = "answer",
                                       !.res = result(ok)]
        /\ dirty' = TRUE
  /\ UNCHANGED <<mount, req, wr, core, up, asked, repeats, cuts>>

ServeAnswer ==
  /\ Serving("answer")
  /\ Transfer(Frame("SEC", 0, serve.res))
  /\ serve' = Resting
  /\ UNCHANGED <<mount, dirty, disk, asked, repeats, cuts>>

\* A request that started but never got its IMG_SEC, after 100 ms.
\* Mutant: it goes on waiting.
StartedTimeout_waits ==
  /\ Serving("rest")
  /\ req.started /\ ~req.pending
  /\ up = <<>>
  /\ UNCHANGED vars
StartedTimeout ==
  /\ Serving("rest")
  /\ req.started /\ ~req.pending
  /\ up = <<>>
  /\ req' = [req EXCEPT !.started = FALSE]
  /\ UNCHANGED <<mount, wr, serve, dirty, disk, core, up, asked, repeats, faults, cuts>>

\* img_sync_idle(), 500 ms after the last write.
SyncIdle ==
  /\ Serving("rest")
  /\ ~req.pending /\ ~req.started
  /\ dirty /\ dirty' = FALSE
  /\ UNCHANGED <<mount, req, wr, serve, disk, core, up, asked, repeats, faults, cuts>>

-----------------------------------------------------------------------------

Core == \/ CoreRequest \/ CoreTimeout \/ CoreRepeat
        \/ CoreReset \/ CoreBoot

Tick == \/ ServeStart \/ ServeRead \/ SendBank \/ SendData \/ SendSum
        \/ ReceivePoll \/ ReceiveGiveUp \/ ServeWrite \/ ServeAnswer

Next == Core \/ Poll \/ Tick \/ StartedTimeout \/ SyncIdle

Spec == Init /\ [][Next]_vars

\* APP polls the link and ticks for ever; the core repeats what got no answer.
Fairness ==
  /\ WF_vars(Poll) /\ WF_vars(Tick)
  /\ WF_vars(StartedTimeout) /\ WF_vars(SyncIdle)
  /\ WF_vars(CoreTimeout) /\ WF_vars(CoreRepeat)

FairSpec == Spec /\ Fairness

-----------------------------------------------------------------------------
(* Correctness.                                                             *)

\* The types of the variables.
TypeOK ==
  /\ req \in [lba : Lba, mask : SUBSET Byte, op : {"READ", "WRITE"},
              complete : BOOLEAN, pending : BOOLEAN, started : BOOLEAN]
  /\ wr.bank \in Bank /\ wr.seen \subseteq Bank /\ wr.sum_seen \in BOOLEAN
  /\ wr.buf \in [Bank -> Content] /\ wr.sum \in Content
  /\ serve.lba \in Lba /\ serve.next \in Bank
  /\ serve.res \in {"DONE", "ERROR", "PROTECTED"}
  /\ dirty \in BOOLEAN
  /\ disk \in [Lba -> Content]
  /\ core.state \in {"idle", "wait", "again", "reset"}
  /\ faults <= MaxFaults

\* A request that was cut leaves its lba_mask behind: the next one, with its
\* first frame lost, is completed by it.  The core is safe from a cut, and from
\* losses and failures, but not from both at once.
CutOrLost == cuts = 0 \/ faults = 0

Ends(op) == core.state = "wait" /\ core'.state = "idle" /\ core.op = op

\* A sector the core passes on is the one it asked for, as it is on the card,
\* whatever frames were lost on the way ("passes a sector on only when it is
\* complete and right").
ReadIsRight ==
  [][CutOrLost /\ Ends("READ") =>
       \A b \in Bank : core.buf[b] = disk[core.lba]]_vars

\* A write the core was told is done is on the card.
WriteIsRight ==
  [][CutOrLost /\ Ends("WRITE") /\ ~mount.wp => disk[core.lba] = core.data]_vars

\* The card changes only by the last write the core asked for, in the sector
\* it asked for: not by leftovers of a request that was cut, and never on a
\* write protected image.
OnlyAsked ==
  [][disk' # disk =>
       /\ ~mount.wp
       /\ CutOrLost => /\ core.state \in {"wait", "reset"} /\ core.op = "WRITE"
                       /\ disk' = [disk EXCEPT ![core.lba] = core.data]]_vars

\* The firmware serves only an LBA the core sent as a whole ("takes a request
\* only with all four 42 bytes since 42 00").
LbaWhole ==
  CutOrLost /\ serve.pc \in {"read", "receive"}
    => serve.lba \in Asked

\* Every request ends: lost frames and failed card operations only delay it.
Answered == (core.state = "wait") ~> (core.state \in {"idle", "reset"})

\* What was written is synced to the card, though a request may be cut in the
\* middle and leave the mounter waiting for the rest of it.
Synced == dirty ~> ~dirty

\* Sectors are moved right in both directions, and nothing else is.
SectorsMoveRight == []LbaWhole /\ ReadIsRight /\ WriteIsRight /\ OnlyAsked
=============================================================================
