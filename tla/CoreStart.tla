------------------------------- MODULE CoreStart -------------------------------
(***************************************************************************)
(* What a core is given at its start: the bitstream over DMA and PIO, the  *)
(* question what it can, its setup, files and ROMs in bursts or in frames, *)
(* and the text OSD (bitstream.c, link.c, core_loader.c, lib/osd/osd.c).   *)
(*                                                                         *)
(* APP holds the bus during a start, so nothing else goes to the core; what*)
(* the DMA, the state machine and the core do meanwhile are steps of their *)
(* own.  The pieces of a load that other parts see are in SpiLink,         *)
(* CoreFile and CoreEeprom.                                                *)
(***************************************************************************)
EXTENDS Integers, Sequences, SequencesExt, FiniteSetsExt

CONSTANTS
  StartCores,  \* [bits, caps, osd, mhz, file, roms, lock]: see Expected and Items
  ChunkLen, FifoLen,           \* BITSTREAM_CHUNK, the FIFO of the state machine
  BufLen, BurstLen, BankLen,   \* BITSTREAM_BUF_SIZE, BURST_MAX_LEN, 256
  QueryRounds,                 \* questions in CAPS_READY_TIMEOUT_MS
  OSD_SIZE_X, OSD_SIZE_Y,
  MaxCoreStarts, MaxReadFails, MaxNotReady, MaxScreens  \* bounds

VARIABLES
  stCore,  \* external: [got, run, lock, bank, data, setup, cells, clocks]
  stLoad,  \* [at, core, again, cur, buf, dma, fifo, osr, sent, next, rounds, items, file]
  stLink,  \* [caps, freq]: burst_caps and link_freq
  stOsd,   \* [x, y, ink, buf, changed]
  stPast   \* history: [starts, fails, late, screens, short, fell, burstAfter, drawn]

stVars == <<stCore, stLoad, stLink, stOsd, stPast>>

OsdCells == (0 .. OSD_SIZE_X - 1) \X (0 .. OSD_SIZE_Y - 1)
NoneSent == [type |-> "none"]
Indices(n) == [i \in 1 .. n |-> i]
Least(a, b) == IF a < b THEN a ELSE b

-----------------------------------------------------------------------------
(* The OSD: what is drawn goes into a buffer, osd_update() sends what was  *)
(* written to since.                                                       *)

osd_set_pos(o, x, y) ==
  LET p == IF x >= OSD_SIZE_X THEN <<0, y + 1>> ELSE <<x, y>>
      q == IF p[2] >= OSD_SIZE_Y THEN <<0, 0>> ELSE p
  IN [o EXCEPT !.x = q[1], !.y = q[2]]
marked(o, cell) == IF o.buf[<<o.x, o.y>>] # cell THEN o.changed \cup {<<o.x, o.y>>} ELSE o.changed
osd_putc(o, chr) ==
  osd_set_pos([o EXCEPT !.buf[<<o.x, o.y>>] = <<chr, o.ink>>, !.changed = marked(o, <<chr, o.ink>>)], o.x + 1, o.y)
osd_print(o, s) == FoldLeft(osd_putc, o, s)
PrintAt(o, x, y, s) == osd_print(osd_set_pos(o, x, y), s)
Ink(o, ink) == [o EXCEPT !.ink = ink]

Rows(o, y1, y2, Row(_, _)) == FoldLeft(Row, o, [i \in 1 .. y2 - y1 + 1 |-> y1 + i - 1])
Same(chr, n) == [i \in 1 .. n |-> chr]
osd_fill(o, x1, y1, x2, y2, chr) == LET Row(a, y) == PrintAt(a, x1, y, Same(chr, x2 - x1 + 1)) IN Rows(o, y1, y2, Row)
osd_clear(o) == PrintAt(Ink(o, "white"), 0, 0, Same("void", OSD_SIZE_X * OSD_SIZE_Y))
osd_frame(o, x1, y1, x2, y2) ==
  LET Edge(l, r) == <<l>> \o Same("tb", x2 - x1 - 1) \o <<r>>
      Row(a, y) == IF y = y1 THEN PrintAt(a, x1, y, Edge("lt", "rt"))
                   ELSE IF y = y2 THEN PrintAt(a, x1, y, Edge("lb", "rb"))
                   ELSE PrintAt(PrintAt(a, x1, y, <<"lr">>), x2, y, <<"lr">>)
  IN Rows(o, y1, y2, Row)

scaled(val, max, size) == IF max = 0 THEN 0 ELSE (val * size) \div max
osd_progress(o, x, y, size, val, max) ==
  LET Square(a, i) == osd_putc(Ink(a, IF i <= scaled(val, max, size) THEN "white" ELSE "grey"), "square")
  IN FoldLeft(Square, osd_set_pos(o, x, y), Indices(size))
thumb(i, pos, len) ==
  IF i < pos \/ i >= pos + len THEN "track"
  ELSE IF len = 1 THEN "handle" ELSE IF i = pos THEN "top" ELSE IF i = pos + len - 1 THEN "bottom" ELSE "mid"
osd_scrollbar(o, x, y, height, pos, len) ==
  LET Row(a, i) == LET c == thumb(i, pos, len)
                   IN PrintAt(Ink(a, IF c = "track" THEN "grey" ELSE "white"), x, y + i, <<c>>)
  IN Rows(o, 0, height - 1, Row)

\* The box of a save and of a load, a screen with its header, the screen of the ROMs.
osd_progress_popup(o, title, val, max) ==
  LET box == osd_fill(osd_frame(Ink(o, "blue"), 1, 0, 5, 3), 2, 1, 4, 2, "void")
  IN osd_progress(PrintAt(Ink(box, "yellow"), 2, 1, title), 2, 2, 3, val, max)
osd_logo(o, x, y) == PrintAt(Ink(PrintAt(PrintAt(Ink(o, "white"), x, y, <<"k1", "k2">>), x, y + 1, <<"k3", "k4">>), "red"), x + 1, y + 1, <<"brick">>)
overlay(o, title) == PrintAt(Ink(PrintAt(osd_logo(osd_clear(o), 0, 0), 0, 2, Same("line", OSD_SIZE_X)), "white"), 3, 1, title)
RomScreen(o) == PrintAt(Ink(osd_logo(osd_clear(o), 0, 0), "white"), 0, 3, <<"R">>)
rom_progress(o) == PrintAt(o, 2, 3, <<"n">>)

\* What a core shows of a cell: a void one has no ink.
Looks(cell) == IF cell[1] = "void" /\ cell[2] # "blue" THEN <<"void", "black">> ELSE cell

\* osd_update(): all marked cells, under the lock of the bus.
CellsSent(cells, o) == [p \in OsdCells |-> IF p \in o.changed THEN o.buf[p] ELSE cells[p]]
Updated(o) == stOsd' = [o EXCEPT !.changed = {}] /\ stCore' = [stCore EXCEPT !.cells = CellsSent(@, o)]

-----------------------------------------------------------------------------
(* A core, and what it is sent.                                            *)

\* configure() from the first frame on, with read_core() and read_roms(): the frames by
\* what they are for, the steps of APP between them, the files.
Step(what) == <<what, 0>>
Items(c) ==
  LET s(what, given) == IF given THEN <<Step(what)>> ELSE <<>>
  IN <<Step("init_start"), Step("hw_setup"), Step("font"), Step("link_set_freq"), Step("rtc"), Step("switches"), Step("rtc")>>
     \o s("ioctl on", c.file > 0) \o s("file", c.file > 0) \o s("ioctl off", c.file > 0)
     \o s("menu", c.osd) \o s("overlay", TRUE) \o s("build_ids", TRUE) \o s("rom screen", ~c.osd)
     \o s("roms on", c.roms # <<>>) \o [i \in DOMAIN c.roms |-> <<"rom", i>>] \o s("roms off", TRUE)
     \o s("overlay", ~c.osd) \o s("init_done", TRUE)
Frames == {"init_start", "hw_setup", "font", "rtc", "switches", "ioctl on", "ioctl off", "menu", "build_ids",
           "roms on", "roms off", "init_done"}

\* The bytes of a file, from one to another, where they belong.
FileBytes(f, from, to) == [i \in 1 .. to - from |-> <<f.of, f.addr + from + i - 1, from + i>>]
FileOf(c, item) ==
  IF item[1] = "file" THEN [of |-> item, addr |-> 0, len |-> c.file, sent |-> 0, n |-> 0, done |-> 0, classic |-> FALSE]
  ELSE [of |-> item, addr |-> c.roms[item[2]].addr, len |-> c.roms[item[2]].len, sent |-> 0, n |-> 0, done |-> 0, classic |-> FALSE]
Expected(c) ==
  LET Files == SelectSeq(Items(c), LAMBDA i : i[1] \in {"file", "rom"})
  IN FlattenSeq([k \in DOMAIN Files |-> LET f == FileOf(c, Files[k]) IN FileBytes(f, 0, f.len)])

\* An FPGA without a core, and the files of the bitstreams.
NoCore(shown) == [got |-> <<>>, run |-> "empty", lock |-> 0, bank |-> -1, data |-> <<>>, setup |-> <<>>, cells |-> shown, clocks |-> {}]
BlackScreen == [p \in OsdCells |-> <<"void", "black">>]
Bitstream(again, n) == [i \in 1 .. n |-> <<again, i>>]

StartInit ==
  /\ stCore = NoCore(BlackScreen)
  /\ stLoad = [at |-> "idle", core |-> CHOOSE c \in StartCores : TRUE, again |-> FALSE, cur |-> 0,
               buf |-> [i \in {0, 1} |-> <<>>], dma |-> [from |-> 0, pos |-> 1, len |-> 0], fifo |-> <<>>, osr |-> <<>>,
               sent |-> 0, next |-> 0, rounds |-> 0, items |-> <<>>, file |-> NoneSent]
  /\ stLink = [caps |-> {}, freq |-> 16]
  /\ stOsd = [x |-> 0, y |-> 0, ink |-> "white", buf |-> BlackScreen, changed |-> {}]
  /\ stPast = [starts |-> 0, fails |-> 0, late |-> 0, screens |-> 0, short |-> FALSE, fell |-> FALSE, burstAfter |-> FALSE]

In(at) == stLoad.at = at
ReadFails == stPast.fails < MaxReadFails
Fails == [stPast EXCEPT !.fails = @ + 1, !.short = TRUE]

\* configure(): what the core before announced is forgotten; a reload goes through the
\* boot core, which clears the memory.
link_burst_reset == [stLink EXCEPT !.caps = {}]
StartLoad ==
  /\ In("idle") /\ stPast.starts < MaxCoreStarts
  /\ \E c \in StartCores, again \in BOOLEAN :
       stLoad' = [stLoad EXCEPT !.at = "erase", !.core = c, !.again = again]
  /\ stLink' = link_burst_reset
  /\ stPast' = [stPast EXCEPT !.starts = @ + 1, !.screens = 0, !.short = FALSE, !.burstAfter = FALSE]
  /\ UNCHANGED <<stCore, stOsd>>

-----------------------------------------------------------------------------
(* fpga_send().                                                            *)

\* PROG_B: the FPGA forgets the core.  With a state machine and a DMA channel free the
\* bitstream goes out by itself, else bit by bit.
Erase ==
  /\ In("erase")
  /\ stCore' = NoCore(BlackScreen)
  /\ \E at \in {"first", "bits"} :
       stLoad' = [stLoad EXCEPT !.at = at, !.cur = 0, !.sent = 0, !.next = 0, !.fifo = <<>>, !.osr = <<>>]
  /\ UNCHANGED <<stLink, stOsd, stPast>>

total == stLoad.core.bits
Chunk == SubSeq(Bitstream(stLoad.again, total), stLoad.sent + 1, Least(stLoad.sent + ChunkLen, total))

\* A chunk is read into the other half of the buffer while the DMA streams the one before;
\* the card may fail.
bitstream_read ==
  /\ stLoad.at \in {"first", "read"}
  /\ \/ stLoad' = [stLoad EXCEPT !.at = IF @ = "first" THEN "go" ELSE "wait", !.next = Len(Chunk),
                                 !.buf[stLoad.cur] = IF Chunk = <<>> THEN @ ELSE Chunk]
        /\ UNCHANGED stPast
     \/ /\ ReadFails /\ stPast' = Fails
        /\ stLoad' = [stLoad EXCEPT !.at = IF @ = "first" THEN "go" ELSE "wait", !.next = 0]
  /\ UNCHANGED <<stCore, stLink, stOsd>>
DmaStarts ==
  /\ In("go")
  /\ stLoad' = IF stLoad.next = 0 THEN [stLoad EXCEPT !.at = "drain"]
               ELSE [stLoad EXCEPT !.at = "read", !.dma = [from |-> stLoad.cur, pos |-> 1, len |-> stLoad.next],
                                   !.sent = @ + stLoad.next, !.cur = 1 - @]
  /\ UNCHANGED <<stCore, stLink, stOsd, stPast>>
DmaMoves ==
  LET d == stLoad.dma
  IN /\ d.pos <= d.len /\ Len(stLoad.fifo) < FifoLen
     /\ stLoad' = [stLoad EXCEPT !.fifo = Append(@, stLoad.buf[d.from][d.pos]), !.dma.pos = @ + 1]
     /\ UNCHANGED <<stCore, stLink, stOsd, stPast>>
\* The state machine runs until its pins are given back.
PioPulls ==
  /\ stLoad.fifo # <<>> /\ stLoad.osr = <<>> /\ stLoad.at \in {"read", "wait", "go", "drain", "late"}
  /\ stLoad' = [stLoad EXCEPT !.fifo = Tail(@), !.osr = <<Head(stLoad.fifo)>>]
  /\ UNCHANGED <<stCore, stLink, stOsd, stPast>>
PioShifts ==
  /\ stLoad.osr # <<>> /\ stLoad.at \in {"read", "wait", "go", "drain", "late"}
  /\ stLoad' = [stLoad EXCEPT !.osr = <<>>]
  /\ stCore' = [stCore EXCEPT !.got = @ \o stLoad.osr]
  /\ UNCHANGED <<stLink, stOsd, stPast>>
DmaFinished ==
  /\ In("wait") /\ stLoad.dma.pos > stLoad.dma.len
  /\ stLoad' = [stLoad EXCEPT !.at = "go"]
  /\ UNCHANGED <<stCore, stLink, stOsd, stPast>>
\* The FIFO is empty, and in the 10 us after it the last byte gets out.
Drained ==
  /\ \/ In("drain") /\ stLoad.fifo = <<>> /\ stLoad' = [stLoad EXCEPT !.at = "late"]
     \/ In("late") /\ stLoad.osr = <<>> /\ stLoad' = [stLoad EXCEPT !.at = "conf"]
  /\ UNCHANGED <<stCore, stLink, stOsd, stPast>>

bitstream_send_bitbang ==
  /\ In("bits")
  /\ \/ /\ stLoad' = IF Chunk = <<>> THEN [stLoad EXCEPT !.at = "conf"] ELSE [stLoad EXCEPT !.sent = @ + Len(Chunk)]
        /\ stCore' = [stCore EXCEPT !.got = @ \o Chunk] /\ UNCHANGED stPast
     \/ /\ ReadFails /\ Chunk # <<>> /\ stPast' = Fails
        /\ stLoad' = [stLoad EXCEPT !.at = "conf"] /\ UNCHANGED stCore
  /\ UNCHANGED <<stLink, stOsd>>

\* CONF_DONE comes for a whole bitstream; without it the firmware halts after a second.
ConfDone ==
  /\ In("conf")
  /\ IF stCore.got = Bitstream(stLoad.again, total)
     THEN /\ stCore' = [stCore EXCEPT !.run = "reset", !.lock = stLoad.core.lock]
          /\ stLoad' = IF stLoad.again THEN [stLoad EXCEPT !.at = "erase", !.again = FALSE]
                       ELSE [stLoad EXCEPT !.at = "query", !.rounds = 0]
     ELSE stLoad' = [stLoad EXCEPT !.at = "halted"] /\ UNCHANGED stCore
  /\ UNCHANGED <<stLink, stOsd, stPast>>

-----------------------------------------------------------------------------
(* link_caps_query().                                                      *)

\* A transfer, and what goes by until the next one: the link of the core is up some
\* transfers after CONF_DONE.
Clocked(c) == [c EXCEPT !.run = IF c.lock = 0 THEN "up" ELSE @, !.lock = IF @ = 0 THEN 0 ELSE @ - 1, !.clocks = @ \cup {stLink.freq}]

\* One question with its polls.  The core answers when its link is out of reset and it
\* knows the question; the frames before are lost.
queried(rounds) == rounds >= QueryRounds
link_caps_query ==
  LET answers == stCore.lock = 0 /\ stLoad.core.caps # {}
      rounds == stLoad.rounds + 1
  IN /\ In("query")
     /\ stCore' = Clocked(stCore)
     /\ stLink' = IF answers THEN [stLink EXCEPT !.caps = stLoad.core.caps] ELSE stLink
     /\ stLoad' = IF answers \/ queried(rounds) THEN [stLoad EXCEPT !.at = "items", !.items = Items(stLoad.core)]
                  ELSE [stLoad EXCEPT !.rounds = rounds]
     /\ UNCHANGED <<stOsd, stPast>>

-----------------------------------------------------------------------------
(* The setup.                                                              *)

NextItem(whats) == In("items") /\ stLoad.items # <<>> /\ Head(stLoad.items)[1] \in whats
RestOfItems == [stLoad EXCEPT !.items = Tail(@)]

Frame ==
  /\ NextItem(Frames) /\ stLoad' = RestOfItems
  /\ LET c == Clocked(stCore)
     IN stCore' = IF c.run = "up" THEN [c EXCEPT !.setup = Append(@, Head(stLoad.items)[1])] ELSE c
  /\ UNCHANGED <<stLink, stOsd, stPast>>
SetFreq ==
  /\ NextItem({"link_set_freq"}) /\ stLoad' = RestOfItems
  /\ stLink' = [stLink EXCEPT !.freq = stLoad.core.mhz]
  /\ UNCHANGED <<stCore, stOsd, stPast>>
StartScreen ==
  /\ NextItem({"overlay", "rom screen"}) /\ stLoad' = RestOfItems
  /\ Updated(IF NextItem({"overlay"}) THEN overlay(stOsd, <<"t">>) ELSE RomScreen(stOsd))
  /\ UNCHANGED <<stLink, stPast>>
StartEnds ==
  /\ In("items") /\ stLoad.items = <<>>
  /\ stLoad' = [stLoad EXCEPT !.at = "idle"]
  /\ UNCHANGED <<stCore, stLink, stOsd, stPast>>

-----------------------------------------------------------------------------
(* core_send_file() with link_write_data().                                *)

FileOpens ==
  /\ NextItem({"file", "rom"})
  /\ stLoad' = [RestOfItems EXCEPT !.at = "file", !.file = FileOf(stLoad.core, Head(stLoad.items))]
  /\ stPast' = [stPast EXCEPT !.fell = FALSE]
  /\ UNCHANGED <<stCore, stLink, stOsd>>

sending == stLoad.file
read_of_it == sending.sent + sending.n
Reading == In("file") /\ sending.done = sending.n /\ read_of_it < sending.len
ReadPiece ==
  /\ Reading
  /\ stLoad' = [stLoad EXCEPT !.file = [sending EXCEPT !.sent = read_of_it, !.n = Least(BufLen, sending.len - read_of_it),
                                                      !.done = 0, !.classic = FALSE]]
  /\ UNCHANGED <<stCore, stLink, stOsd, stPast>>
FileEnds ==
  /\ In("file") /\ sending.done = sending.n
  /\ \/ read_of_it = sending.len /\ UNCHANGED stPast
     \/ Reading /\ ReadFails /\ stPast' = Fails
  /\ stLoad' = [stLoad EXCEPT !.at = "items", !.file = NoneSent]
  /\ IF sending.of[1] = "rom" /\ read_of_it > 0 THEN Updated(rom_progress(stOsd)) ELSE UNCHANGED <<stCore, stOsd>>
  /\ UNCHANGED stLink

\* Whole bursts, while the core is ready for them; the first it is not ready for in time
\* ends the bursts of this piece.
Piece == In("file") /\ sending.done < sending.n
Bursts == "write" \in stLink.caps /\ ~sending.classic
link_burst_write ==
  LET n == Least(BurstLen, sending.n - sending.done)
      from == sending.sent + sending.done
  IN /\ Piece /\ Bursts
     /\ stLoad' = [stLoad EXCEPT !.file.done = @ + n]
     /\ stCore' = IF "write" \in stLoad.core.caps
                  THEN [stCore EXCEPT !.data = @ \o FileBytes(sending, from, from + n)] ELSE stCore
     /\ stPast' = [stPast EXCEPT !.burstAfter = @ \/ stPast.fell]
     /\ UNCHANGED <<stLink, stOsd>>
NotReady ==
  /\ Piece /\ Bursts /\ "ready" \in stLink.caps /\ stPast.late < MaxNotReady
  /\ stLoad' = [stLoad EXCEPT !.file.classic = TRUE]
  /\ stPast' = [stPast EXCEPT !.late = @ + 1, !.fell = TRUE]
  /\ UNCHANGED <<stCore, stLink, stOsd>>
\* A frame per byte, its bank before the first one and when it changes.
new_bank(first, a) == first \/ a % BankLen = 0
ClassicFrames ==
  LET Put(c, j) ==
        LET a == sending.addr + sending.sent + j
            bank == IF new_bank(j = sending.done, a) THEN a \div BankLen ELSE c.bank
        IN [c EXCEPT !.bank = bank, !.data = Append(@, <<sending.of, (bank * BankLen) + (a % BankLen), sending.sent + j + 1>>)]
  IN /\ Piece /\ ~Bursts
     /\ stCore' = FoldLeft(Put, stCore, [i \in 1 .. sending.n - sending.done |-> sending.done + i - 1])
     /\ stLoad' = [stLoad EXCEPT !.file.done = sending.n]
     /\ UNCHANGED <<stLink, stOsd, stPast>>

-----------------------------------------------------------------------------
(* The screens of APP, and what of them goes to the core.                  *)

Screens(o) ==
  {osd_scrollbar(overlay(o, <<"t", "u">>), OSD_SIZE_X - 1, 0, OSD_SIZE_Y, 1, 2),
   osd_progress_popup(o, <<"s">>, 1, 2),
   PrintAt(o, OSD_SIZE_X - 1, OSD_SIZE_Y - 1, <<"e", "f">>)}
DrawScreen ==
  /\ In("idle") /\ stCore.run = "up" /\ stPast.screens < MaxScreens
  /\ stOsd' \in Screens(stOsd)
  /\ stPast' = [stPast EXCEPT !.screens = @ + 1]
  /\ UNCHANGED <<stCore, stLoad, stLink>>
osd_update ==
  /\ In("idle") /\ stOsd.changed # {}
  /\ Updated(stOsd)
  /\ UNCHANGED <<stLoad, stLink, stPast>>

StartNext ==
  \/ StartLoad \/ Erase \/ bitstream_read \/ DmaStarts \/ DmaMoves \/ PioPulls \/ PioShifts \/ DmaFinished \/ Drained
  \/ bitstream_send_bitbang \/ ConfDone \/ link_caps_query \/ Frame \/ SetFreq \/ StartScreen \/ StartEnds
  \/ FileOpens \/ ReadPiece \/ FileEnds \/ link_burst_write \/ NotReady \/ ClassicFrames \/ DrawScreen \/ osd_update

-----------------------------------------------------------------------------
(* Properties.                                                             *)

\* No byte of the bitstream is lost, repeated or overwritten between the card, the two
\* halves of the buffer and the pins: a core that runs is the one of the file, and the
\* firmware halts only when the card failed.
BitstreamWhole ==
  /\ IsPrefix(stCore.got, Bitstream(stLoad.again, total)) \/ In("erase")
  /\ In("halted") => stPast.short

\* A core that is started got its whole setup, in order, whenever its link came up, and
\* each byte of its files and ROMs once at its address, in bursts or in frames or in both;
\* but for a file the card failed in.
StartWhole ==
  In("idle") /\ stPast.starts > 0 =>
    /\ stCore.got = Bitstream(FALSE, total)
    /\ LET Sets == SelectSeq(Items(stLoad.core), LAMBDA x : x[1] \in Frames)
       IN stCore.setup = [i \in DOMAIN Sets |-> Sets[i][1]]
    /\ stPast.short \/ stCore.data = Expected(stLoad.core)
    /\ ToSet(stCore.data) \subseteq ToSet(Expected(stLoad.core))

\* When all that was drawn is sent, the core shows it, although it may be another core
\* than the one the last screen was sent to.
OsdTrue ==
  In("idle") /\ stCore.run = "up" /\ stOsd.changed = {} =>
    \A p \in OsdCells : Looks(stCore.cells[p]) = Looks(stOsd.buf[p])

\* Drawing, against what it should do: texts go on in reading order, a box is its border,
\* a bar has its part lit, a thumb its length and its ends.
Plain == [x |-> 0, y |-> 0, ink |-> "white", buf |-> BlackScreen, changed |-> {}]
DrawsRight ==
  /\ \A p \in OsdCells : LET o == PrintAt(Plain, p[1], p[2], <<"a", "b">>)
                             k == ((p[2] * OSD_SIZE_X) + p[1] + 1) % (OSD_SIZE_X * OSD_SIZE_Y)
                         IN o.changed = {p, <<k % OSD_SIZE_X, k \div OSD_SIZE_X>>}
  /\ \A a, b \in OsdCells :
       a[1] < b[1] /\ a[2] < b[2] =>
         LET inside == {p \in OsdCells : p[1] \in a[1] .. b[1] /\ p[2] \in a[2] .. b[2]}
         IN /\ osd_frame(Plain, a[1], a[2], b[1], b[2]).changed = {p \in inside : p[1] \in {a[1], b[1]} \/ p[2] \in {a[2], b[2]}}
            /\ osd_fill(Plain, a[1], a[2], b[1], b[2], "c").changed = inside
  /\ \A val \in 0 .. 4, max \in 1 .. 4 :
       val <= max => LET o == osd_progress(Plain, 1, 1, 3, val, max)
                     IN {x \in 1 .. 3 : o.buf[<<x, 1>>][2] = "white"} = {x \in 1 .. 3 : x * max <= val * 3}
  /\ \A pos \in 0 .. 3, len \in 1 .. 4 :
       LET is(c) == {i \in 0 .. 7 : thumb(i, pos, len) = c}
       IN /\ is("track") = (0 .. 7) \ (pos .. pos + len - 1)
          /\ len > 1 => is("top") = {pos} /\ is("bottom") = {pos + len - 1} /\ is("handle") = {}

StartRight == BitstreamWhole /\ StartWhole /\ OsdTrue /\ (stPast.starts = 0 => DrawsRight)

\* What the code does not hold to.  protocol.md: the ROMs are sent before the switches;
\* after a burst the core was not ready for, the rest of the transfer goes in frames; the
\* clock of the link is that of the core or 16 MHz.
DocumentedOrder ==
  \A i, j \in DOMAIN stCore.setup : stCore.setup[i] = "roms off" /\ stCore.setup[j] = "switches" => i < j
RestInFrames == ~stPast.burstAfter
OwnClock == stCore.clocks \subseteq {16, stLoad.core.mhz}
=============================================================================
