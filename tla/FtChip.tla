-------------------------------- MODULE FtChip --------------------------------
(***************************************************************************)
(* The FT812 behind the graphic screens: its start in up to three tries,   *)
(* the command FIFO, what is in its memory and on the display, and the     *)
(* switches in the FPGA (lib/ft812/ft812.c with its callers in             *)
(* core_loader.c, app_core_browser.c, app_ft_setup.c and ft_mouse.c).      *)
(*                                                                         *)
(* Only APP draws; a command group goes out with the bus held (SpiLink) and*)
(* the chip does not look at it before REG_CMD_WRITE is moved, so a group  *)
(* is one step.  The chip takes the groups whenever it likes.              *)
(***************************************************************************)
EXTENDS Integers, Sequences, SequencesExt

CONSTANTS
  VideoModes,  \* the rows of ft_modes
  Pages,       \* the screens: what is drawn of each, a sequence of calls
  FifoWords,   \* 1024 words of RAM_CMD
  TextLen,     \* the letters of a text on them
  MaxPages, MaxStarts, MaxBadTries, MaxHeldUp  \* bounds

VARIABLES
  ftChip,  \* external: [run, clk, wr, rd, queue, logo, kept, dl, shown]
  ftDrv,   \* [at, todo, addr, slow, attempts, failures, samples, tries, mode, for]
  ftUse,   \* [has, spi, vga, modeCur, frameLen]; spi and vga are bits of ctrl_reg
  ftPast   \* history: [pages, starts, bad, held, cycles, overrun, astray, lost]

ftVars == <<ftChip, ftDrv, ftUse, ftPast>>

\* ft_send_text(): the letters of each word, the last word with less than four of them.
send_text[n \in 0 .. 255] == IF n < 4 THEN <<n>> ELSE <<4>> \o send_text[n - 4]
TextWords == Len(send_text[TextLen])

\* The words of a call, a command group each.
Words(call) ==
  CASE call \in {"dlstart", "clear", "swap"} -> 2
    [] call \in {"append", "mediafifo", "loadimage"} -> 3
    [] call = "memcpy" -> 4 [] call = "circle" -> 5 [] call = "rect" -> 6
    [] call = "button" -> 7 + TextWords [] call = "gauge" -> 8
    [] call \in {"gradient", "pointer"} -> 9 [] call = "slider" -> 10
    [] call \in {"text", "toggle"} -> 9 + TextWords
    [] call = "bitmap" -> 26

\* What APP still has to do: groups, waits for an empty FIFO, writes into the memory.
ft_load_image == <<"wait", "mediafifo", "wait", "data", "loadimage">>
app_core_browser_ft_load == ft_load_image \o <<"ft_mouse_load">>
ft_begin_display_list == <<"wait", "dlstart">>
FirstList == ft_begin_display_list \o <<"clear", "swap">>
ft_frame(calls, pointer) ==
  ft_begin_display_list \o calls \o <<"wait", "keep">> \o pointer \o <<"swap">>
ft_pointer_frame(pointer) == ft_begin_display_list \o <<"append">> \o pointer \o <<"swap">>
Pointers == {<<>>, <<"pointer">>}

-----------------------------------------------------------------------------
(* The chip; external.                                                     *)

\* After a reset nothing is left of its memory.
ResetChip == [run |-> "sleep", clk |-> "none", wr |-> 0, rd |-> 0, queue |-> <<>>,
              logo |-> "none", kept |-> <<>>, dl |-> <<>>, shown |-> <<>>]

Executed(c, call) ==
  CASE call = "dlstart" -> [c EXCEPT !.dl = <<>>]
    [] call = "swap" -> [c EXCEPT !.shown = c.dl]
    [] call = "memcpy" -> [c EXCEPT !.kept = c.dl]
    [] call = "append" -> [c EXCEPT !.dl = @ \o c.kept]
    [] call = "loadimage" -> [c EXCEPT !.logo = IF @ = "data" THEN "picture" ELSE @]
    [] call = "mediafifo" -> c
    [] OTHER -> [c EXCEPT !.dl = Append(@, call)]
ChipTakes ==
  /\ ftChip.run = "active" /\ ftChip.queue # <<>>
  /\ LET c == Executed(ftChip, Head(ftChip.queue))
     IN ftChip' = [c EXCEPT !.queue = Tail(@), !.rd = (@ + Words(Head(ftChip.queue))) % FifoWords]
  /\ UNCHANGED <<ftDrv, ftUse, ftPast>>

-----------------------------------------------------------------------------
FtInit ==
  /\ ftChip = ResetChip
  /\ ftDrv = [at |-> "idle", todo |-> <<>>, addr |-> 0, slow |-> FALSE, attempts |-> 0, failures |-> 0,
              samples |-> 0, tries |-> 0, mode |-> CHOOSE m \in VideoModes : TRUE, for |-> "none"]
  /\ ftUse = [has |-> FALSE, spi |-> FALSE, vga |-> FALSE, modeCur |-> CHOOSE m \in VideoModes : TRUE, frameLen |-> 0]
  /\ ftPast = [pages |-> 0, starts |-> 0, bad |-> 0, held |-> 0, cycles |-> 0, overrun |-> FALSE, astray |-> FALSE, lost |-> FALSE]

-----------------------------------------------------------------------------
(* ft_init().                                                              *)

ft_init(d, m, for) == [d EXCEPT !.at = "power", !.mode = m, !.for = for, !.attempts = 1, !.failures = 0]

\* A try: PD_N low and high, the clock commands at the low SPI clock.
ft_power_cycle ==
  /\ ftDrv.at = "power"
  /\ ftChip' = ResetChip
  /\ ftDrv' = [ftDrv EXCEPT !.at = "wake", !.slow = TRUE]
  /\ ftPast' = [ftPast EXCEPT !.cycles = @ + 1]
  /\ UNCHANGED ftUse

\* The chip wakes up at the clock of the mode, at another one, or is not there.
Wake ==
  /\ ftDrv.at = "wake"
  /\ \/ ftChip' = [ftChip EXCEPT !.run = "active", !.clk = ftDrv.mode] /\ UNCHANGED ftPast
     \/ /\ ftPast.bad < MaxBadTries /\ ftPast' = [ftPast EXCEPT !.bad = @ + 1]
        /\ ftChip' \in {ftChip, [ftChip EXCEPT !.run = "active", !.clk = "wrong"]}
  /\ ftDrv' = [ftDrv EXCEPT !.at = "id"]
  /\ UNCHANGED ftUse

\* The loop leaves its counter one too far.
next_attempt(d) == d.attempts + 1
Failed(d) ==
  LET n == next_attempt(d)
      f == [d EXCEPT !.attempts = n, !.failures = @ + 1]
  IN IF n <= 3 THEN [f EXCEPT !.at = "power"] ELSE [f EXCEPT !.attempts = n - 1, !.at = "failed", !.slow = FALSE]

\* REG_ID and REG_CPURESET, with a second for both.
CheckId ==
  /\ ftDrv.at = "id"
  /\ ftDrv' = IF ftChip.run = "active" THEN [ftDrv EXCEPT !.at = "sample", !.samples = 0, !.tries = 0] ELSE Failed(ftDrv)
  /\ UNCHANGED <<ftChip, ftUse, ftPast>>

\* Two readings of the clock, each with five tries for one that is not held up.
ft_sample_clock ==
  /\ ftDrv.at = "sample" /\ ftDrv.samples < 2
  /\ \/ /\ ftDrv' = [ftDrv EXCEPT !.samples = @ + 1, !.tries = 0] /\ UNCHANGED ftPast
     \/ /\ ftPast.held < MaxHeldUp /\ ftPast' = [ftPast EXCEPT !.held = @ + 1]
        /\ ftDrv' = IF ftDrv.tries + 1 < 5 THEN [ftDrv EXCEPT !.tries = @ + 1] ELSE Failed(ftDrv)
  /\ UNCHANGED <<ftChip, ftUse>>

\* The FIFO pointer of before would not be that of the chip: its own is read.
CheckClock ==
  /\ ftDrv.at = "sample" /\ ftDrv.samples = 2
  /\ ftDrv' = IF ftChip.clk # ftDrv.mode THEN Failed(ftDrv)
              ELSE [ftDrv EXCEPT !.slow = FALSE, !.at = "up", !.todo = FirstList, !.addr = ftChip.wr]
  /\ UNCHANGED <<ftChip, ftUse, ftPast>>

-----------------------------------------------------------------------------
(* What the callers make of it.                                            *)

Rest(d) == [d EXCEPT !.at = "idle", !.for = "none"]
Cleared == ftDrv.at = "up" /\ ftDrv.todo = <<>>

\* The screen of the menu starts: a core load, or the key G.
Started ==
  /\ Cleared /\ ftDrv.for = "start"
  /\ \E page \in Pages, pointer \in Pointers :
       ftDrv' = Rest([ftDrv EXCEPT !.todo = app_core_browser_ft_load \o ft_frame(page, pointer)])
  /\ ftUse' = [ftUse EXCEPT !.has = TRUE, !.vga = TRUE, !.modeCur = ftDrv.mode]
  /\ UNCHANGED <<ftChip, ftPast>>
StartFails ==
  /\ ftDrv.at = "failed" /\ ftDrv.for = "start"
  /\ ftDrv' = Rest(ftDrv) /\ ftUse' = [ftUse EXCEPT !.has = FALSE, !.vga = FALSE, !.spi = FALSE]
  /\ UNCHANGED <<ftChip, ftPast>>

\* set_mode(): the mode of before again when the new one does not come up; whether that
\* one does is not looked at.  All that was in the memory is loaded again.
reload == app_core_browser_ft_load
ModeSet ==
  /\ Cleared /\ ftDrv.for \in {"mode", "back"}
  /\ ftDrv' = Rest([ftDrv EXCEPT !.todo = reload])
  /\ ftUse' = [ftUse EXCEPT !.modeCur = IF ftDrv.for = "mode" THEN ftDrv.mode ELSE @]
  /\ UNCHANGED <<ftChip, ftPast>>
ModeFails ==
  /\ ftDrv.at = "failed" /\ ftDrv.for = "mode"
  /\ ftDrv' = ft_init(ftDrv, ftUse.modeCur, "back")
  /\ ftPast' = [ftPast EXCEPT !.cycles = 0]
  /\ UNCHANGED <<ftChip, ftUse>>
BackFails ==
  /\ ftDrv.at = "failed" /\ ftDrv.for = "back"
  /\ ftDrv' = Rest([ftDrv EXCEPT !.todo = reload])
  /\ ftPast' = [ftPast EXCEPT !.lost = TRUE]
  /\ UNCHANGED <<ftChip, ftUse>>

Idle == ftDrv.at = "idle" /\ ftDrv.todo = <<>>
MayStart == Idle /\ ftPast.starts < MaxStarts
AnotherStart == ftPast' = [ftPast EXCEPT !.starts = @ + 1, !.lost = FALSE, !.astray = FALSE, !.overrun = FALSE, !.cycles = 0]
Off(u) == [u EXCEPT !.has = FALSE, !.vga = FALSE, !.spi = FALSE]

\* A core load: the switches off, then the boot core tries the chip, unless the settings
\* or the space key say no; another core resets it.
BootCoreLoad ==
  /\ MayStart /\ AnotherStart
  /\ \/ ftUse' = Off(ftUse) /\ UNCHANGED ftDrv
     \/ ftUse' = [Off(ftUse) EXCEPT !.spi = TRUE] /\ \E m \in VideoModes : ftDrv' = ft_init(ftDrv, m, "start")
  /\ UNCHANGED ftChip
OtherCoreLoad ==
  /\ MayStart /\ AnotherStart
  /\ ftUse' = Off(ftUse) /\ ftChip' = ResetChip
  /\ UNCHANGED ftDrv

KeySpace ==
  /\ Idle /\ ftUse.has /\ ftUse' = Off(ftUse)
  /\ UNCHANGED <<ftChip, ftDrv, ftPast>>
KeyG ==
  /\ MayStart /\ AnotherStart /\ ~ftUse.has
  /\ ftUse' = [ftUse EXCEPT !.spi = TRUE]
  /\ \E m \in VideoModes : ftDrv' = ft_init(ftDrv, m, "start")
  /\ UNCHANGED ftChip
set_mode ==
  /\ MayStart /\ AnotherStart /\ ftUse.has
  /\ \E m \in VideoModes : ftDrv' = ft_init(ftDrv, m, "mode")
  /\ UNCHANGED <<ftChip, ftUse>>

\* A screen is drawn, or the pointer over the kept one.
Page ==
  /\ Idle /\ ftUse.has /\ ftPast.pages < MaxPages
  /\ \E pointer \in Pointers :
       \/ \E page \in Pages : ftDrv' = [ftDrv EXCEPT !.todo = ft_frame(page, pointer)]
       \/ ftUse.frameLen > 0 /\ ftDrv' = [ftDrv EXCEPT !.todo = ft_pointer_frame(pointer)]
  /\ ftPast' = [ftPast EXCEPT !.pages = @ + 1]
  /\ UNCHANGED <<ftChip, ftUse>>

-----------------------------------------------------------------------------
(* The steps of what APP has to do.                                        *)

Next1(what) == ftDrv.todo # <<>> /\ Head(ftDrv.todo) = what
Calls == {"dlstart", "clear", "swap", "append", "mediafifo", "loadimage", "memcpy", "circle", "rect", "button",
          "gauge", "gradient", "pointer", "slider", "text", "toggle", "bitmap"}

\* ft_wait_for_command_buffer(); of a chip that is not there both registers read the same.
Emptied(c) == c.run # "active" \/ c.queue = <<>>
Waits ==
  /\ Next1("wait") /\ Emptied(ftChip)
  /\ ftDrv' = [ftDrv EXCEPT !.todo = Tail(@)]
  /\ UNCHANGED <<ftChip, ftUse, ftPast>>

\* ft_start_cmd() .. ft_end_cmd(): no look at the room there is.
Unread(addr, rd) == (addr - rd) % FifoWords
Sends1(call, rest, use) ==
  LET n == Words(call)
  IN /\ ftDrv' = [ftDrv EXCEPT !.todo = rest, !.addr = (@ + n) % FifoWords]
     /\ ftChip' = IF ftChip.run = "active" THEN [ftChip EXCEPT !.queue = Append(@, call), !.wr = ftDrv'.addr] ELSE ftChip
     /\ ftUse' = use
     /\ ftPast' = IF ftChip.run # "active" THEN ftPast
                  ELSE [ftPast EXCEPT !.overrun = @ \/ Unread(ftDrv.addr, ftChip.rd) + n >= FifoWords,
                                      !.astray = @ \/ ftDrv.addr # ftChip.wr]
Group == \E call \in Calls : Next1(call) /\ Sends1(call, Tail(ftDrv.todo), ftUse)

\* ft_frame_end() keeps a frame that the chip has a length of.
KeepFrame ==
  /\ Next1("keep")
  /\ IF ftChip.run = "active"
     THEN Sends1("memcpy", Tail(ftDrv.todo), [ftUse EXCEPT !.frameLen = 1])
     ELSE ftDrv' = [ftDrv EXCEPT !.todo = Tail(@)] /\ ftUse' = [ftUse EXCEPT !.frameLen = 0] /\ UNCHANGED <<ftChip, ftPast>>

\* ft_write_gram() of a picture and of the pointer, which drops the kept frame.
Memory ==
  /\ Next1("data") \/ Next1("ft_mouse_load")
  /\ ftDrv' = [ftDrv EXCEPT !.todo = Tail(@)]
  /\ ftChip' = IF Next1("data") /\ ftChip.run = "active" THEN [ftChip EXCEPT !.logo = "data"] ELSE ftChip
  /\ ftUse' = IF Next1("ft_mouse_load") THEN [ftUse EXCEPT !.frameLen = 0] ELSE ftUse
  /\ UNCHANGED ftPast

FtNext ==
  \/ ChipTakes \/ ft_power_cycle \/ Wake \/ CheckId \/ ft_sample_clock \/ CheckClock
  \/ Started \/ StartFails \/ ModeSet \/ ModeFails \/ BackFails
  \/ BootCoreLoad \/ OtherCoreLoad \/ KeySpace \/ KeyG \/ set_mode \/ Page
  \/ Waits \/ Group \/ KeepFrame \/ Memory

-----------------------------------------------------------------------------
(* Properties.                                                             *)

\* What is on the display is a whole screen, with the pointer or without, and its pictures
\* are in the memory: no screen is seen half drawn, mixed with another one, or with what is
\* left of a reset.
Whole == {page \o pointer : page \in Pages \cup {<<"clear">>}, pointer \in Pointers}
ScreensWhole ==
  /\ ftChip.shown \in Whole \cup {<<>>}
  /\ "bitmap" \in ToSet(ftChip.shown) => ftChip.logo = "picture"

\* Commands are where the chip reads them, and none is overwritten before, with screens
\* that fit into the FIFO; but for a chip that came up in neither of two modes.
FifoRight == ftPast.lost \/ (~ftPast.overrun /\ ~ftPast.astray)

\* The frame the pointer is drawn over is one of this chip since its last reset.
KeptTrue == Idle /\ ftUse.has /\ ftUse.frameLen > 0 /\ ftChip.queue = <<>> => ftChip.kept \in Pages

\* The display is switched to the chip exactly while the graphic menu runs, and then there
\* is a picture at the clock of the mode, unless a mode and the one before it both failed.
SwitchesFit ==
  Idle => /\ ftUse.vga = ftUse.has /\ ftUse.spi = ftUse.has
          /\ ftUse.has /\ ~ftPast.lost => ftChip.clk = ftUse.modeCur /\ (ftChip.queue = <<>> => ftChip.shown # <<>>)

\* The tries that are reported are those that were made, with a reason for each that
\* failed; no word goes to a sleeping chip at the full clock.
TriesCounted ==
  /\ ftDrv.at \in {"up", "failed"} => ftDrv.attempts = ftPast.cycles /\ ftDrv.attempts \in 1 .. 3
  /\ ftDrv.at = "up" => ftDrv.failures = ftDrv.attempts - 1
  /\ ftDrv.at = "failed" => ftDrv.failures = 3
  /\ ftDrv.slow = (ftDrv.at \in {"power", "wake", "id", "sample"} /\ ftPast.cycles > 0)

\* The letters of a text all go out, and its end is in its last word.
TextsEnd ==
  \A n \in 0 .. 12 : LET w == send_text[n]
                     IN FoldLeft(+, 0, w) = n /\ \A i \in 1 .. Len(w) : (w[i] < 4) = (i = Len(w))

FtRight == ScreensWhole /\ FifoRight /\ KeptTrue /\ SwitchesFit /\ TriesCounted /\ (ftPast.starts = 0 => TextsEnd)
=============================================================================
