# TLA+ models of the Karabas Go firmware

Karabas Go is a family of FPGA retro computers. The firmware of this repository
runs on the RP2040 beside the FPGA: it loads the cores (bitstreams), draws the
menus, mounts disk images, drives keyboards, mice, pads, a printer, a WiFi module,
the clock and the SD cards, and talks to the running core over SPI. This directory
holds formal models of what is hard to test in it: tasks that interleave, links and
cards that fail, answers that come late, long sequences of legal calls.

Paths below are relative to the root of the repository (`src/periph/printer.c`
and so on); in `PROJECT.json` they carry the prefix `src/`, the directory the
repository is checked out in.

Contents: [inventory](#inventory), [modules](#modules), [runs](#runs),
[fairness](#fairness), [proofs](#proofs), [findings](#findings),
[what is not modelled](#what-is-not-modelled), [plan](#plan).

## Inventory

### Tasks

FreeRTOS on two cores (`src/main.c`). Nearly all interaction goes through these
tasks:

| Task | Core | What it does |
| --- | --- | --- |
| APP | 0 | `karabas_loop()`: polls the link, **the only task that dispatches received frames**, then ticks every periodic job: menus, file mounter, saves, printer adapter, clock, WiFi, serial bridge. Handlers of link frames run on APP, nested in whatever `spi_send()` APP is in. |
| INPUT | 0, above APP | takes events from a queue, polls the joysticks, sends them to the core; hands presses to APP and waits up to 500 ms for it when they are a hotkey. |
| MATRIX | 0, above APP | the frames of the LED matrix, its buttons. |
| USBD | 0, above APP | the USB device side: serial port, mass storage callbacks. |
| USB | 1 | `usb_host_loop()`: the TinyUSB host over PIO-USB; keyboards, mice, pads, MIDI, USB-UART, the printer's class driver. |
| alarms | interrupts | the typematic repeat of the PS/2 keyboard. |

They share state through the recursive SPI bus lock, the I2C lock,
`usb_host_lock()` (a mutex between the cores), FreeRTOS queues and volatile flags.

### Components

| Component (code) | State | Operations | Hard | What makes it correct |
| --- | --- | --- | --- | --- |
| Printing service (`periph/printer.c`) over its USB driver (`usb/printer_host.c`) | ring, block in flight, session, reset flags; device, pipes | write for a session, reset, USB events, tick | three locked sections per tick, two cores; lost printers, failed transfers | bytes conserved, at most once, in order; jobs never mix; resets end |
| Printer adapter (`periph/printer_link.c`) | active, deferred byte, last status | frames, tick, reset | the core caches BUSY; frames are lost; cores are replaced | no byte lost to a full queue, BUSY clears, a new core starts clean |
| SPI link (`fpga/link.c`) | bus owner and depth, receive and event queues | send, dispatch, bursts, capability query | recursive lock, nested handlers, core loads | exclusive bus, wire order, no frame of an old core, calls end |
| File mounter (`storage/img_mount.c`) | request being received, buffer, sync timer | request frames, serve, sync | lost frames, repeats without identity, resets of the machine | a sector is right or refused, requests end, data is synced |
| SD cards (`lib/sd`, `storage/sd2.c`), mass storage mode (`storage/msc.c`) | the transfer kept open, last error; who owns the card | commands, retries, end; start, eject, reboot | a transfer open across calls, tasks and reboots | another command only after the end of the transfer; one owner |
| Saves: EEPROM, backup RAM, `.SAV` disk (`fpga/core_loader.c`, `storage/core_state.c`, `bk_save.c`, `uknc_sav.c`) | bytes and what the card holds, timers; flush handshake; files | register write, flush, install | late answers, failed card calls, power cuts | saved in time, by its own answer, whole or not at all |
| Settings files (`storage/settings.c`, `core_state.c`, `lib/common/ini_*.c`) | values, what the file holds, retry timer | load, change, save, reset | several card calls, power cuts, two parsers | no value lost, the user's lines kept, saves retried |
| Core loading (`fpga/core_loader.c`, `bitstream.c`, `lib/common/core_file.c`, `kg2_format.c`) | items, sections, the running core | `configure()`: read, flush, bitstream, setup, ROMs, OSD | order of steps, DMA, damaged files | the whole file, once, at its place; nothing of one core reaches the next |
| Input (`input/*.c`, `usb/hid_*.c`, `lib/common/hid_*.c`) | reports, queue, what the core has; drivers, ports, learned rules | reports, hotkeys, plugging, learning | hand-over with a timeout, full queue, tables replaced under a reader | no key stays held, a hotkey handled once, a pad has the driver of the table |
| Serial, MIDI, WiFi, NTP (`periph/*`, `usb/midi_host.c`, `lib/common/esp_at_parse.c`, ...) | rings, AT dialogue, screens | bytes, commands, lines, timeouts | late answers, plugging, screens left | bytes in order, an answer belongs to its command, what is shown is so |
| Clock (`lib/rtc/rtc.c`, `lib/common/time_zone.c`) | registers of four chips, the board's clock | core writes, poll, setting | half-written dates, cores that change | never an impossible date, nothing written is lost |
| LED matrix (`periph/matrix.c`, `lib/common/matrix_fx.c`) | mode, text, buffer | draw, load, frames, buttons | APP preempted anywhere, the core's drawing | only the running core draws, no write beside the buffer |
| Screens (`apps/*.c`, `ui/*.c`, `lib/osd`, `lib/ft812`) | cursor, lists, edited copies, the chip's FIFO | keys, clicks, ticks | entering and leaving while something runs, hotkeys | what is shown is what is meant and what is kept |

All interact through APP's loop: the core asks over the link (sectors, clock
registers, printer bytes, MIDI, matrix), the handlers change a component's state, the
ticks answer. `configure()` is where they all meet: it flushes every save, silences
the adapters, replaces the core and starts it.

Every hazard found while reading is listed in `PROJECT.json` ("hazards") with the
line where it bites and the properties that notice it. Every component, also those
left out, is under "components" with what its model leaves out.

## Modules

Definitions whose comment says *Mutant* (their names end in `_something`) are wrong
variants of the definition that follows; they are no part of the model and show that
a property notices the bug. `PROJECT.json` ("map") gives the lines each definition
stands for; they are 30 % of the implementation (a third of
which is the image data of `ui/bitmaps.h`).

| Module | Models |
| --- | --- |
| `PrintStream` | abstract: what a print service promises its producer |
| `PrinterService` | `periph/printer.c` over `usb/printer_host.c`; refines `PrintStream` |
| `PrinterLink`, `MCPrinterLink` | `periph/printer_link.c`, a core that prints, core replacement; **composed** with `PrinterService` |
| `FileMounter`, `MCFileMounter` | `storage/img_mount.c` with a core and a lossy link |
| `SpiLink` | `fpga/link.c`, tasks as call stacks |
| `StateFile` | the ini reader and writer, pure; `ini_file_update()` and its two users, call by call |
| `SdCard`, `MscMode` | `lib/sd/sd_card.c`; **composed** with the mass storage mode (`storage/msc.c`, `sd2.c`) |
| `BackupSave` | `storage/bk_save.c` with a core whose game changes its RAM |
| `UkncSav` | `storage/uknc_sav.c`; `lib/common/rt11_volume.c` |
| `CoreEeprom` | the EEPROM save of `core_loader.c` and `core_state.c` |
| `Rtc` | `lib/rtc/rtc.c` |
| `Matrix` | `periph/matrix.c`; `lib/common/matrix_fx.c`, `matrix_meter.c` |
| `FtChip` | `lib/ft812/ft812.c` and its callers |
| `CoreStart` | `fpga/bitstream.c`, capability query, setup, bursts, ROMs, `lib/osd/osd.c` |
| `CoreFile`, `CoreMenu` | core files of both formats, their items; **composed** with the menu of a core (`apps/app_core.c`, `ui/osd_ui.c`) |
| `FileLoader`, `BootMenu`, `SetupScreens` | `apps/app_file_loader.c`; `app_core_browser.c` with `kg_list.c` and `file_name.c`; the setup screens |
| `InputRouting`, `Ps2Keyboard`, `MousePointer` | `input/input.c` with its tasks and the buttons; `ps2kbd.c`; the mouse and `ui/ft_mouse.c` |
| `UsbPads`, `PadMaps` | `usb/hid_app.c` and `hid_driver.c`; the algorithms of `hid_joy.c`, `hid_desc.c`, `hid_learn.c`, `sega.c`; `apps/pad_learn.c` and its screens |
| `UsbAdapters`, `SerialBridge` | `periph/usb_uart.c`, `usb/midi_host.c`; `serial_bridge.c` (uses the adapter) and the keys typed by a host |
| `EspAt`, `WifiSetup`, `ClockPage` | `periph/esp_at.c`; **composed** with `wifi_setup.c` and its screens, and with `ntp_sync.c` and the clock screens; `time_zone.c`, `masked_input.c` |
| `PrinterProofs`, `SpiLinkProofs`, `StorageProofs`, `BoardProofs`, `InputProofs`, `SerialProofs`, `MenuProofs`, `CoreMenuProofs` | no code: the theorems, see [proofs](#proofs) |
| `MCStorage`, `MCBoard`, `MCMenus`, `MCInput`, `MCUsb`, `MCSerial` | no code: they put parts that share no state into one run; a variable picks the part and the others stand still |

How state and actions correspond to the code, where it is not obvious:

* **What is one step.** On APP alone (menus, clock, EEPROM, files) an event and its
  handler are a step, since nothing is dispatched in it unless a `spi_send()` is in it.
  Where tasks share state, a step is what cannot be interrupted: a locked section, a
  callback of a task above, a read or a write of a volatile flag. Where the power can go
  or a call can fail, a step is one call of FatFs.
* **PrinterService.** `printer_usb_tick()` takes the lock up to three times, so `usb_pc`
  tells between which sections it is; steps of APP happen between any of them. The ring
  is the sequence of its bytes, a byte its number in the offered stream and its session.
* **PrinterLink.** Each call into the service is a locked section and the USB task runs
  between them. `SwitchReset .. SwitchCore` are `configure()`: adapter reset, then the
  flush of the backup RAM, during which a core that has one still has its frames
  dispatched, then reception off. The core's side is external.
* **FileMounter.** A transfer carries a frame each way, so every frame sent may pull one
  of the core. `ServeStart .. ServeAnswer` is `img_serve()` with the frames that arrive
  in between. An LBA has 2 bytes for 4, a sector 2 for 512. The sum is ideal.
* **SpiLink.** A task is what is left of its C call stack: a sequence of steps; a call
  puts its body in front. So nested handlers, the recursive lock and `configure()` with
  its sends are the code's own control flow. Each step carries the lock nesting it is
  *written* at; `LevelRight` compares it with the code's counter.
* **SdCard.** A card with its driver is one record; a function of the driver maps it and
  the set of what goes wrong in the call to the next one. `MscMode` makes its steps of
  them; `msc_tick()` is three, one for each look at a flag of USBD.
* **UkncSav.** A file is what it holds and whether it is whole; FatFs does not lock files
  (`FF_FS_LOCK 0`), so a slot goes on with the same file under a new name.
* **CoreEeprom.** Time passes in units longer than one turn of the loop: `Elapse` at most
  once between two `Tick`s. `waited` and `touched` are ghosts.
* **StateFile.** `Updated` is the text `kg_ini_update_line()` puts out; it was compared
  with a literal left-to-right transcription over all texts of up to five lines. A file
  has no length until it is closed.
* **CoreStart.** The DMA, the state machine and the core are actors of their own: halves
  of the buffer are filled while the other goes out. `OsdTrue` compares the cells the
  core was sent with what was drawn.
* **CoreMenu.** The statics of `app_core.c` and the slots are one record `m`. In
  `Coincidences` are the meetings the code does not handle; without them the properties
  hold, with each of them one fails (see [findings](#findings)).
* **MousePointer, Matrix, FtChip.** A frame is what was drawn of a screen; a screen never
  seen half drawn is a property of the order of the calls, not of pixels.
* **EspAt.** Each line of the module carries, as history, the command it answers; the
  module works on one command and takes no other meanwhile, and a command that was given
  up is still answered.
* **PadMaps, the lists and names of BootMenu, the calendar of ClockPage, RT-11, the
  effects of Matrix, the section tables.** Pure algorithms: an operator from the code
  beside a definition of what it should give, over bounded inputs. `ClockPage` steps a
  calendar day by day beside the arithmetic from December 1999 to 2099.

Ghost ("history") variables are named `...Past`, or say so in their comment; no guard
reads them but the bounds on how often something happens.

## Runs

Bounds are constants of the modules, guards use them, and no run has a state
constraint. What is scaled down is always scaled so that the boundary it has in the
code is met: a queue gets full, a block wraps, a page has a second one.

| Run (module) | Properties | Bounds, and why they suffice |
| --- | --- | --- |
| `printer_service` (`PrinterService`) | `Conservation`, `DeliveryKnown`, `StreamSpec` (refinement), `Finishes` (liveness) | queue 2, block 2, 3 bytes: the ring gets full, wraps, a block is shorter than the queue or all of it; 2 printers: plug out in flight and plug in; 1 reset: each window of the tick |
| `printer_link` (`MCPrinterLink`) | `PrintedOnce`, `ReserveHolds`, `CoreChanges` | queue 2, reserve 1, 2 frames in transit (= reserve + deferred byte, the limit the design allows), 4 bytes: 2 queued, 1 deferred, 1 in transit; 1 printer that may go, 1 switch |
| `printer_link_live` (`MCPrinterLink`) | `BusyClears` (liveness) | 1 byte, 1 printer, 1 switch with its reset; liveness needs the recurring frames, not many bytes |
| `file_mounter` (`MCFileMounter`) | `SectorsMoveRight`, `Answered`, `Synced` (liveness) | 2 requests: leftovers of the first can hurt the second; 2 faults (in the request and in the answer) and more repeats than they can cause; 1 reset of the machine; two sectors that differ in both bytes of the LBA, two contents |
| `spi_link` (`SpiLink`) | `BusRight`, `FramesRight`, `CallsAndFramesEnd` (liveness); deadlock | 2 tasks (a third would be a second INPUT), queue 2, 4 frames: it overflows; 1 core load |
| `storage` (`MCStorage`, 0.3 million states) | `FileKept`, `KnownTrue`, `CardAndMscRight`, `StorageEnds` (liveness) | all files of up to one line of 4 kinds or of a header and a line, some longer ones and none; 2 kept values in two sections, 2 failures of any call, 2 changes: a retry after a failure with changed values. 2 cards of 2 sectors with 2 contents, calls of up to 2 sectors, all that can go wrong in a call |
| `state_file_rename` (`MCStorage`) | `NothingLost`, **violated** | 1 failure |
| `board` (`MCBoard`, 1.5 million) | `SaveRight`, `DiskRight`, `DirtyCounts`, `SavedInTime`, `NothingWaits`, `ResetForgets`, `BoardRight` | see below |
| `menus` (`MCMenus`, 0.5 million) | `FilesRight`, `CoreMenuRight`, `BrowseRight`, `SettingsHonest`, `AutoloadIsChosen` | see below |
| `input` (`MCInput`, 3.1 million) | `KeysRight`, `ButtonsRight`, `PointerRight`, `InputRight` | see below |
| `usb_pads` (`MCUsb`, 3.6 million) | `PadsRight`, `MapsRight`, `LearnRight` | see below |
| `serial` (`MCSerial`, 5.3 million) | `SerialRight`, `WifiAndTexts`, `TimeRight` | see below |

`CHECK_DEADLOCK FALSE` in the other runs: a behaviour ends when its bounds are used up,
the core ran out of bytes, or the machine rebooted.

### What the large runs check

**`storage`**: no save loses a value or a line it does not write, whenever the power goes
(`FileKept`), and what the firmware takes for the file's values is so (`KnownTrue`). A card
transfer that reports success moved exactly the sectors that were asked for, no command ever
goes into an open transfer, the PC has the card alone, and the machine restarts with the
first card idle (`CardAndMscRight`). A change gets into its file however many tries fail; an
eject and a missing second card end in a reboot (`StorageEnds`).

**`board`**, one part at a time:

* *Backup RAM* (`SaveRight`; 2 games, 2 changes, 1 failed call, answers at any time): a
  flush is confirmed only by its own answer, a change made before it is then in the file
  of *its* game.
* *The disk of a `.SAV`* (`DiskRight`; 2 disks made, 2 drives, power cuts between any two
  calls; directories of one and two segments, full ones, names taken): it comes in the
  place of the one before or not at all (`SavRight`), and is a whole RT-11 volume: the
  files of the template stay as they were, the new one is there and whole, or the volume
  is refused (`VolumeRight`).
* *EEPROM* (`DirtyCounts`, `SavedInTime`, `NothingWaits`, `ResetForgets`; 2 bytes and 2
  values for overlapping and undone changes; a kgo1 core with backup RAM, a kgo2 core
  without; times 1, 3, 2): the counter is true, a change is tried to be saved in time
  whatever the core goes on writing, nothing waits when a core is left, a reset forgets.
* *Clock, matrix, effects, FT812, start* (`BoardRight`): never an impossible date, what a
  core wrote stands; while a core loads only its bar is on the matrix; no step writes
  beside the buffer and the game goes on; no half-drawn screen, no command overwritten in
  the FIFO of the FT812; the bitstream whole through two halves of the buffer, every ROM
  byte once at its address in bursts and frames, the text OSD as it was drawn.

**`menus`**: files of both formats with conditions, defaults, saved values and section
tables that overlap, end early or are in any order (`FilesRight`); a menu with pages and
conditions, one with two drives under a line of text, one of a loader core with a drive
(`CoreMenuRight`: the cursor is on
an item that is shown, the list is the slot's, the images the core has are those the
slots name, what was changed is kept); lists, names and paths of up to 5 characters, the
boot core's list on both screens with its countdown (`BrowseRight`); four settings on both
setup screens, a video mode that does not come up (`SettingsHonest`); the last file of a
loader core (`AutoloadIsChosen`).

**`input`**: `InputRight`: an event is told handled only after APP looked, the press of a
hotkey does not reach the core, once nothing moves the core has the keys that are held, the
OSD is not closed by the Esc that opened it. Queue of 2 (gets full, as a report has two
packets), 4 inputs of 3 reports, 2 turns of a joystick, a core load. `KeysRight`: 4 keys and a
modifier, 3 reports, 2 repeats that meet breaks. `ButtonsRight`: a bouncing button and
turns of any length up to 14 time steps. `PointerRight`: 4 places, moves that go over both
ends and leave remainders.

**`usb_pads`**: 2 pads, 2 indices, one default map for two that want one, 2 drivers of 3
files, one replacement of the table, 3 plug events (`PadsRight`); rules, descriptors and
axes of every small shape, with report ids, usage lists that are too long, pushes
(`MapsRight`); 2 buttons learned on 2 screens, 4 reports, 4 keys, a swapped pad
(`LearnRight`).

**`serial`**: 2 adapters, rings of 1 and 2, 3 bytes, 1 speed of two registers; the MIDI
queue at its limit, a core load; texts of 6 characters that start, break off and finish
commands; 4 injected lines with room for 4 reports (`SerialRight`). WiFi: 2 networks, 1 late
command, 4 keys; names of 4 characters with quotes and commas (`WifiAndTexts`). Clock: 2
zones, 4 keys, a late answer; a century of days (`TimeRight`).

### Conditions in properties

Some properties hold under a condition that is part of their statement; the condition is
always something the code does not handle, and most have a finding.

* `FileMounter`: `CutOrLost`. A request cut by a reset of the machine leaves its LBA mask
  behind; a following request whose *first* frame is lost is completed by it. Stated for
  cuts without losses and losses without cuts. And `Prompt`: answers within 200 ms.
* `StateFile`: `LostOnlyAlone`, `RestKept`, `KnownTrue` say nothing from a rename that
  failed until the next load (ghost `alone`): there values are lost, which
  `state_file_rename` shows.
* `PrinterLink`: `ReserveHolds` for at most `Reserve + 1` frames in transit; the cores of
  the run have no backup RAM.
* `InputRight`: but for a byte whose last packet met the OSD or a full queue or was
  followed by a core load; a hotkey but for the 500 ms that ran out.
* `KeysRight`: in the XT set a repeat that crossed the break of its key.
* `MousePointer`: reports whose move fits a byte.
* `CoreMenu`, `FileLoader`, `UkncSav`, `PadMaps`: the constants `Coincidences`,
  `CutInSave`, `Spellings`, `ReportIds` leave out the cases the findings name.
* `WifiSetup`, `EspAt`: after a command was given up, lines are not trusted until the
  module was idle again; names that hold the text that ends them.

## Fairness

Stated only where a run checks liveness or a refinement with it:

* `PrinterService`: `usb_host_loop()` never stops, a device answers what it was sent or
  times out (strong fairness on the completions because an unplug disables them), and the
  control pipe is free again and again: the port status is read once per second, so a
  reset that finds the pipe busy is tried again.
* `PrinterLink`: additionally APP's loop dispatches and ticks; the 100 ms repeat comes due
  again; the wire does not lose every frame of a kind for ever; the core repeats an
  unanswered request.
* `FileMounter`: APP polls and ticks for ever, the core repeats what got no answer (200
  ms). No fairness is assumed against losses, which are bounded.
* `SpiLink`: a task that can run, runs; a task that waits for the mutex gets it some time
  (strong fairness: FreeRTOS mutex with priority inheritance, and the holders rest between
  events); APP dispatches in each turn of its loop.
* `storage`: APP goes on with what it does and its loop calls `core_state_tick()` and
  `msc_tick()`; its 5 s end: one of the ticks, which come again and again, finds them over
  (strong fairness). Failures and changes are bounded.

The other runs need none: their time bounds are safety properties (`SavedInTime`: the
clock cannot pass a tick), and what ends is stated as "nothing waits without someone who
will end it" (`BusyEnds`, `NoDeadScreen`), so that no scheduler is assumed.

## Proofs

TLAPS checks the theorems of the `*Proofs` modules for every value of the constants that
fits the named `ASSUME`s. Each proof has the same shape: an inductive invariant, a lemma
per action with one step per conjunct of it, and the properties as consequences. TLC
checked each invariant on a small instance before it was proved. Where a theorem has a
hypothesis of its own, the case it leaves out is named here, and is one the code does not
handle.

| Module | Theorem | Property of a run |
| --- | --- | --- |
| `PrinterProofs` | `TypeCorrect`, `BytesConserved`, `OneSession`, `CountersTrue`, `ResetAlone`, `ServiceIsStream`, `NoReplay` | `Conservation`, `DeliveryKnown`, `StreamSpec`, `PrintedOnce` |
| | `LinkInvariant`, `LinkNoReplay`, `LinkOneSession`, `ReserveEnough`, `CoresClean` | `PrintedOnce`, `ReserveHolds`, `CoreChanges` |
| `SpiLinkProofs` | `TypeCorrect`, `BusHeld`, `WireOrder`, `CoresApart`, `ValuesWhole`, `FramesKept` | `BusRight`, `FramesRight` |
| `StorageProofs` | `MountInvariant`, `MountTypeCorrect`, `SectorsAreMoved` | `SectorsMoveRight` |
| | `MscTypeCorrect`, `CardTransfersRight`, `CardsHandedOver`, `CardKept` | `CardAndMscRight` |
| `BoardProofs` | `TypeCorrect`, `DirtyTrue`, `PrevTrue`, `AllSaved`, `InTime`, `ResetTrue` | `DirtyCounts`, `NothingWaits`, `SavedInTime`, `ResetForgets` |
| | `BackupInvariant`, `SaveIsRight`, `DiskInvariant`, `DiskKept`, `SavIsRight` | `SaveRight` (`SavRight` is a part of `DiskRight`) |
| | `RtcInvariant`, `RtcIsRight`, `MatrixInvariant`, `MatrixIsRight` | `RtcRight`, `MatrixRight` (parts of `BoardRight`) |
| `InputProofs` | `RouteInvariant`, `InputIsRight`, `ButtonInvariant`, `ButtonsAreRight`, `PointerIsRight`, `PadsInvariant`, `PadsAreRight`, `LearnInvariant`, `LearnIsRight` | `InputRight`, `ButtonsRight`, `PointerRight`, `PadsRight`, `LearnRight` |
| `SerialProofs` | `UartInvariant`, `UartIsRight`, `MidiInvariant`, `MidiIsRight`, `BridgeInvariant`, `BridgeKeepsBytes`, `InjectInvariant`, `NoPressDropped` | `UartRight`, `MidiRight`, most of `BridgeRight` and of `InjectRight`, the parts of `SerialRight` |
| `MenuProofs` | `SettingsInvariant`, `SettingsAreHonest`, `PairInvariant`, `AutoloadRight`, `BootInvariant`, `StartsMeant`, `BarTrue` | `SettingsHonest`, `AutoloadIsChosen` (`MeantCoreStarts` and `BarRight` are parts of `BrowseRight`) |
| `CoreMenuProofs` | `MenuInvariant`, `MenuIsUsable`, `CoreMenuIsRight` | `CoreMenuRight` |

**PrinterService.** The properties are not inductive by themselves: which bytes leave the
queue when a completion comes depends on which block the driver holds, and that on where
the USB task is. `TypeOK /\ Safety` adds `Blocks` (what `in_flight`, `staging` and `tx_buf`
mean at each `usb_pc`, and that the block the driver holds is in flight) and `Resets` (when
`resetting`, `reset_submitted` and the control pipe can be combined). `ServiceIsStream` is
the refinement: every step of the service is a step of `PrintStream` or a stutter;
`OnWire` says which bytes the transfer in flight may have put on the wire. `NoReplay` needs
that the completed, the uncertain and the queued bytes follow each other (`InOrder`).

**PrinterLink.** `LinkInv` joins the service's invariant to the adapter's: the byte that
is deferred is newer than the queue (`Newer`), frames on the line are newer still and in
order (`Line`), and a byte is deferred, or about to be offered, only while the printer is
up in its session (`PendUp`).
`ReserveEnough` counts: the bytes between the core and the queue fit into the room that is
left when BUSY is not shown. It says so for `Depth <= Reserve + 1`, the limit of the
design, which `ReserveHolds` has as its own condition. `CoresClean` assumes `NoSaves`, no
core with backup RAM: `bk_flush()` dispatches frames of the old core after the adapter was
reset, see `OldCoreSilent` in [findings](#findings).

**SpiLink.** `LinkInv` is `TypeOK` with four parts. `TodoRight` describes the call stacks
a task can have (what is left of a call, at which nesting it was written, whether it has
the bus); `LockRight` ties the mutex, its owner and `spi_bus_depth` to them; `GotRight` and
`QueueRight` say that what was received and not handled follows, in the core's order, what
was handled, and is of the core that runs. Any number of tasks, any nesting of handlers.

**FileMounter.** `MountInv` says, for each phase of a request, what may be on its way in
both directions, that the LBA and the buffer of the mounter agree with the request as far
as they were received (`LbaRight`, `WriteRight`), and that what is being answered is
what was asked (`ServeRight`). Hypothesis `Prompt = TRUE`: answers within the 200 ms after
which the core asks again. The protocol numbers nothing; a later answer is taken for that
to the next request (finding 7).

**MscMode.** First the card as a function: lemmas for `command`, `sd_card_sync`, reads,
writes, retries and both cards say what every outcome of a call leaves (`Sound`: no
command went into an open transfer; `Open`, `Ready`: driver and card agree on the
transfer and its place). Then the tasks: `Owners`
(flags and program counters of APP and USBD say who has the card) and `Cards`.

**CoreEeprom.** `Phases` (configure() runs exactly while there is a reason), `DirtyCounts`
with the effect of one write on the set of changed bytes and on its cardinality, `Stored`
(prev_val is what the file holds, in every phase), `Fresh`/`Punctual` (the oldest change is
at most as old as `eeprom_first_change` says, and a due save was tried in the last turn),
`Forgotten` (a reset deleted the file). Hypotheses:

* `PrevTrue`, `AllSaved`: `"close" \notin Faults`. `core_loader.c:255` ignores the result
  of `sd_close()` for a kgo1 core. A card that fails only then leaves `prev_val` different
  from the file, and TLC finds that with `Faults = {"close"}`;
* `ResetTrue`: `Bk \cap Kgo2 = {}`: the case left out is a finding.

**BackupSave, UkncSav.** `SaveInv`: the file that is open is of the game whose sectors are
on their way (`OneGame`), a request that a flush left behind is whole and served before the
next mount (`Requested`), and a flush that was confirmed found everything served
(`Flushed`). `DiskInv` gives for each call of making a disk what the temporary file, the
disk and the old disk are (`Run`), with the power cut between any two. Hypothesis of
`SavIsRight`: `Spellings = {"code"}`; the other spelling is finding 6 (`DiskKept` holds for
any).

**Rtc.** `RtcInv`: the fields are in the mode of register B as the core was sent it, as its
bank holds it, and as the core last wrote it (`ModesTrue`); what was sent is the clock's
(`FreshTrue` with `SeenRight`); what a core wrote, register by register, agrees with the
fields, and with the digits while an MSM6242B's wait for the pause (`WantTrue`); digits wait
under another core only if they are the last core's (`LateTrue`). Any cores, banks, numbers
of writes, polls, loads and settings. The conditions of `WrittenStands`, `SeenRight` and
`ModeKept` are ghosts; the attempt at the proof showed two that were missing from `twin`: a
write equal to the one before is skipped also when the poll changed the register meanwhile
(the seconds come round), and the digits of a last core make `read_all()` take back the mode
of a core that has no bank for it. Both are in the model now, with cores and values for
which TLC meets them.

**Matrix.** `MatrixInv` says of mode and picture together (`Fits`) what holds at every
call of APP that a frame of the task can come between: the mode is *loading* exactly in a
load, and from its first flush on only the bar is in the buffer and on the display
(`LoadFits`); an unlit matrix shows nothing (`DarkFits`); a picture of a core is the running
one's, and that core has the matrix (`CoreFits`); passes are counted for the settings that
are (`RepeatFits`); the mode of a running core is its own, the end of its repeats or what was
asked for (`RunFits`). `ButtonsTold`: in the middle of a poll the buttons below the next one
are told as the poll saw them, the others as the last one did. Any pictures, settings,
repeats and number of buttons.

**Inputs.** `RouteInv`: where the last packet of a byte is (unqueued, queued, in hand, in
the core), what INPUT waits for and what APP saw, and which Esc the OSD still waits to be
let go. Its proof found that the model let a joystick's Esc count as the keyboard's; the
ghost `letGo` was wrong and is right now. `ButtonInv` says what runs a press has had by
its timers, `MouseInv` sums moves with their remainders; hypothesis `MovesFit`: a move fits
the byte of the frame (finding 19). `PadsInv`: a driver belongs to the table of its
generation once table and generation agree (core1 reads the generation before the table,
APP writes it after); `Looking` says what core1 has read and not yet stored. The port
arithmetic (`SlotsSet`, `SlotsRemoved`) rests on `Least`, that a nonempty set of naturals
has a minimum. `LearnInv`: nothing is learned before the rest is known (`Asking`), the rest is one
state of the pad while the user kept off it (`OneSeen`), all rules and the last report are of
the pad at the captured index (`SamePad`), and the screen shows what there is (`ScreenInv`);
any number of buttons, pads and report ids.

**Serial ports.** No hypothesis but the named `ASSUME`s; rings, counters, adapters and
divisors of any size and number. `UartInv`: what was read, what waits and what the core is
just writing are numbered in one order (`Reads`, `Sends`, `Writes`), the rings hold bytes of
the adapter that is there alone, but for one that was in `core_out()` while it was plugged
(`Own`); the speed a transfer brings is for that adapter (`Speed`); between the two writes of
a divisor one half is the new one and the speed is marked as changed (`Divisor`). `MidiInv`:
a read is armed or its bytes are being sent while a keyboard is there (`Keyboard`); a byte's
count is its number modulo `SEQ` (`Counts`); from the core over the byte in INPUT's hand to
the end of the queue each byte is newer than the one before and follows it in the message if
none is missing (`Chain`), and so does the next one that is sent (`Newest`); what is under
way is for a core that takes MIDI (`Cores`). The proof needs that fewer than `SEQ` bytes are
lost in a row: `MidiRight` says so now, a counter modulo `SEQ` cannot do more. `BridgeInv`: a line
feed is eaten only after a command, of which nothing is held. `InjectInv`: the room that was
asked for when a command was answered OK is still there at its last report (`RoomKept`).

**Screens.** `SetupInv`: the settings in use are the ini's, the display shows the copy
while it is edited and the saved ones elsewhere (`TextScreens`, `Outside`), and a mode that
is only tried keeps its way back while its dialog is open: to the mode of the copy, which
came up (`GraphicSetup`). Which modes do not come up is any set that leaves one.
`LoaderInv`: in both formats the pair of texts on the card is that of the last save that is
done (a kgo1 save is done at once, `PairKgo1`; a kgo2 save when its file is flushed,
`PairKgo2`). Hypothesis of
`AutoloadRight`: `CutInSave = FALSE`; a kgo1 save that loses power between its two writes
is finding 5. `BootInv`: the countdown runs only while the autoload core is under the
cursor, the frame was drawn for that cursor and its areas are cores of its page, whatever
keys, mouse and timer do in between. It needs the bound of the list, `MAX_CORES` (255):
the areas of the buttons start at `HIT_SETUP` (1000). `BarRight` has no invariant; it
follows from facts of the integer division in `kg_list.c`, for lists of any length.

**CoreMenu.** An event goes through several functions of `app_core.c` one after another,
and the record `m` is not as it should be between them. So there is one lemma per function
that says, for any record, what it needs and leaves of `Good`, and the lemma of an action
chains them. `Good` is `Sound` (the image of each slot is the one mounted, a list that was
read is of its slot and dir, a physical drive is in one slot only), `KeptFits` (the card
has the values and images unless a save is due) and `Browsed` (the list that is open is of
the slot under the cursor); inside a step only `Sound` need hold. A slot that is browsed
has another dir than its image: `Mounted` is the slot with the dir it had when its list was
opened, which is what Esc puts back and the core keeps. `MenuInv` adds the items of the
file that runs (`ItemsRight`), who has the keys (`WindowRight`) and the cursor
(`CursorFits`): it is on an item of the page while the menu is drawn, and need not be while
another screen, the popup or a list is. Hypotheses: `Coincidences = {}`, that none of the
meetings of events happens that the code does not handle and that are findings; for
`CoreMenuIsRight` also that the files are kgo2 files, as a kgo1 core saves only the item
under the cursor (finding 4). `MenuIsUsable` holds for both formats. The step of a loader
core could not be proved at first: its files take the place of the list of a slot that is
still marked as read, which is the second half of finding 20.

**Only model-checked:**

* all liveness (`Finishes`, `BusyClears`, `Answered`, `Synced`, `CallsAndFramesEnd`,
  `StorageEnds`): fairness and ENABLED are beyond TLAPS;
* what rests on an induction over data, which the installed provers cannot do: `FileKept`,
  `KnownTrue` (the text `Updated` puts out), `VolumeRight` of `DiskRight`, `KeysRight`
  (the flattened codes of a report), `MapsRight`, `FilesRight`, of `SerialRight` the line
  ends for the ESP (`EspLines`) and what many commands stand for together (`AllOrNone`,
  `LetUp`), and the calendar and texts in `TimeRight` and `WifiAndTexts`;
* the file names in `BrowseRight` (`NamesRight`): folds over texts;
* not proved so far: of `BoardRight` the effects, the FT812 and the start of a core
  (`FxRight`, `FtRight`, `StartRight`); the rest of `TimeRight` and `WifiAndTexts`.

## Findings

Disagreements between the code and its documents or comments, and a few bugs, met while
modelling; lines, quotes and the instance that shows each are in `PROJECT.json`. One has a
run of its own (`state_file_rename`); the others are properties that stand in their module
beside those that hold, and fail with the constants named there.

Saves and files:

1. `NothingLost`: after a failed rename the retry of the save truncates the only copy of
   the settings.
2. `NothingLost` (`MCTypo`): reader and writer of the ini file disagree about a section
   header without its bracket.
3. `ResetForgets`: settings reset of a kgo2 core with backup RAM: a register write during
   `bk_flush()` brings the whole old EEPROM back.
4. `KeptRight`: a switch turned by a hotkey is not saved for a kgo1 core when the cursor is
   elsewhere.
5. `AutoloadIsChosen`: a power cut between the two writes of the last file: another file is
   loaded.
6. `NoneHeld`: "Run SAV" does not find a drive whose path is spelled in the case of the
   card.
7. `ReadIsRight`: an answer later than 200 ms is taken for that to the next request.
8. `RebootsIdle`: reboots without the end of the card's transfer.

Cores and the link:

9. `OldCoreSilent`: frames of a replaced core dispatched by `bk_flush()` make the printer
   adapter talk to the next one.
10. `OnlyMidiCores`: queued MIDI bytes go to a core that takes none.
11. `DocumentedOrder`, `RestInFrames`, `OwnClock`: the order of the start, bursts after a
    fallback, the clock of the first frames are not those of `docs/`.
12. `WrittenStands`: a half-written date is read over by the poll.

Input, USB and screens:

13. `TurnedOnce`: a held switch hotkey turns again with the next key.
14. `XtReleased`: a typematic repeat crosses the break of its key.
15. `Debounced`: after a long turn the first bounce counts.
16. `NothingStuck`: a button stays held when its pad's driver goes away.
17. `SkipUnmaps`, `LetGo`, `ChosenChanged`: the learning of a pad after a step back, and
    with two report ids.
18. `UsedIfPlugged`: the second of two USB-UART adapters is not used after the first went.
19. `CoreMoves`: a mouse move of more than 127.
20. `MenuRight`: the list in the file browser is taken for the slot's after a reload, and
    after the files of a loader core took its place.
21. `ImagesRight`, `OsdHonest`: hotkey of another drive in an open list, events in the 200 ms
    of the OSD's hiding.

Observed without a property: `core_loader.c:255` (above); a value sent by `spi_send_le()`
keeps other *tasks* out (`OthersKeepOut`), not the handlers APP dispatches between its
frames; after a failed join the WiFi status still names the network before; the text clock
screen writes back an old time for fields that were not edited (`clock_edit.h:24`); a
network name that holds `")` is cut (`esp_at_parse.c:28-30`, `NamesWhole` leaves it out);
the skip of a repeated clock write and pending MSM6242B writes survive a core load; the
drive LED effect flashes at its start (`matrix_fx.c:56-60`); `hid2xt` gives PgUp the code
of PgDn; the 1200 baud touch of `usb_device.c` reboots without ending the card's transfer.

## What is not modelled

* Vendored code (`third_party/`): FatFs, PIO-USB, TinyUSB's XInput driver. Their callers
  are modelled from how the code uses them.
* Bitmaps, fonts, colors, coordinates, wording and layout: 11,550 lines of
  `ui/bitmaps.h` alone are image data. The screens are modelled by what they show.
* Diagnostics, platform glue, board tables, linker scripts: no state another component
  reads, or none at all.
* The timing of the FPGA's configuration pins and the bit level of SPI, I2C and PIO; the
  start sequence of an SD card is one step.
* The clock, plasma and fire effects (they fill the buffer cell by cell), the OLED logo.
* The text of driver and descriptor strings, key codes of the PS/2 sets, commands that
  only set parameters (typematic rate, leds).
* The mount frames and physical drives of the file mounter beyond one slot; CDC of the USB
  device.
* Wall-clock times: they are orders and bounds, not milliseconds.

Parts that share no variable are checked in one run but not composed: a behaviour of the
whole firmware would need each other part's bounds at once and finds nothing where no
state is shared. Compositions are where state *is* shared (see [modules](#modules)).

## Plan

Models: done as far as they pay, see above. What could still be added: several slots in
`FileMounter` with `img_mount()` under a pending request (`storage/img_mount.c:150`), and
`SpiLink` with the bursts of `CoreStart` and a third task.

Theorems, in this order:

1. `FtChip`: the FIFO is never overrun; with `FxRight` and `StartRight` all of `BoardRight`.
2. `StateFile`: `FileKept` and `KnownTrue` from laws of `Updated`, which TLC checks on
   bounded texts; the step from the laws to the recursion stays with TLC.
3. `SerialBridge`: `LetUp`, with a ghost for what the last command leaves held.
