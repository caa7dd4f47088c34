---------------------------- MODULE UsbAdapters ----------------------------
(***************************************************************************)
(* The USB-UART adapter: the USB task (core1) mounts the first one that is *)
(* plugged, sets its speed and moves its bytes; APP writes and reads two   *)
(* rings.  Both sides take usb_host_lock(), but cdc_idx and tx_used are    *)
(* also read without it.  Adapters are numbered as they are plugged in.    *)
(* And the MIDI keyboard, whose bytes go over the queue of INPUT.          *)
(***************************************************************************)
EXTENDS Integers, Sequences, SequencesExt

CONSTANTS
  RxSize, TxSize,  \* RX_SIZE, TX_SIZE
  Divisors,        \* what a core writes to DLL and DLM
  MaxAdapters, MaxUartBytes, MaxBauds,  \* bounds
  Cins, MidiQueue, SEQ,  \* the kinds of packets, the room for them in the queue, 256
  MaxMidi, MaxPackets, MaxMidiLoads  \* bounds

NoAdapter == 0
NoXfer    == [unit |-> NoAdapter, baud |-> 0]
BaudOnEnum == 115200

VARIABLES
  cdc_idx,    \* the adapter in use
  plugged,    \* the adapters that are plugged in
  rx, tx,     \* the rings: [unit, n] of each byte
  want_baud, cur_baud, baud_busy,
  xfer,       \* the SET_LINE_CODING on its way
  rate,       \* the speed an adapter really has
  refused,    \* history: the speeds an adapter refused
  serial,     \* APP: [dll, dlm, speed, changed, next]; changed in the last SPEED_SETTLE_MS
  writer,     \* APP in core_out(): the byte between the check and the write, none: <<>>
  got,        \* history: the bytes that reached an adapter
  taken,      \* history: the bytes APP read
  uartPast    \* history: [units, written, sent, bauds]

uartVars == <<cdc_idx, plugged, rx, tx, want_baud, cur_baud, baud_busy, xfer, rate, refused, serial, writer,
              got, taken, uartPast>>
baudVars == <<want_baud, cur_baud, baud_busy, xfer, rate, refused, serial>>

Units == 1 .. MaxAdapters

ASSUME UartAssumption ==
  /\ RxSize \in Nat /\ TxSize \in Nat /\ MaxAdapters \in Nat
  /\ Divisors \subseteq (0 .. 255) \X (0 .. 255)

UartInit ==
  /\ cdc_idx = NoAdapter /\ plugged = {} /\ rx = <<>> /\ tx = <<>>
  /\ want_baud = BaudOnEnum /\ cur_baud = 0 /\ baud_busy = FALSE /\ xfer = NoXfer
  /\ rate = [u \in Units |-> BaudOnEnum] /\ refused = [u \in Units |-> {}]
  /\ serial = [dll |-> 0, dlm |-> 0, speed |-> BaudOnEnum, changed |-> FALSE, next |-> <<>>]
  /\ writer = <<>> /\ got = [u \in Units |-> <<>>] /\ taken = <<>>
  /\ uartPast = [units |-> 0, written |-> 0, sent |-> 0, bauds |-> 0]

-----------------------------------------------------------------------------
(* APP.                                                                    *)

serial_set_speed(dll, dlm) ==
  IF dll = 0 /\ dlm = 0 THEN 256000
  ELSE IF dlm >= 128 THEN 691200 \div (((dlm - 128) * 256) + dll + 1)
  ELSE 115200 \div ((dlm * 256) + dll)

\* serial_data(): the core writes the two registers, one after the other.
Faster(sr, speed) == [sr EXCEPT !.speed = speed, !.changed = @ \/ speed # sr.speed]
SetRegister(sr, r, v) ==
  LET new == [sr EXCEPT ![r] = v] IN Faster(new, serial_set_speed(new.dll, new.dlm))
FirstRegister ==
  /\ serial.next = <<>> /\ uartPast.bauds < MaxBauds /\ uartPast' = [uartPast EXCEPT !.bauds = @ + 1]
  /\ \E d \in Divisors :
       \/ serial' = [SetRegister(serial, "dll", d[1]) EXCEPT !.next = <<"dlm", d[2]>>]
       \/ serial' = [SetRegister(serial, "dlm", d[2]) EXCEPT !.next = <<"dll", d[1]>>]
  /\ UNCHANGED <<cdc_idx, plugged, rx, tx, want_baud, cur_baud, baud_busy, xfer, rate, refused, writer, got, taken>>
SecondRegister ==
  /\ serial.next # <<>>
  /\ serial' = [SetRegister(serial, serial.next[1], serial.next[2]) EXCEPT !.next = <<>>]
  /\ UNCHANGED <<cdc_idx, plugged, rx, tx, want_baud, cur_baud, baud_busy, xfer, rate, refused, writer, got, taken, uartPast>>

\* The speed goes to the adapter once it is still; between the two writes it is not.
\* Mutant: it goes there at once.
still_always(sr) == TRUE
still(sr) == ~sr.changed
SpeedStays ==
  /\ serial.changed /\ serial.next = <<>> /\ serial' = [serial EXCEPT !.changed = FALSE]
  /\ UNCHANGED <<cdc_idx, plugged, rx, tx, want_baud, cur_baud, baud_busy, xfer, rate, refused, writer, got, taken, uartPast>>
usb_uart_set_baud ==
  /\ cdc_idx # NoAdapter /\ still(serial) /\ want_baud # serial.speed
  /\ want_baud' = serial.speed
  /\ UNCHANGED <<cdc_idx, plugged, rx, tx, cur_baud, baud_busy, xfer, rate, refused, serial, writer, got, taken, uartPast>>

\* core_out(): the check, then usb_uart_write() under the lock; a byte of the ZiFi port has a
\* speed of its own.
CoreOut ==
  /\ serial.next = <<>> /\ writer = <<>> /\ cdc_idx # NoAdapter /\ uartPast.written < MaxUartBytes
  /\ uartPast' = [uartPast EXCEPT !.written = @ + 1]
  /\ writer' = <<[unit |-> cdc_idx, n |-> uartPast.written + 1]>>
  /\ serial' \in {serial, Faster(serial, BaudOnEnum)}
  /\ UNCHANGED <<cdc_idx, plugged, rx, tx, want_baud, cur_baud, baud_busy, xfer, rate, refused, got, taken>>
usb_uart_write ==
  /\ writer # <<>> /\ writer' = <<>>
  /\ tx' = IF cdc_idx # NoAdapter /\ Len(tx) < TxSize THEN tx \o writer ELSE tx
  /\ UNCHANGED <<cdc_idx, plugged, rx, baudVars, got, taken, uartPast>>
usb_uart_read ==
  /\ rx # <<>> /\ rx' = Tail(rx) /\ taken' = Append(taken, Head(rx))
  /\ UNCHANGED <<cdc_idx, plugged, tx, baudVars, writer, got, uartPast>>

-----------------------------------------------------------------------------
(* The USB task.                                                           *)

\* Mutant: a transfer that was on its way to the adapter before is still waited for.
idle_again_not == baud_busy
idle_again == FALSE

\* tuh_cdc_mount_cb(): the first adapter; the rings are empty.
tuh_cdc_mount_cb ==
  /\ uartPast.units < MaxAdapters /\ uartPast' = [uartPast EXCEPT !.units = @ + 1]
  /\ plugged' = plugged \cup {uartPast.units + 1}
  /\ IF cdc_idx # NoAdapter THEN UNCHANGED <<cdc_idx, rx, tx, cur_baud, baud_busy>>
     ELSE /\ cdc_idx' = uartPast.units + 1 /\ rx' = <<>> /\ tx' = <<>>
          /\ cur_baud' = BaudOnEnum /\ baud_busy' = idle_again
  /\ UNCHANGED <<want_baud, xfer, rate, refused, serial, writer, got, taken>>

\* tuh_cdc_umount_cb(): a transfer on its way ends without a callback.
tuh_cdc_umount_cb ==
  /\ \E u \in plugged :
       /\ plugged' = plugged \ {u}
       /\ IF u = cdc_idx THEN cdc_idx' = NoAdapter /\ rx' = <<>> /\ tx' = <<>>
          ELSE UNCHANGED <<cdc_idx, rx, tx>>
       /\ xfer' = IF xfer.unit = u THEN NoXfer ELSE xfer
  /\ UNCHANGED <<want_baud, cur_baud, baud_busy, rate, refused, serial, writer, got, taken, uartPast>>

\* tuh_cdc_rx_cb(): one byte; a full ring drops it, an adapter not in use is emptied.
tuh_cdc_rx_cb ==
  /\ uartPast.sent < MaxUartBytes /\ uartPast' = [uartPast EXCEPT !.sent = @ + 1]
  /\ \E u \in plugged :
       rx' = IF u = cdc_idx /\ Len(rx) < RxSize THEN Append(rx, [unit |-> u, n |-> uartPast.sent + 1]) ELSE rx
  /\ UNCHANGED <<cdc_idx, plugged, tx, baudVars, writer, got, taken>>

\* usb_uart_host_tick(): the speed, while the control pipe is free; then the bytes.
SetBaudrate ==
  /\ cdc_idx # NoAdapter /\ want_baud # cur_baud /\ ~baud_busy
  /\ baud_busy' = TRUE /\ xfer' = [unit |-> cdc_idx, baud |-> want_baud]
  /\ UNCHANGED <<cdc_idx, plugged, rx, tx, want_baud, cur_baud, rate, refused, serial, writer, got, taken, uartPast>>
SendBytes ==
  /\ cdc_idx # NoAdapter /\ tx # <<>>
  /\ \E n \in 1 .. Len(tx) :
       /\ got' = [got EXCEPT ![cdc_idx] = @ \o SubSeq(tx, 1, n)] /\ tx' = SubSeq(tx, n + 1, Len(tx))
  /\ UNCHANGED <<cdc_idx, plugged, rx, baudVars, writer, taken, uartPast>>

\* baud_done(): a speed that was refused is not tried again.
baud_done ==
  /\ xfer # NoXfer /\ xfer' = NoXfer /\ cur_baud' = xfer.baud /\ baud_busy' = FALSE
  /\ \E ok \in BOOLEAN :
       /\ rate' = IF ok THEN [rate EXCEPT ![xfer.unit] = xfer.baud] ELSE rate
       /\ refused' = IF ok THEN refused ELSE [refused EXCEPT ![xfer.unit] = @ \cup {xfer.baud}]
  /\ UNCHANGED <<cdc_idx, plugged, rx, tx, want_baud, serial, writer, got, taken, uartPast>>

UartNext ==
  \/ CoreOut \/ usb_uart_write \/ usb_uart_read \/ FirstRegister \/ SecondRegister \/ SpeedStays \/ usb_uart_set_baud
  \/ tuh_cdc_mount_cb \/ tuh_cdc_umount_cb \/ tuh_cdc_rx_cb \/ SetBaudrate \/ SendBytes \/ baud_done

UartSpec == UartInit /\ [][UartNext]_uartVars

-----------------------------------------------------------------------------
(* The MIDI keyboard (midi_host.c): one transfer at a time, armed again from its callback; *)
(* the bytes go with a count into the queue of INPUT, which waits for the bus while a core *)
(* is loaded.                                                              *)

VARIABLES
  midi,     \* [dev, armed, seq, caps]; caps: the core takes MIDI (core_caps of link.c)
  sending,  \* midi_send(): the next byte [i, len, take, core], none: NoneSending
  midiWay,  \* [queue, hand, load, core]: the queue, the byte INPUT holds, configure(), the core there is
  midiPast  \* history: [units, packets, loads, n, got, takes, stopped]

midiVars == <<midi, sending, midiWay, midiPast>>
ASSUME MidiAssumption == SEQ \in Nat \ {0}

NoneSending == [i |-> 0, len |-> 0, take |-> FALSE, core |-> 0]

MidiInit ==
  /\ midi = [dev |-> 0, armed |-> FALSE, seq |-> 0, caps |-> TRUE]
  /\ sending = NoneSending
  /\ midiWay = [queue |-> <<>>, hand |-> <<>>, load |-> "no", core |-> 1]
  /\ midiPast = [units |-> 0, packets |-> 0, loads |-> 0, n |-> 0, got |-> <<>>, takes |-> <<TRUE>>, stopped |-> FALSE]

\* midi_read(): it may fail, then nothing reads any more.
midi_read ==
  \E armed \in BOOLEAN : midi' = [midi EXCEPT !.armed = armed] /\ midiPast' = [midiPast EXCEPT !.stopped = ~armed]
midi_open ==
  /\ midiPast.units < MaxMidi /\ sending = NoneSending
  /\ IF midi.dev # 0 THEN midiPast' = [midiPast EXCEPT !.units = @ + 1] /\ UNCHANGED midi
     ELSE \E armed \in BOOLEAN :
            /\ midi' = [midi EXCEPT !.dev = midiPast.units + 1, !.armed = armed]
            /\ midiPast' = [midiPast EXCEPT !.units = @ + 1, !.stopped = ~armed]
  /\ UNCHANGED <<sending, midiWay>>
midi_close ==
  /\ midi.dev # 0 /\ sending = NoneSending /\ midi' = [midi EXCEPT !.dev = 0, !.armed = FALSE]
  /\ UNCHANGED <<sending, midiWay, midiPast>>

\* A packet of four bytes: the cable, the kind, and whether its status is one that is dropped.
MidiLen(cin) == IF cin \in {2, 12, 13} THEN 2
                ELSE IF cin \in {3, 8, 9, 10, 11, 14} THEN 3 ELSE IF cin \in {5, 15} THEN 1 ELSE 0
kg_usb_midi_packet(p) == IF p.cable # 0 \/ p.dropped THEN 0 ELSE MidiLen(p.cin)

\* The end of a transfer with one packet, with none to send, or with an error: it reads again;
\* after a stall it does not.
midi_xfer_cb ==
  /\ midi.armed /\ sending = NoneSending
  /\ \/ \E p \in [cable : {0, 1}, cin : Cins, dropped : BOOLEAN] :
          /\ midiPast.packets < MaxPackets /\ kg_usb_midi_packet(p) > 0
          /\ sending' = [i |-> 1, len |-> kg_usb_midi_packet(p), take |-> midi.caps, core |-> midiWay.core]
          /\ midi' = [midi EXCEPT !.armed = FALSE] /\ midiPast' = [midiPast EXCEPT !.packets = @ + 1]
     \/ midi_read /\ UNCHANGED sending
     \/ midi' = [midi EXCEPT !.armed = FALSE] /\ midiPast' = [midiPast EXCEPT !.stopped = TRUE] /\ UNCHANGED sending
  /\ UNCHANGED midiWay

\* midi_send(): the bytes for a core that takes them, while INPUT takes them out; a full queue
\* loses a byte with its count.  Mutant: only a byte that found room is counted.
counts_sent(room) == IF room THEN 1 ELSE 0
counts(room) == 1
midi_send ==
  LET room == Len(midiWay.queue) < MidiQueue
      last == sending.i = sending.len
  IN /\ sending # NoneSending
     /\ sending' = IF last THEN NoneSending ELSE [sending EXCEPT !.i = @ + 1]
     /\ midiWay' = IF sending.take /\ room
                   THEN [midiWay EXCEPT !.queue = Append(@, [seq |-> midi.seq, n |-> midiPast.n + 1, i |-> sending.i,
                                                             len |-> sending.len, from |-> sending.core])]
                   ELSE midiWay
     /\ \E armed \in BOOLEAN :
          /\ armed => last
          /\ midi' = [midi EXCEPT !.armed = armed, !.seq = IF sending.take THEN (@ + counts(room)) % SEQ ELSE @]
          /\ midiPast' = [midiPast EXCEPT !.n = IF sending.take THEN @ + 1 ELSE @, !.stopped = last /\ ~armed]

\* INPUT.
MidiPops ==
  /\ midiWay.queue # <<>> /\ midiWay.hand = <<>>
  /\ midiWay' = [midiWay EXCEPT !.queue = Tail(@), !.hand = <<Head(midiWay.queue)>>]
  /\ UNCHANGED <<midi, sending, midiPast>>
MidiToCore ==
  /\ midiWay.hand # <<>> /\ midiWay.load = "no"
  /\ midiPast' = [midiPast EXCEPT !.got = Append(@, [midiWay.hand[1] EXCEPT !.from = <<@, midiWay.core>>])]
  /\ midiWay' = [midiWay EXCEPT !.hand = <<>>]
  /\ UNCHANGED <<midi, sending>>

\* configure(): the old core's caps are forgotten, the new one is asked for its.
MidiLoadStarts ==
  /\ midiWay.load = "no" /\ midiPast.loads < MaxMidiLoads
  /\ midiWay' = [midiWay EXCEPT !.load = "bitstream"] /\ midi' = [midi EXCEPT !.caps = FALSE]
  /\ midiPast' = [midiPast EXCEPT !.loads = @ + 1] /\ UNCHANGED sending
MidiCaps ==
  /\ midiWay.load = "bitstream"
  /\ \E takes \in BOOLEAN :
       /\ midi' = [midi EXCEPT !.caps = takes]
       /\ midiPast' = [midiPast EXCEPT !.takes = Append(@, takes)]
  /\ midiWay' = [midiWay EXCEPT !.load = "setup", !.core = @ + 1] /\ UNCHANGED sending
MidiLoadEnds ==
  /\ midiWay.load = "setup" /\ midiWay' = [midiWay EXCEPT !.load = "no"]
  /\ UNCHANGED <<midi, sending, midiPast>>

MidiNext ==
  \/ midi_open \/ midi_close \/ midi_xfer_cb \/ midi_send \/ MidiPops \/ MidiToCore
  \/ MidiLoadStarts \/ MidiCaps \/ MidiLoadEnds

MidiSpec == MidiInit /\ [][MidiNext]_midiVars

-----------------------------------------------------------------------------
(* Properties.                                                             *)

InOrder(s) == \A i, j \in DOMAIN s : i < j => s[i].n < s[j].n

\* An adapter gets the bytes of the core in order, each once, and only those the
\* core wrote to it, but for one that was in core_out() while it was plugged.
OwnBytes ==
  \A u \in Units :
    /\ InOrder(got[u])
    /\ \A i \in DOMAIN got[u] : got[u][i].unit = u \/ (i = 1 /\ got[u][i].unit < u)

\* APP reads the bytes of the adapters in order; those of one that is gone are gone.
ReadInOrder == InOrder(taken \o rx) /\ \A i \in DOMAIN rx : rx[i].unit = cdc_idx

\* The adapter has the speed that was asked for, or a transfer brings it, or it
\* will be asked for, unless the adapter refused a speed.
BaudRight ==
  cdc_idx # NoAdapter =>
    /\ baud_busy <=> xfer # NoXfer
    /\ xfer # NoXfer => xfer.unit = cdc_idx
    /\ cur_baud # rate[cdc_idx] => cur_baud \in refused[cdc_idx]

\* An adapter is only asked for the speeds of whole pairs of registers and of the ZiFi port,
\* never for one between the two writes (serial_bridge.c:34 "once it is still this long").
WholeSpeeds == {serial_set_speed(d[1], d[2]) : d \in Divisors} \cup {BaudOnEnum}
SpeedWhole == want_baud \in WholeSpeeds /\ (serial.next = <<>> => serial.speed \in WholeSpeeds)

\* No registers stop the bytes: the pace is divided by the speed.
Possible(speed) == 3 <= speed /\ speed <= 691200
SpeedsKnown == \A dll, dlm \in 0 .. 255 : Possible(serial_set_speed(dll, dlm))

UartRight ==
  /\ OwnBytes /\ ReadInOrder /\ BaudRight /\ SpeedWhole
  /\ plugged = {} /\ uartPast.units + uartPast.bauds = 0 => SpeedsKnown

\* The count a core sees tells of every loss of less than SEQ bytes: without a gap the next
\* byte is the one that follows, of the same message while that has more.  The keyboard is
\* read while it is there, unless a read failed.  A core that takes no MIDI gets only what was meant for the one before.
MidiRight ==
  /\ LET g == midiPast.got
     IN \A k \in 1 .. Len(g) - 1 :
          /\ g[k].n < g[k + 1].n
          /\ g[k + 1].n <= g[k].n + SEQ /\ g[k + 1].seq = (g[k].seq + 1) % SEQ => g[k + 1].n = g[k].n + 1
          /\ g[k + 1].n = g[k].n + 1 => g[k + 1].i = (IF g[k].i < g[k].len THEN g[k].i + 1 ELSE 1)
  /\ midi.dev # 0 => midi.armed \/ midiPast.stopped \/ sending # NoneSending
  /\ midi.armed => midi.dev # 0
  /\ \A k \in DOMAIN midiPast.got :
       LET b == midiPast.got[k] IN ~midiPast.takes[b.from[2]] => b.from[1] < b.from[2]

\* What the code does not hold to: protocol.md, "Other cores get no CMD_MIDI".
OnlyMidiCores == \A k \in DOMAIN midiPast.got : midiPast.takes[midiPast.got[k].from[2]]

\* While an adapter is plugged in, the serial port of the core goes to one.
UsedIfPlugged == plugged # {} => cdc_idx # NoAdapter
=============================================================================
