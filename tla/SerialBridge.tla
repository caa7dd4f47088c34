---------------------------- MODULE SerialBridge -----------------------------
(***************************************************************************)
(* The serial bridge of APP: what the host types goes to the core, or to   *)
(* the ESP8266 of the boot core with its line ends made CR LF; lines       *)
(* Prefix arg EOL are taken out and answered.  Bytes that may begin such a *)
(* line are held until the host has been quiet.  While an adapter is       *)
(* plugged in (UsbAdapters) its bytes go to the core and the host's are    *)
(* only looked at.  The pace of the core's bytes is left out.              *)
(***************************************************************************)
EXTENDS Integers, Sequences, SequencesExt

CONSTANTS
  Prefix,     \* KG_AT_PREFIX, a sequence of bytes
  Typed,      \* the bytes a host types, "cr", "lf", and the args "e", "u" (esp, uart)
  MaxArg,     \* KG_AT_MAX_ARG
  MaxTyped, MaxAdapterTurns, MaxCoreLoads  \* bounds

ASSUME BridgeAssumption == Prefix \in Seq(Typed) /\ Prefix # <<>> /\ MaxArg \in Nat

VARIABLES
  parser,     \* [buf, done, eat_lf]: what is held; done: a command was taken from it
  tx_buf,     \* the bytes on their way to the core
  adapter,    \* usb_uart_active()
  esp_mode,
  crlf,       \* esp_crlf.cr
  boot_core,  \* core.type is CORE_TYPE_BOOT
  esp_busy,   \* esp_at_busy(): a reply of the module is waited for
  typed,      \* history: the bytes of the host that the bridge read
  told,       \* history: the same bytes as they left it: passed on or dropped, a
              \* command with its prefix and line end
  core_got,   \* history: the bytes of the host the core got
  esp_fed, esp_got,  \* history: the bytes the ESP was to get since esp_mode was set, and got
  bridgePast  \* history: [passed, turns, loads]: the bytes that were meant for the core

bridgeVars == <<parser, tx_buf, adapter, esp_mode, crlf, boot_core, esp_busy, typed, told, core_got,
                esp_fed, esp_got, bridgePast>>

EmptyParser == [buf |-> <<>>, done |-> FALSE, eat_lf |-> FALSE]
Eol == {"cr", "lf"}

BridgeInit ==
  /\ parser = EmptyParser /\ tx_buf = <<>> /\ adapter \in BOOLEAN /\ esp_mode = FALSE /\ crlf = FALSE
  /\ boot_core = TRUE /\ esp_busy = FALSE /\ typed = <<>> /\ told = <<>> /\ core_got = <<>>
  /\ esp_fed = <<>> /\ esp_got = <<>>
  /\ bridgePast = [passed |-> <<>>, turns |-> 0, loads |-> 0]

-----------------------------------------------------------------------------
(* at_cmd.c: the results are [p, out, cmd, told].                          *)

Held(p) == IF p.done THEN <<>> ELSE p.buf

\* kg_at_flush(): what is held goes out, but for the line of a command.
kg_at_flush(p) == [p |-> EmptyParser, out |-> Held(p)]

\* Mutant: what is held is dropped by the byte that shows it is no command.
mismatch_drops(h, c) == IF c = Prefix[1] THEN [h EXCEPT !.p.buf = <<c>>, !.out = <<>>] ELSE [h EXCEPT !.out = <<c>>]
mismatch(h, c) == IF c = Prefix[1] THEN [h EXCEPT !.p.buf = <<c>>] ELSE [h EXCEPT !.out = Append(@, c)]

Hold(buf) == [p |-> [EmptyParser EXCEPT !.buf = buf], out |-> <<>>, cmd |-> FALSE]

kg_at_feed(p, c) ==
  LET buf == Held(p)
      n   == Len(buf)
      m   == Len(Prefix)
  IN IF p.eat_lf /\ c = "lf" THEN Hold(buf)
     ELSE IF n < m /\ c = Prefix[n + 1] THEN Hold(Append(buf, c))
     ELSE IF n >= m /\ c \in Eol
     THEN [p |-> [buf |-> buf, done |-> TRUE, eat_lf |-> c = "cr"], out |-> <<>>, cmd |-> TRUE]
     ELSE IF n >= m /\ n < m + MaxArg THEN Hold(Append(buf, c))
     ELSE LET h == mismatch(kg_at_flush([p EXCEPT !.buf = buf, !.done = FALSE]), c)
          IN [p |-> h.p, out |-> h.out, cmd |-> FALSE]

\* kg_crlf(): [cr, out].
kg_crlf[s \in BOOLEAN, in \in Seq(Typed)] ==
  IF in = <<>> THEN [cr |-> s, out |-> <<>>]
  ELSE LET c    == Head(in)
           rest == kg_crlf[c = "cr", Tail(in)]
       IN [rest EXCEPT !.out = (IF c = "lf" /\ s THEN <<>> ELSE IF c \in Eol THEN <<"cr", "lf">> ELSE <<c>>) \o @]

-----------------------------------------------------------------------------
(* serial_bridge_tick(): one byte of the host at most.                     *)

esp_write(out) ==
  LET r == kg_crlf[crlf, out]
  IN crlf' = r.cr /\ esp_got' = esp_got \o r.out /\ esp_fed' = esp_fed \o out

\* at_command(): esp and uart; the others change nothing here.
at_command(arg) ==
  CASE arg = <<"e">> /\ boot_core -> esp_mode' = TRUE /\ crlf' = FALSE /\ esp_fed' = <<>> /\ esp_got' = <<>>
    [] arg = <<"u">> -> esp_mode' = FALSE /\ UNCHANGED <<crlf, esp_fed, esp_got>>
    [] OTHER -> UNCHANGED <<esp_mode, crlf, esp_fed, esp_got>>

\* Where the bytes that are passed on go.
PassOn(out) ==
  IF esp_mode THEN esp_write(out) /\ UNCHANGED <<tx_buf, bridgePast>>
  ELSE /\ UNCHANGED <<crlf, esp_fed, esp_got>>
       /\ IF adapter THEN UNCHANGED <<tx_buf, bridgePast>>
          ELSE tx_buf' = out /\ bridgePast' = [bridgePast EXCEPT !.passed = @ \o out]

\* A byte is read in every mode, but for the core only when the last ones are sent.
MayRead == IF esp_mode THEN ~esp_busy ELSE adapter \/ tx_buf = <<>>

Read ==
  /\ ~(esp_mode /\ ~boot_core) /\ MayRead /\ Len(typed) < MaxTyped
  /\ \E c \in Typed :
       LET r == kg_at_feed(parser, c)
       IN /\ typed' = Append(typed, c) /\ parser' = r.p
          /\ IF r.cmd
             THEN /\ at_command(SubSeq(r.p.buf, Len(Prefix) + 1, Len(r.p.buf)))
                  /\ told' = told \o Append(r.p.buf, c) /\ UNCHANGED <<tx_buf, bridgePast>>
             ELSE /\ PassOn(r.out) /\ UNCHANGED esp_mode
                  /\ told' = told \o r.out \o (IF parser.eat_lf /\ c = "lf" THEN <<c>> ELSE <<>>)
  /\ UNCHANGED <<adapter, boot_core, esp_busy, core_got>>

\* The host has been quiet for AT_HOLD_TIMEOUT_MS.
Quiet ==
  /\ ~(esp_mode /\ ~boot_core) /\ MayRead /\ parser.buf # <<>>
  /\ parser' = kg_at_flush(parser).p /\ told' = told \o kg_at_flush(parser).out
  /\ PassOn(kg_at_flush(parser).out)
  /\ UNCHANGED <<adapter, esp_mode, boot_core, esp_busy, typed, core_got>>

SendByte ==
  /\ ~esp_mode /\ tx_buf # <<>>
  /\ core_got' = Append(core_got, Head(tx_buf)) /\ tx_buf' = Tail(tx_buf)
  /\ UNCHANGED <<parser, adapter, esp_mode, crlf, boot_core, esp_busy, typed, told, esp_fed, esp_got, bridgePast>>

\* The bridge leaves the ESP when another core runs.
LeaveEsp ==
  /\ esp_mode /\ ~boot_core /\ esp_mode' = FALSE
  /\ UNCHANGED <<parser, tx_buf, adapter, crlf, boot_core, esp_busy, typed, told, core_got, esp_fed, esp_got, bridgePast>>

\* Elsewhere: an adapter comes or goes, a core is loaded, Setup Wi-Fi talks.
Turns ==
  /\ bridgePast.turns < MaxAdapterTurns /\ bridgePast' = [bridgePast EXCEPT !.turns = @ + 1]
  /\ \/ adapter' = ~adapter /\ UNCHANGED esp_busy
     \/ boot_core /\ esp_busy' = ~esp_busy /\ UNCHANGED adapter
  /\ UNCHANGED <<parser, tx_buf, esp_mode, crlf, boot_core, typed, told, core_got, esp_fed, esp_got>>
CoreLoaded ==
  /\ bridgePast.loads < MaxCoreLoads /\ bridgePast' = [bridgePast EXCEPT !.loads = @ + 1]
  /\ boot_core' \in BOOLEAN
  /\ UNCHANGED <<parser, tx_buf, adapter, esp_mode, crlf, esp_busy, typed, told, core_got, esp_fed, esp_got>>

BridgeNext == Read \/ Quiet \/ SendByte \/ LeaveEsp \/ Turns \/ CoreLoaded

BridgeSpec == BridgeInit /\ [][BridgeNext]_bridgeVars

-----------------------------------------------------------------------------
(* Properties.                                                             *)

\* Every byte of the host leaves the bridge once and in its order, or is held.
HostKept == told \o Held(parser) = typed

\* The core gets the bytes that were passed on to it, all but those still to be sent.
CoreGetsThem == core_got \o tx_buf = bridgePast.passed

\* No more is held than a command line can have.
HeldBounded == Len(Held(parser)) <= Len(Prefix) + MaxArg

\* The ESP gets each line end of the host as CR LF, however the bytes came.
LineEnds(s) == {i \in DOMAIN s : s[i] = "cr" \/ (s[i] = "lf" /\ ~(i > 1 /\ s[i - 1] = "cr"))}
Plain(s) == SelectSeq(s, LAMBDA b : b \notin Eol)
EspLines ==
  /\ Plain(esp_got) = Plain(esp_fed)
  /\ \A i \in DOMAIN esp_got :
       /\ esp_got[i] = "cr" => i < Len(esp_got) /\ esp_got[i + 1] = "lf"
       /\ esp_got[i] = "lf" => i > 1 /\ esp_got[i - 1] = "cr"
  /\ Len(SelectSeq(esp_got, LAMBDA b : b = "cr")) =
       Len(SelectSeq([i \in DOMAIN esp_fed |-> i \in LineEnds(esp_fed)], LAMBDA b : b))

BridgeRight == HostKept /\ CoreGetsThem /\ HeldBounded /\ EspLines

-----------------------------------------------------------------------------
(***************************************************************************)
(* Keys from the host: AT+KARABAS=key:, type:, hold: and release of APP    *)
(* become keyboard reports in a queue that core1 plays between those of    *)
(* the real keyboard.  A key is its name, a report [mod, key]: modifiers   *)
(* and one key.  How long core1 leaves a report is left out.               *)
(***************************************************************************)

CONSTANTS
  ModNames, KeyNames,  \* the names kg_keys.c knows: modifiers, keys
  Lines,               \* the commands: [kind, names]; a name is a sequence of its parts at "+"
  InjectN,             \* KBD_INJECT_N
  MaxLines, MaxRealReports  \* bounds

ASSUME InjectAssumption ==
  /\ InjectN \in Nat \ {0}
  /\ \A line \in Lines : line.kind \in {"key", "type", "hold", "release"} /\ Len(line.names) \in Nat

NoKey  == "none"
NoKeys == [mod |-> {}, key |-> NoKey]

VARIABLES
  inject_q,    \* the reports to play
  kbd,         \* kbd_report_shared, which is also prev_report
  core_kbd,    \* what the core was told of the keyboard
  writing,     \* APP: the reports of a command that passed the check, not queued yet
  real,        \* the last report of the real keyboard
  answered,    \* history: [line, ok] of the commands that were answered
  played       \* history: [lines, reals, queued, gone]

injectVars == <<inject_q, kbd, core_kbd, writing, real, answered, played>>

InjectInit ==
  /\ inject_q = <<>> /\ kbd = NoKeys /\ core_kbd = NoKeys /\ writing = <<>> /\ real = NoKeys
  /\ answered = <<>> /\ played = [reals |-> 0, queued |-> <<>>, gone |-> <<>>]

-----------------------------------------------------------------------------
(* kg_keys.c: [ok, mod, key].                                              *)

BadKey == [ok |-> FALSE, mod |-> {}, key |-> NoKey]

\* part(): one name of a chord; the second key is refused.
key_part(r, name) ==
  IF ~r.ok THEN r
  ELSE IF name \in ModNames THEN [r EXCEPT !.mod = @ \cup {name}]
  ELSE IF name \in KeyNames /\ r.key = NoKey THEN [r EXCEPT !.key = name]
  ELSE BadKey
kg_key_parse(parts) ==
  IF parts = <<>> THEN BadKey ELSE FoldLeft(key_part, [ok |-> TRUE, mod |-> {}, key |-> NoKey], parts)

\* type: a char is a key, with shift or without.
kg_key_ascii(parts) ==
  CASE Len(parts) = 1 /\ parts[1] \in KeyNames -> [ok |-> TRUE, mod |-> {}, key |-> parts[1]]
    [] Len(parts) = 2 /\ parts[1] = "shift" /\ parts[2] \in KeyNames -> [ok |-> TRUE, mod |-> {"shift"}, key |-> parts[2]]
    [] OTHER -> BadKey

-----------------------------------------------------------------------------
(* APP.                                                                    *)

hid_kbd_inject_free == InjectN - 1 - Len(inject_q)

Parsed(line, i) == IF line.kind = "type" THEN kg_key_ascii(line.names[i]) ELSE kg_key_parse(line.names[i])

\* The reports of a command: a press and its release for each, of hold: the press alone.
ReportsOf(line) ==
  LET press(i) == [mod |-> Parsed(line, i).mod, key |-> Parsed(line, i).key]
  IN IF line.kind = "hold" THEN <<press(1)>>
     ELSE [i \in 1 .. 2 * Len(line.names) |-> IF i % 2 = 1 THEN press((i + 1) \div 2) ELSE NoKeys]

\* The room is asked for before the first report; hold asks for two too.
\* Mutant: room for the presses only.
room_presses(line) == hid_kbd_inject_free >= Len(line.names)
room(line) == hid_kbd_inject_free >= 2 * Len(line.names)

may_inject(line) ==
  /\ \A i \in DOMAIN line.names : Parsed(line, i).ok
  /\ line.kind = "type" \/ Len(line.names) > 0
  /\ line.kind = "hold" => Len(line.names) = 1
  /\ room(line)

\* hid_kbd_inject() of the first report of reps.
key_report(rep) ==
  IF Len(inject_q) < InjectN - 1
  THEN inject_q' = Append(inject_q, rep) /\ played' = [played EXCEPT !.queued = Append(@, rep)]
  ELSE UNCHANGED <<inject_q, played>>

at_keys ==
  /\ writing = <<>> /\ Len(answered) < MaxLines
  /\ \E line \in Lines :
       /\ answered' = Append(answered, [line |-> line, ok |-> line.kind = "release" \/ may_inject(line)])
       /\ writing' = IF line.kind = "release" THEN <<NoKeys>>
                     ELSE IF may_inject(line) THEN ReportsOf(line) ELSE <<>>
  /\ UNCHANGED <<inject_q, kbd, core_kbd, real, played>>
hid_kbd_inject ==
  /\ writing # <<>> /\ key_report(Head(writing)) /\ writing' = Tail(writing)
  /\ UNCHANGED <<kbd, core_kbd, real, answered>>

-----------------------------------------------------------------------------
(* core1.                                                                  *)

\* A report that is the last one again is dropped.
take_report(rep) == kbd' = rep /\ core_kbd' = IF rep # kbd THEN rep ELSE core_kbd

hid_kbd_inject_tick ==
  /\ inject_q # <<>> /\ inject_q' = Tail(inject_q)
  /\ take_report(Head(inject_q)) /\ played' = [played EXCEPT !.gone = Append(@, Head(inject_q))]
  /\ UNCHANGED <<writing, real, answered>>
RealReport ==
  /\ played.reals < MaxRealReports /\ played' = [played EXCEPT !.reals = @ + 1]
  /\ \E rep \in {NoKeys, [mod |-> {}, key |-> CHOOSE k \in KeyNames : TRUE]} :
       rep # real /\ real' = rep /\ take_report(rep)
  /\ UNCHANGED <<inject_q, writing, answered>>

InjectNext == at_keys \/ hid_kbd_inject \/ hid_kbd_inject_tick \/ RealReport

InjectSpec == InjectInit /\ [][InjectNext]_injectVars

-----------------------------------------------------------------------------
(* Properties.                                                             *)

LastOr(s, none) == IF s = <<>> THEN none ELSE s[Len(s)]

\* What the commands that were answered OK stand for, in their order.
Promised ==
  FlattenSeq([i \in DOMAIN answered |->
    IF ~answered[i].ok THEN <<>>
    ELSE IF answered[i].line.kind = "release" THEN <<NoKeys>> ELSE ReportsOf(answered[i].line)])

\* All the reports of a command are played, in order, or none; a release alone may
\* be dropped, then another one is queued already.
Presses(s) == SelectSeq(s, LAMBDA r : r # NoKeys)
AllOrNone ==
  /\ played.queued = played.gone \o inject_q
  /\ Presses(played.queued \o writing) = Presses(Promised)
  /\ Len(played.queued \o writing) <= Len(Promised)

\* What a host released is up in the end, with nothing held on the real keyboard.
LetUp ==
  LET last == LastOr(SelectSeq(answered, LAMBDA a : a.ok /\ ~(a.line.kind = "type" /\ a.line.names = <<>>)), [line |-> [kind |-> "release"]])
  IN last.line.kind # "hold" /\ writing = <<>> /\ inject_q = <<>> /\ real = NoKeys => kbd = NoKeys /\ core_kbd = NoKeys

InjectRight == AllOrNone /\ LetUp /\ core_kbd = kbd
=============================================================================
