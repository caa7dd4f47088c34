-------------------------------- MODULE EspAt --------------------------------
(***************************************************************************)
(* AT commands to the ESP8266: one at a time, its lines to the callback of *)
(* who started it, OK, ERROR or a timeout as its end.  The module is       *)
(* external: it works on one command and takes no other meanwhile, and a   *)
(* command that was given up is still answered.  A line is [k, v, of]: its *)
(* kind, its value and, as history, the command it answers.                *)
(* Beside it the texts: the names in answers, which may hold what ends     *)
(* them, the names given, the progress that is shown of an update.         *)
(***************************************************************************)
EXTENDS Integers, Sequences, SequencesExt, FiniteSetsExt

CONSTANTS
  Modules,    \* the modules: [alive, ssid, fw, cts, mode]
  Networks,   \* the names the module can join
  Strengths,  \* the RSSI of a network, weak to strong
  MaxLateLines,    \* bound: commands given up while the module works on them
  MaxScan,    \* bound: the lines of a scan
  SsidChars,  \* the characters of a name, "q" is the quote, "b" the backslash
  MaxSsid,    \* bound: its length
  UpdTimes    \* the times since a stage of an update began that are tried

NoName == ""
NoCmd  == "none"

VARIABLES
  at,    \* [state, cmd, clean]; clean: the module was idle when the command started
  wire,  \* the lines on their way to the board
  esp,   \* the module: [alive, ssid, fw, cts, mode]
  job,   \* what it works on: [cmd, out, after]: the lines to say, itself when it is done
  lates,  \* history: the commands that were given up
  ssid,   \* the name of a network, one character longer in each step
  bar     \* [stage, ms, shown]: an update and, as history, what was shown of it

atVars == <<at, wire, esp, job, lates>>
espTextVars == <<ssid, bar>>

Ln(k, v, cmd) == [k |-> k, v |-> v, of |-> cmd]
Final == {"ok", "error"}

AtInit ==
  /\ at = [state |-> "idle", cmd |-> NoCmd, clean |-> TRUE] /\ wire = <<>> /\ lates = 0
  /\ esp \in Modules
  /\ job = [cmd |-> NoCmd, out |-> <<>>, after |-> esp]

-----------------------------------------------------------------------------
(* The module: what it may answer, [out, m]: the lines and itself after.   *)

Says(m, cmd, data) == [out |-> [i \in DOMAIN data |-> Ln(data[i][1], data[i][2], cmd)] \o <<Ln("ok", 0, cmd)>>, m |-> m]
Fails(m, cmd) == [out |-> <<Ln("error", 0, cmd)>>, m |-> m]

Aps == {<<"ap", [ssid |-> n, rssi |-> r]>> : n \in Networks, r \in Strengths}
Scans == UNION {[1 .. n -> Aps] : n \in 0 .. MaxScan}

Answers(m, cmd, arg) ==
  CASE cmd = "CWJAP?"    -> {Says(m, cmd, IF m.ssid = NoName THEN <<>> ELSE <<<<"jap", m.ssid>>>>)}
    [] cmd = "CIFSR"     -> {Says(m, cmd, <<<<"ip", m.ssid>>>>)}
    [] cmd = "UART_DEF?" -> {Says(m, cmd, <<<<"flow", m.cts>>>>), Fails(m, cmd)}
    [] cmd = "UART_DEF=" -> {Says([m EXCEPT !.cts = TRUE], cmd, <<>>)}
    [] cmd = "CWMODE?"   -> {Says(m, cmd, <<<<"mode", m.mode>>>>)}
    [] cmd = "CWMODE="   -> {Says([m EXCEPT !.mode = 1], cmd, <<>>)}
    [] cmd = "CWLAP"     -> {Says(m, cmd, s) : s \in Scans} \cup {Fails(m, cmd)}
    [] cmd = "CWJAP="    -> {Says([m EXCEPT !.ssid = arg], cmd, <<>>),
                             [out |-> <<Ln("why", 2, cmd), Ln("error", 0, cmd)>>, m |-> [m EXCEPT !.ssid = NoName]]}
    [] cmd = "CWQAP"     -> {Says([m EXCEPT !.ssid = NoName], cmd, <<>>)}
    [] cmd = "CIUPDATE"  -> {Says([m EXCEPT !.fw = 2], cmd, <<<<"stage", 1>>, <<"stage", 4>>>>),
                             [out |-> <<Ln("stage", 1, cmd), Ln("stage", -1, cmd), Ln("error", 0, cmd)>>, m |-> m]}
    [] cmd = "RESTORE"   -> {Says([m EXCEPT !.ssid = NoName, !.cts = FALSE], cmd, <<>>), Fails(m, cmd)}
    [] cmd = "GMR"       -> {Says(m, cmd, <<<<"version", m.fw>>>>)}
    [] cmd = "SNTPCFG"   -> {Says(m, cmd, <<>>), Fails(m, cmd)}
    [] cmd = "SNTPTIME?" -> {Says(m, cmd, <<<<"time", TRUE>>>>), Says(m, cmd, <<>>)}
    [] OTHER             -> {Says(m, cmd, <<>>)}  \* AT, ATE0, CWAUTOCONN

\* Its lines, then the end of the command; what a command changes is changed with it.
EspSays ==
  /\ job.cmd # NoCmd
  /\ LET n == Max({Len(job.out) - 1, 1})
     IN wire' = wire \o SubSeq(job.out, 1, n) /\ job' = [cmd |-> IF n = Len(job.out) THEN NoCmd ELSE job.cmd,
                                                       out |-> SubSeq(job.out, n + 1, Len(job.out)), after |-> job.after]
  /\ esp' = IF job'.cmd = NoCmd THEN job.after ELSE esp
  /\ UNCHANGED <<at, lates>>

-----------------------------------------------------------------------------
(* esp_at.c.                                                               *)

\* The lines of the command before are thrown away; the mutant keeps them.
esp_serial_clear_rx_not(lines) == lines
esp_serial_clear_rx(lines) == <<>>

\* A start while the module works on another command gives that one up; the module
\* does not hear this one.
esp_at_start(cmd, arg) ==
  /\ at' = [state |-> "busy", cmd |-> cmd, clean |-> job.cmd = NoCmd]
  /\ wire' = esp_serial_clear_rx(wire)
  /\ esp' = esp
  /\ IF job.cmd # NoCmd THEN lates < MaxLateLines /\ lates' = lates + 1 /\ job' = job
     ELSE /\ lates' = lates
          /\ IF esp.alive THEN \E a \in Answers(esp, cmd, arg) : job' = [cmd |-> cmd, out |-> a.out, after |-> a.m]
             ELSE job' = job

FinalAt == {i \in DOMAIN wire : wire[i].k \in Final}
\* What esp_at_poll() hears: the lines up to the end of the command.
Heard == IF FinalAt = {} THEN wire ELSE SubSeq(wire, 1, Min(FinalAt) - 1)

\* esp_at_poll(): how it ends; over: the timeout has passed.
PollOf(over) ==
  IF at.state # "busy" THEN at.state
  ELSE IF FinalAt # {} THEN wire[Min(FinalAt)].k
  ELSE IF over THEN "timeout" ELSE "busy"
AtPolled(r) ==
  /\ at' = [at EXCEPT !.state = r]
  /\ wire' = IF at.state = "busy" THEN SubSeq(wire, Len(Heard) + (IF FinalAt = {} THEN 1 ELSE 2), Len(wire)) ELSE wire
  /\ UNCHANGED <<esp, job, lates>>
\* A timeout of a module that is still working is one of the late ones.
MayBeOver == job.cmd = NoCmd \/ lates < MaxLateLines

-----------------------------------------------------------------------------
(* Properties.                                                             *)

\* A command that found the module idle gets no line but its own.
OwnAnswers ==
  at.state = "busy" /\ at.clean =>
    /\ \A i \in DOMAIN wire : wire[i].of = at.cmd
    /\ job.cmd # NoCmd => job.cmd = at.cmd

-----------------------------------------------------------------------------
(* The texts: lib/common/esp_at_parse.c.                                   *)

Quote == "q"  \* the character "
Back  == "b"  \* the character \
Close == ")"
SsidDigits == {"0", "1"}
CharAt(s, i) == IF i \in DOMAIN s THEN s[i] ELSE "end"

\* string_end(): the first quote with the next field or the end behind it.
\* The mutant ends the name at its first quote.
string_end_first(s, next_string) == {i \in DOMAIN s : s[i] = Quote}
string_end(s, next_string) ==
  {i \in DOMAIN s :
     /\ s[i] = Quote
     /\ \/ CharAt(s, i + 1) \in {"end", Close}
        \/ /\ CharAt(s, i + 1) = ","
           /\ IF next_string THEN CharAt(s, i + 2) = Quote
              ELSE CharAt(s, i + 2) \in SsidDigits \/ (CharAt(s, i + 2) = "-" /\ CharAt(s, i + 3) \in SsidDigits)}
NoText == <<"none">>
Quoted(s, next_string) == LET e == string_end(s, next_string) IN IF e = {} THEN NoText ELSE SubSeq(s, 1, Min(e) - 1)

\* What follows ecn," in a line of a scan and " in the line of the joined network.
kg_esp_parse_cwlap(s) ==
  LET e == string_end(s, FALSE) IN IF e = {} \/ CharAt(s, Min(e) + 1) # "," THEN NoText ELSE Quoted(s, FALSE)
kg_esp_parse_cwjap(s) == Quoted(s, TRUE)

\* kg_esp_quote(): what must be escaped; nothing is cut in the middle of an escape.
Escaped(c) == IF c \in {Quote, ",", Back} THEN <<Back, c>> ELSE <<c>>
kg_esp_quote(s, size) ==
  LET Of(n) == FlattenSeq([i \in 1 .. n |-> Escaped(s[i])])
  IN Of(Max({n \in 0 .. Len(s) : Len(Of(n)) <= size - 1}))
Unquoted(s) ==
  FoldLeft(LAMBDA acc, c : IF ~acc.esc /\ c = Back THEN [acc EXCEPT !.esc = TRUE] ELSE [out |-> Append(acc.out, c), esc |-> FALSE],
           [out |-> <<>>, esc |-> FALSE], s)

-----------------------------------------------------------------------------
(* The progress of an update.                                              *)

UPD_SERVER_MS   == 10000
UPD_DOWNLOAD_MS == 20000
UPD_RESTART_MS  == 8000
Sending == 0
Download == 4
Restart == 5
Done == 6

kg_esp_update_progress(stage, ms) ==
  CASE stage = Sending -> IF ms >= UPD_SERVER_MS THEN 10 ELSE (ms * 10) \div UPD_SERVER_MS
    [] stage \in 1 .. 3 -> 8 + 4 * stage
    [] stage = Download ->
         IF ms < UPD_DOWNLOAD_MS THEN 20 + ((ms * 65) \div UPD_DOWNLOAD_MS)
         ELSE 85 + ((5 * (ms - UPD_DOWNLOAD_MS)) \div (ms - UPD_DOWNLOAD_MS + UPD_DOWNLOAD_MS))
    [] stage = Restart -> IF ms >= UPD_RESTART_MS THEN 98 ELSE 90 + ((ms * 8) \div UPD_RESTART_MS)
    [] stage = Done -> 100

-----------------------------------------------------------------------------
EspTextInit == ssid = <<>> /\ bar = [stage |-> Sending, ms |-> 0, shown |-> 0]
Longer == bar.ms = 0 /\ bar.stage = Sending /\ Len(ssid) < MaxSsid /\ \E c \in SsidChars : ssid' = Append(ssid, c) /\ UNCHANGED bar
Shows(stage, ms) == bar' = [stage |-> stage, ms |-> ms, shown |-> kg_esp_update_progress(bar.stage, bar.ms)] /\ UNCHANGED ssid
Later   == ssid = <<>> /\ \E ms \in UpdTimes : ms > bar.ms /\ Shows(bar.stage, ms)
Further == ssid = <<>> /\ \E stage \in bar.stage + 1 .. Done : Shows(stage, 0)
EspTextNext == Longer \/ Later \/ Further

-----------------------------------------------------------------------------
(* Properties.                                                             *)

Has(s, part) == \E i \in 0 .. Len(s) - Len(part) : SubSeq(s, i + 1, i + Len(part)) = part
\* What ends a name within it, its closing quote taken with it.
LooksEnded(name, next_string) ==
  LET s == Append(name, Quote)
  IN \/ Has(s, <<Quote, Close>>)
     \/ IF next_string THEN Has(s, <<Quote, ",", Quote>>)
        ELSE \E d \in SsidDigits : Has(s, <<Quote, ",", d>>) \/ Has(s, <<Quote, ",", "-", d>>)

\* A name with quotes and commas in it is read whole, unless it has in it what ends one.
NamesWhole ==
  /\ ~LooksEnded(ssid, FALSE) => kg_esp_parse_cwlap(ssid \o <<Quote, ",", "-", "1", ",", Quote>>) = ssid
  /\ ~LooksEnded(ssid, TRUE) => kg_esp_parse_cwjap(ssid \o <<Quote, ",", Quote, "a", Quote>>) = ssid

\* The module reads a given name as it was meant, or the first of its characters.
GivenWhole ==
  \A size \in 1 .. 2 * MaxSsid + 1 :
    LET u == Unquoted(kg_esp_quote(ssid, size))
    IN ~u.esc /\ IsPrefix(u.out, ssid) /\ (size > 2 * Len(ssid) => u.out = ssid)

\* The bar never goes back, and is full only at the end.
BarGrows ==
  LET p == kg_esp_update_progress(bar.stage, bar.ms)
  IN p >= bar.shown /\ p <= 100 /\ (p = 100 => bar.stage = Done)

EspTextRight == NamesWhole /\ GivenWhole /\ BarGrows
=============================================================================
