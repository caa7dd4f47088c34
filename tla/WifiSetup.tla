------------------------------ MODULE WifiSetup ------------------------------
(***************************************************************************)
(* The set-up of the ESP8266: the AT steps one after another from the      *)
(* tick, the screens they end on, the update and the reset of the module.  *)
(* The text screen and the page of the graphic setup share it; the page is *)
(* left by a click at any time.  Passwords, the ip and the texts are left  *)
(* out, a typed name is one of the networks.                               *)
(***************************************************************************)
EXTENDS EspAt

CONSTANTS
  OpenNets,  \* the networks without a password
  ApMax,     \* WS_AP_MAX
  ListRows,  \* the rows of the list
  EchoTries, \* ECHO_TRIES
  MaxWifiKeys  \* bound: what the user does

VARIABLES
  ws,      \* [screen, sel, on_rescan, top, restoring, version, cts, cur, aps, ssid, err, from_list]
  st,      \* [step, started, tries, joining, got]: the AT step and what its callback heard
  upd,     \* [step, result, stage, err, restore, version]: esp_update.c
  place,   \* where it is shown: "none", "text" or "page"; "clock" is the other user of EspAt
  trust,   \* history: which of AskedSteps found the module idle and was answered OK
  wifiPast \* history: [keys]

wifiVars == <<ws, st, upd, place, trust, wifiPast>>

StepCmd ==
  [echo |-> "ATE0", version |-> "GMR", flow_get |-> "UART_DEF?", flow_set |-> "UART_DEF=", mode_get |-> "CWMODE?",
   mode_set |-> "CWMODE=", jap_get |-> "CWJAP?", ip_get |-> "CIFSR", scan |-> "CWLAP", join |-> "CWJAP=",
   autoconn |-> "CWAUTOCONN", unauto |-> "CWAUTOCONN", qap |-> "CWQAP"]
Hears ==
  [version |-> "version", flow_get |-> "flow", mode_get |-> "mode", jap_get |-> "jap", scan |-> "ap", join |-> "why"]

NoUpd == [step |-> "idle", result |-> "idle", stage |-> 0, err |-> FALSE, restore |-> FALSE, version |-> 0]

WifiInit ==
  /\ AtInit
  /\ ws = [screen |-> "init", sel |-> 0, on_rescan |-> FALSE, top |-> 0, restoring |-> FALSE, version |-> 0,
           cts |-> "unknown", cur |-> NoName, aps |-> <<>>, ssid |-> NoName, err |-> FALSE, from_list |-> FALSE]
  /\ st = [step |-> "none", started |-> FALSE, tries |-> 0, joining |-> FALSE, got |-> <<>>]
  /\ upd = NoUpd /\ place = "none" /\ trust = {} /\ wifiPast = [keys |-> 0]

show(w, s) == [w EXCEPT !.screen = s, !.sel = 0, !.on_rescan = FALSE, !.top = 0]
run(t, s)  == [t EXCEPT !.step = s, !.started = FALSE, !.got = <<>>]

-----------------------------------------------------------------------------
(* The networks of a scan, the strongest first, each once.                 *)

\* kg_wifi_ap_add().
kg_wifi_ap_add(list, ap) ==
  LET same == {i \in DOMAIN list : list[i].ssid = ap.ssid}
      rest == SelectSeq(list, LAMBDA a : a.ssid # ap.ssid)
      pos  == Cardinality({i \in DOMAIN rest : rest[i].rssi >= ap.rssi})
      all  == SubSeq(rest, 1, pos) \o <<ap>> \o SubSeq(rest, pos + 1, Len(rest))
  IN IF \E i \in same : ap.rssi <= list[i].rssi THEN list ELSE SubSeq(all, 1, Min({Len(all), ApMax}))

\* What the callback of step s makes of a line.
hear(s, w, ln) ==
  IF s \notin DOMAIN Hears \/ ln.k # Hears[s] THEN w
  ELSE CASE s = "version" -> [w EXCEPT !.version = ln.v]
         [] s = "jap_get" -> [w EXCEPT !.cur = ln.v]
         [] s = "scan"    -> [w EXCEPT !.aps = kg_wifi_ap_add(@, ln.v)]
         [] OTHER -> w
HearAll(w, lines) == FoldLeft(LAMBDA acc, ln : hear(st.step, acc, ln), w, lines)
Got(lines) ==
  IF st.step \notin DOMAIN Hears THEN st.got
  ELSE LET mine == SelectSeq(lines, LAMBDA ln : ln.k = Hears[st.step])
       IN IF mine = <<>> THEN st.got ELSE <<mine[Len(mine)].v>>

-----------------------------------------------------------------------------
(* The AT steps.                                                           *)

start_step ==
  /\ st.step # "none" /\ ~st.started /\ ws.screen # "upd"
  /\ st' = [st EXCEPT !.started = TRUE, !.got = <<>>]
  /\ ws' = CASE st.step = "version" -> [ws EXCEPT !.version = 0]
             [] st.step = "jap_get" -> [ws EXCEPT !.cur = NoName]
             [] st.step = "scan"    -> [ws EXCEPT !.aps = <<>>]
             [] OTHER -> ws
  /\ esp_at_start(StepCmd[st.step], ws.ssid)
  /\ UNCHANGED <<upd, place, trust, wifiPast>>

\* step_done(): [w, t] after the step ended with r; t.got is what it heard.
step_done(w, t, r) ==
  LET goes(s)    == [w |-> w, t |-> run(t, s)]
      ends(w1)   == [w |-> w1, t |-> run(t, "none")]
      failed(w1) == ends(show([w1 EXCEPT !.err = TRUE], "result"))
  IN CASE t.step = "echo" ->
            IF r = "ok" THEN goes("version")
            ELSE IF t.tries + 1 < EchoTries THEN [w |-> w, t |-> run([t EXCEPT !.tries = @ + 1], "echo")]
            ELSE ends(show(w, "no_esp"))
       [] t.step = "version" -> goes("flow_get")
       [] t.step = "flow_get" ->
            IF r # "ok" \/ t.got = <<>> THEN [w |-> [w EXCEPT !.cts = "unknown"], t |-> run(t, "mode_get")]
            ELSE IF t.got[1] THEN [w |-> [w EXCEPT !.cts = "on"], t |-> run(t, "mode_get")]
            ELSE goes("flow_set")
       [] t.step = "flow_set" -> [w |-> [w EXCEPT !.cts = IF r = "ok" THEN "on" ELSE "off"], t |-> run(t, "mode_get")]
       [] t.step = "mode_get" -> goes(IF t.got \in {<<1>>, <<3>>} THEN "jap_get" ELSE "mode_set")
       [] t.step \in {"mode_set", "qap"} -> goes("jap_get")
       [] t.step = "jap_get" -> goes("ip_get")
       [] t.step = "ip_get" ->
            IF t.joining THEN [w |-> show([w EXCEPT !.err = FALSE], "result"), t |-> run([t EXCEPT !.joining = FALSE], "none")]
            ELSE ends(show(w, "status"))
       [] t.step = "scan" -> IF r = "ok" THEN ends(show(w, "list")) ELSE failed(w)
       [] t.step = "join" -> IF r = "ok" THEN goes("autoconn") ELSE failed(w)
       [] t.step = "autoconn" -> [w |-> w, t |-> run([t EXCEPT !.joining = TRUE], "jap_get")]
       [] t.step = "unauto" -> goes("qap")

AskedSteps == {"jap_get", "join"}
\* A failed join may have left the network the status was asked for.
Trusted(r) ==
  LET rest == IF st.step \in {"join", "qap"} THEN trust \ {st.step, "jap_get"} ELSE trust \ {st.step}
  IN IF at.clean /\ r = "ok" /\ st.step \in AskedSteps THEN rest \cup {st.step} ELSE rest

poll_step ==
  /\ st.step # "none" /\ st.started /\ ws.screen # "upd"
  /\ \E over \in BOOLEAN :
       /\ over => MayBeOver
       /\ LET r == PollOf(over)
              w == HearAll(ws, Heard)
              t == [st EXCEPT !.got = Got(Heard)]
          IN /\ AtPolled(r)
             /\ IF r = "busy" THEN ws' = w /\ st' = t /\ trust' = trust
                ELSE ws' = step_done(w, t, r).w /\ st' = step_done(w, t, r).t /\ trust' = Trusted(r)
  /\ UNCHANGED <<upd, place, wifiPast>>

-----------------------------------------------------------------------------
(* esp_update.c, polled by the tick of its screen.                         *)

UpdEnds(ok) == upd' = [upd EXCEPT !.step = "idle", !.result = IF ok THEN "ok" ELSE "error"]
\* on_update(): the stage only grows, a negative one is an error.
UpdHears(u, ln) ==
  CASE ln.k = "stage" /\ u.step = "update" /\ ~u.restore -> IF ln.v < 0 THEN [u EXCEPT !.err = TRUE] ELSE [u EXCEPT !.stage = Max({@, ln.v})]
    [] ln.k = "version" /\ u.step = "version" -> [u EXCEPT !.version = ln.v]
    [] OTHER -> u

\* go() of a step with a command.
UpdGo(u, s) ==
  /\ upd' = [u EXCEPT !.step = s, !.version = IF s = "version" THEN 0 ELSE @]
  /\ esp_at_start([update |-> IF u.restore THEN "RESTORE" ELSE "CIUPDATE", ping |-> "AT", echo |-> "ATE0", version |-> "GMR"][s], NoName)

\* tired: PING_TIMEOUT_MS have passed since the module restarted.
esp_update_poll ==
  /\ ws.screen = "upd" /\ upd.result = "busy"
  /\ IF upd.step = "restart" THEN UpdGo(upd, "ping")
     ELSE \E over, tired \in BOOLEAN :
       /\ over => MayBeOver
       /\ LET r == PollOf(over)
              u == FoldLeft(UpdHears, upd, Heard)
          IN CASE r = "busy" -> AtPolled(r) /\ upd' = u
               [] r # "busy" /\ u.step = "update" ->
                    /\ AtPolled(r)
                    /\ upd' = IF r = "ok" /\ ~u.err THEN [u EXCEPT !.step = "restart", !.stage = 5]
                              ELSE [u EXCEPT !.step = "idle", !.result = "error"]
               [] r # "busy" /\ u.step = "ping" ->
                    IF r = "ok" THEN UpdGo(u, "echo")
                    ELSE IF tired THEN AtPolled(r) /\ UpdEnds(FALSE) ELSE UpdGo(u, "ping")
               [] r # "busy" /\ u.step = "echo" -> UpdGo(u, "version")
               [] r # "busy" /\ u.step = "version" -> AtPolled(r) /\ upd' = [u EXCEPT !.step = "idle", !.result = "ok"]
  /\ UNCHANGED <<ws, st, place, trust, wifiPast>>
update_ended ==
  /\ ws.screen = "upd" /\ upd.result # "busy" /\ ws' = [ws EXCEPT !.screen = "upd_end"]
  /\ UNCHANGED <<atVars, st, upd, place, trust, wifiPast>>

ws_tick == start_step \/ poll_step \/ esp_update_poll \/ update_ended

-----------------------------------------------------------------------------
(* The user.  A user action changes the screen and which step runs.        *)

Act(w, t) ==
  /\ ws' = w /\ st' = t /\ wifiPast' = [wifiPast EXCEPT !.keys = @ + 1]
  /\ UNCHANGED <<atVars, upd, place, trust>>

Started(w) == show([w EXCEPT !.cts = "unknown"], "init")
StartedSteps == run([st EXCEPT !.tries = 0, !.joining = FALSE], "echo")

Shown  == place \in {"text", "page"}
IsOn(s) == Shown /\ ws.screen = s /\ wifiPast.keys < MaxWifiKeys

ws_start ==
  /\ IsOn("no_esp") /\ Act(Started(ws), StartedSteps)
ws_scan(w) == Act(show(w, "scan"), run(st, "scan"))
ws_join(w) == Act(show(w, "join"), run(st, "join"))

\* The items of the status screen: Forget and Update only when joined.
ws_menu_items == <<"scan", "hidden">> \o (IF ws.cur # NoName THEN <<"forget", "update">> ELSE <<>>) \o <<"reset">>
ws_menu ==
  /\ IsOn("status")
  /\ \E i \in DOMAIN ws_menu_items :
       LET w == [ws EXCEPT !.sel = i - 1]
       IN CASE ws_menu_items[i] = "scan"   -> ws_scan(w)
            [] ws_menu_items[i] = "hidden" -> Act(show([w EXCEPT !.ssid = NoName], "ssid"), st)
            [] ws_menu_items[i] = "forget" -> Act([w EXCEPT !.screen = "forget", !.sel = 1], st)
            [] OTHER -> Act([w EXCEPT !.screen = "upd_ask", !.sel = 1, !.restoring = ws_menu_items[i] = "reset"], st)

ws_confirm ==
  \/ (IsOn("forget") \/ IsOn("upd_ask")) /\ Act(show(ws, "status"), st)
  \/ IsOn("forget") /\ Act(show(ws, "init"), run(st, "unauto"))
  \/ /\ IsOn("upd_ask")
     /\ ws' = show(ws, "upd") /\ wifiPast' = [wifiPast EXCEPT !.keys = @ + 1]
     /\ UpdGo([NoUpd EXCEPT !.result = "busy", !.restore = ws.restoring], "update")
     /\ trust' = trust \ {"jap_get"}
     /\ UNCHANGED <<st, place>>

\* Enter or a click on a network: at once without a password.
join_ap(i) ==
  LET w == [ws EXCEPT !.sel = i - 1, !.ssid = ws.aps[i].ssid, !.from_list = TRUE]
  IN IF ws.aps[i].ssid \in OpenNets THEN ws_join(w) ELSE Act(show(w, "pass"), st)

\* The keys of the list with the Rescan button below it; the focus is kept in the rows.
ListTop(w) == IF w.sel < w.top THEN w.sel ELSE IF w.sel >= w.top + ListRows THEN w.sel - ListRows + 1 ELSE w.top
Moved(w) == [w EXCEPT !.top = ListTop(w)]
PastLast(w) == w.sel + 1 >= Len(w.aps)
ListMoves(w) ==
  {[w EXCEPT !.on_rescan = FALSE, !.sel = IF @ > ListRows THEN @ - ListRows ELSE 0],
   [w EXCEPT !.on_rescan = FALSE, !.sel = IF @ + ListRows < Len(w.aps) THEN @ + ListRows
                                          ELSE IF w.aps # <<>> THEN Len(w.aps) - 1 ELSE 0],
   IF w.on_rescan THEN [w EXCEPT !.on_rescan = FALSE] ELSE [w EXCEPT !.sel = IF @ > 0 THEN @ - 1 ELSE 0],
   IF PastLast(w) THEN [w EXCEPT !.on_rescan = TRUE] ELSE IF w.on_rescan THEN w ELSE [w EXCEPT !.sel = @ + 1]}
list_key ==
  /\ IsOn("list")
  /\ \/ \E w \in ListMoves(ws) : w # ws /\ Act(Moved(w), st)
     \/ ws_scan(ws)
     \/ ~ws.on_rescan /\ ws.aps # <<>> /\ join_ap(ws.sel + 1)
ws_next ==
  /\ IsOn("ssid")
  /\ \E n \in Networks : Act(show([ws EXCEPT !.ssid = n, !.from_list = FALSE], "pass"), st)
ws_connect == IsOn("pass") /\ ws_join(ws)

\* Esc on a screen with one before it; the result's OK.
ws_back ==
  \/ (\E s \in {"list", "ssid", "result", "forget", "upd_ask"} : IsOn(s)) /\ Act(show(ws, "status"), st)
  \/ IsOn("pass") /\ Act(show(ws, IF ws.from_list THEN "list" ELSE "ssid"), st)
  \/ /\ IsOn("upd_end")
     /\ ws' = Started(ws) /\ st' = StartedSteps /\ upd' = [upd EXCEPT !.step = "idle", !.result = "idle"]
     /\ wifiPast' = [wifiPast EXCEPT !.keys = @ + 1] /\ UNCHANGED <<atVars, place, trust>>

\* Opening asks the status again. The text screen is left where Esc has no screen
\* before; the page at any time, with an update too.
JoinOpen ==
  /\ place = "none" /\ wifiPast.keys < MaxWifiKeys /\ place' \in {"text", "page"}
  /\ ws' = Started(ws) /\ st' = StartedSteps
  /\ wifiPast' = [wifiPast EXCEPT !.keys = @ + 1] /\ UNCHANGED <<atVars, upd, trust>>
ws_stop ==
  /\ place = "page" \/ (place = "text" /\ ws.screen \in {"init", "no_esp", "status", "scan"})
  /\ place' = "none" /\ st' = run(st, "none")
  /\ upd' = IF place = "page" THEN [upd EXCEPT !.step = "idle", !.result = "idle"] ELSE upd
  /\ UNCHANGED <<atVars, ws, trust, wifiPast>>

WifiUser == ws_start \/ ws_menu \/ ws_confirm \/ list_key \/ ws_next \/ ws_connect \/ ws_back \/ JoinOpen \/ ws_stop
WifiNext == (Shown /\ ws_tick) \/ WifiUser

-----------------------------------------------------------------------------
(* Properties.                                                             *)

\* A screen that waits has something to wait for.
NoDeadScreen ==
  Shown => /\ ws.screen \in {"init", "scan", "join"} => st.step # "none"
           /\ ws.screen = "upd" => upd.step # "idle" \/ upd.result # "busy"
           /\ st.step # "none" => ws.screen \in {"init", "scan", "join"}

\* The status names the network the module is in, while nothing was given up since it
\* was asked and no join failed.
StatusRight == Shown /\ ws.screen = "status" /\ "jap_get" \in trust /\ job.cmd = NoCmd => ws.cur = esp.ssid

\* A join that is reported was the module's: it has the network that was chosen.
JoinedRight ==
  Shown /\ ws.screen = "result" /\ ~ws.err /\ {"join", "jap_get"} \subseteq trust /\ job.cmd = NoCmd =>
    ws.cur = ws.ssid /\ esp.ssid = ws.ssid

\* The list has each network once, the strongest first, its focus is on the screen.
ListRight ==
  /\ Len(ws.aps) <= ApMax
  /\ \A i, j \in DOMAIN ws.aps : i < j => ws.aps[i].ssid # ws.aps[j].ssid /\ ws.aps[i].rssi >= ws.aps[j].rssi
  /\ ws.screen = "list" => /\ ws.sel = 0 \/ ws.sel < Len(ws.aps)
                           /\ ws.top <= ws.sel /\ ws.sel < ws.top + ListRows

\* An update that is reported is there and its version is no other, unless a command
\* was given up.
UpdateRight == upd.result = "ok" /\ lates = 0 => (upd.restore \/ (esp.fw = 2 /\ upd.version \in {0, 2})) /\ ~upd.err

WifiRight == OwnAnswers /\ NoDeadScreen /\ StatusRight /\ JoinedRight /\ ListRight /\ UpdateRight
=============================================================================
