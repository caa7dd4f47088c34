----------------------------- MODULE InputProofs -----------------------------
(***************************************************************************)
(* Proofs about the inputs: the way of a key (RouteSpec), the buttons      *)
(* (ButtonSpec), the mouse (MouseSpec), the USB pads (PadsSpec) and the    *)
(* learning of a pad (LearnSpec), each by its own invariant.               *)
(***************************************************************************)
EXTENDS InputRouting, MousePointer, UsbPads, PadMaps, WellFoundedInduction, FiniteSetTheorems, TLAPS

-----------------------------------------------------------------------------
(* The way of a key: the inductive invariant.                              *)

Codes  == {"none"} \cup {r.mod : r \in KeyReports} \cup {r.key : r \in KeyReports}
Report == [mod : Codes, key : Codes]
Packet == [addr : {"mod", "key"}, data : Codes]
Hots   == {"none", "toggle", "sw", "file"}
InputStates == [at : {"idle", "wait", "send"}, pkt : Packet, target : Nat, hot : Hots,
                why : {"none", "late", "seen", "gone"}]

RouteTypes ==
  /\ held \in Report /\ report \in Report
  /\ queue \in Seq(Packet) /\ Len(queue) <= EventQueue
  /\ input \in InputStates
  /\ ui \in [posted : Nat, done : Nat]
  /\ app \in [at : {"loop", "look", "done"}, target : Nat]
  /\ osd \in [open : BOOLEAN, hiding : BOOLEAN, esc_held : BOOLEAN]
  /\ DOMAIN coreHas = {"mod", "key", "joy"}
  /\ DOMAIN past = {"looked", "saw", "letGo", "turns", "presses", "reports", "joys"}
  /\ past.looked \in Nat /\ past.saw \in Hots /\ past.letGo \in BOOLEAN

\* APP handles no event that was posted after it looked.
Looked ==
  /\ ui.done <= past.looked /\ past.looked <= ui.posted
  /\ app.at # "loop" => app.target <= ui.posted
  /\ app.at = "done" => app.target <= past.looked

\* Once INPUT has, or will get, the answer that APP saw the hotkey of the OSD, the
\* OSD is open, and stays so until INPUT goes on.
Answered == ui.done >= input.target \/ (app.at = "done" /\ app.target >= input.target)
Kept ==
  /\ input.at = "wait" /\ Answered /\ past.saw \in {"toggle", "file"} => osd.open
  /\ HotkeyKept

\* core1 has still to queue the bytes of the report that it shares.
ModOut == [addr |-> "mod", data |-> held.mod]
KeyOut == [addr |-> "key", data |-> held.key]
Outs == out \in {<<>>, <<KeyOut>>, <<ModOut, KeyOut>>}

\* The last packet of a byte that is on its way has what is held; when none is, the
\* core has it.
Sending(a) == \E i \in 1 .. Len(out) : out[i].addr = a
Queued(a) ==
  \E i \in 1 .. Len(queue) :
    /\ queue[i] = [addr |-> a, data |-> held[a]]
    /\ \A j \in i + 1 .. Len(queue) : queue[j].addr # a
NoneQueued(a) == \A i \in 1 .. Len(queue) : queue[i].addr # a
InHand(a) == input.at # "idle" /\ input.pkt.addr = a
Arrived(a) ==
  /\ NoneQueued(a)
  /\ InHand(a) => input.pkt.data = held[a]
  /\ ~InHand(a) => a \in skipped \/ coreHas[a] = held[a]
Arrives(a) == a \in unqueued \/ Sending(a) \/ Queued(a) \/ Arrived(a)

\* The Esc of an open OSD is remembered until APP sees it let go.
EscKnown ==
  osd.open /\ ~past.letGo => osd.esc_held /\ nav_esc(held, joyL) /\ nav_esc(report, joyL)

RouteInv ==
  /\ RouteTypes /\ Looked /\ Kept /\ EscKnown
  /\ Outs /\ coreHas.joy = joyL /\ \A a \in {"mod", "key"} : Arrives(a)

-----------------------------------------------------------------------------
(* The operators.                                                          *)

\* hotkey_find() says one of the hotkeys, and a hotkey of a file item that is not
\* the Esc of the OSD.
LEMMA HotOf ==
  ASSUME NEW r \in Report, NEW j
  PROVE  /\ hotkey_find(r, j) \in Hots
         /\ nav_esc(r, j) \in BOOLEAN
         /\ hotkey_find(r, j) = "file" => ~nav_esc(r, j)
<1>1. CASE (r.mod = "menu" /\ r.key = "esc") \/ j = "hotkey"
  <2>1. hotkey_find(r, j) = "toggle"
    BY <1>1 DEF hotkey_find
  <2> QED
    BY <2>1 DEF nav_esc, Hots
<1>2. CASE ~((r.mod = "menu" /\ r.key = "esc") \/ j = "hotkey") /\ r.key \in {"sw", "file"}
  <2>1. hotkey_find(r, j) = r.key
    BY <1>2 DEF hotkey_find
  <2> QED
    BY <1>2, <2>1 DEF nav_esc, Hots
<1>3. CASE ~((r.mod = "menu" /\ r.key = "esc") \/ j = "hotkey") /\ r.key \notin {"sw", "file"}
  <2>1. hotkey_find(r, j) = "none"
    BY <1>3 DEF hotkey_find
  <2> QED
    BY <2>1 DEF nav_esc, Hots
<1> QED
  BY <1>1, <1>2, <1>3

\* A report that a keyboard makes, and the one with nothing held.
LEMMA ReportsOk == KeyReports \subseteq Report /\ Up \in Report
<1>1. ASSUME NEW r \in KeyReports PROVE r \in Report
  <2>1. r \in [mod : STRING, key : STRING]
    BY InputAssumption
  <2>2. r.mod \in Codes /\ r.key \in Codes
    BY DEF Codes
  <2> QED
    BY <2>1, <2>2 DEF Report
<1> QED
  BY <1>1 DEF Up, Report, Codes

\* event_forward() drops the packet or has it sent.
LEMMA Forwarded ==
  ASSUME NEW i, event_forward(i)
  PROVE  \/ osd.open /\ input' = InputIdle /\ skipped' = skipped \cup {i.pkt.addr}
         \/ ~osd.open /\ input' = [i EXCEPT !.at = "send"] /\ skipped' = skipped
BY DEF event_forward

\* INPUT takes a packet: it has the packet, waits or goes on with it.
LEMMA RouteTaken ==
  ASSUME RouteInv, input_route
  PROVE  \E hot \in Hots :
           LET i == [InputIdle EXCEPT !.pkt = Head(queue), !.target = ui.posted + 1, !.hot = hot]
           IN /\ Head(queue) \in Packet /\ queue' = Tail(queue) /\ queue # <<>>
              /\ ui'.done = ui.done /\ ui' \in [posted : Nat, done : Nat]
              /\ ui'.posted \in {ui.posted, ui.posted + 1}
              /\ \/ hot # "none" /\ input' = [i EXCEPT !.at = "wait"] /\ skipped' = skipped
                    /\ ui'.posted = ui.posted + 1
                 \/ hot = "none" /\ event_forward(i)
<1> DEFINE pkt == Head(queue)
           down  == pkt.addr = "key" /\ pkt.data # "none"
           hot == IF down /\ ~osd.open THEN hotkey_find(held, joyL) ELSE "none"
           i == [InputIdle EXCEPT !.pkt = pkt, !.target = ui.posted + 1, !.hot = hot]
<1>1. Head(queue) \in Packet /\ queue' = Tail(queue) /\ queue # <<>>
  BY DEF RouteInv, RouteTypes, input_route
<1>2. ui' = IF down THEN [ui EXCEPT !.posted = @ + 1] ELSE ui
  BY DEF input_route
<1>3. ui'.done = ui.done /\ ui' \in [posted : Nat, done : Nat] /\ ui'.posted \in {ui.posted, ui.posted + 1}
  BY <1>2 DEF RouteInv, RouteTypes
<1>4. hot \in Hots
  BY HotOf DEF RouteInv, RouteTypes, Hots
<1>5. hot # "none" => down
  OBVIOUS
<1>6. IF hot # "none" THEN input' = [i EXCEPT !.at = "wait"] /\ UNCHANGED skipped ELSE event_forward(i)
  BY DEF input_route, waits
<1>7. hot # "none" => ui'.posted = ui.posted + 1
  BY <1>2, <1>5 DEF RouteInv, RouteTypes
<1> QED
  BY <1>1, <1>3, <1>4, <1>6, <1>7

-----------------------------------------------------------------------------
(* The steps keep the invariant.                                           *)

\* The types, and the queue within its size.
LEMMA TypesKept == ASSUME RouteInv, [RouteNext]_routeVars PROVE RouteTypes'
<1> USE InputAssumption
<1>1. CASE process_kbd_report
  <2>1. held' \in Report /\ past' = [past EXCEPT !.reports = past'.reports, !.letGo = past'.letGo, !.presses = past'.presses]
        /\ past'.letGo \in BOOLEAN
    <3>1. PICK r \in KeyReports :
             /\ held' = r
             /\ past' = [past EXCEPT !.reports = @ + 1, !.letGo = @ \/ ~nav_esc(r, joyL),
                     !.presses = @ + (IF r.key = "sw" /\ held.key # "sw" THEN 1 ELSE 0)]
      BY <1>1 DEF process_kbd_report
    <3> QED
      BY <3>1, HotOf, ReportsOk DEF RouteInv, RouteTypes
  <2> QED
    BY <1>1, <2>1 DEF process_kbd_report, RouteInv, RouteTypes, apps
<1>2. CASE spi_queue
  <2>1. Head(out) \in Packet
    BY <1>2 DEF spi_queue, RouteInv, RouteTypes, Outs, ModOut, KeyOut, Packet, Report
  <2>2. queue' \in Seq(Packet) /\ Len(queue') <= EventQueue
    <3>1. queue \in Seq(Packet) /\ Len(queue) <= EventQueue
      BY DEF RouteInv, RouteTypes
    <3>2. CASE Len(queue) < EventQueue
      <4>1. queue' = Append(queue, Head(out))
        BY <1>2, <3>2 DEF spi_queue
      <4> QED
        BY <2>1, <3>1, <3>2, <4>1
    <3>3. CASE ~(Len(queue) < EventQueue)
      BY <1>2, <3>1, <3>3 DEF spi_queue
    <3> QED
      BY <3>2, <3>3
  <2> QED
    BY <1>2, <2>2 DEF spi_queue, RouteInv, RouteTypes, apps
<1>3. CASE JoyMoves
  BY <1>3 DEF JoyMoves, RouteInv, RouteTypes, apps
<1>4. CASE JoyPoll
  BY <1>4 DEF JoyPoll, RouteInv, RouteTypes, apps, usb
<1>5. CASE input_route
  <2>1. PICK hot \in Hots :
           LET i == [InputIdle EXCEPT !.pkt = Head(queue), !.target = ui.posted + 1, !.hot = hot]
           IN /\ Head(queue) \in Packet /\ queue' = Tail(queue) /\ queue # <<>>
              /\ ui'.done = ui.done /\ ui' \in [posted : Nat, done : Nat]
              /\ ui'.posted \in {ui.posted, ui.posted + 1}
              /\ \/ hot # "none" /\ input' = [i EXCEPT !.at = "wait"] /\ skipped' = skipped
                    /\ ui'.posted = ui.posted + 1
                 \/ hot = "none" /\ event_forward(i)
    BY <1>5, RouteTaken
  <2> DEFINE i == [InputIdle EXCEPT !.pkt = Head(queue), !.target = ui.posted + 1, !.hot = hot]
  <2>2. input' \in {InputIdle, [i EXCEPT !.at = "wait"], [i EXCEPT !.at = "send"]}
    <3>1. CASE hot # "none"
      BY <2>1, <3>1
    <3>2. CASE hot = "none"
      <4>1. event_forward(i)
        BY <2>1, <3>2
      <4> QED
        BY <4>1, Forwarded
    <3> QED
      BY <3>1, <3>2
  <2>3. input' \in InputStates
    <3>1. InputIdle \in InputStates
      BY DEF InputIdle, InputStates, Packet, Codes, Hots
    <3>2. Head(queue) \in Packet /\ ui.posted + 1 \in Nat /\ hot \in Hots
      BY <2>1 DEF RouteInv, RouteTypes
    <3>3. i \in InputStates
      BY <3>1, <3>2 DEF InputStates
    <3> HIDE DEF i
    <3>4. [i EXCEPT !.at = "wait"] \in InputStates /\ [i EXCEPT !.at = "send"] \in InputStates
      BY <3>3 DEF InputStates
    <3> QED
      BY <2>2, <3>1, <3>4
  <2>4. queue' \in Seq(Packet) /\ Len(queue') <= EventQueue
    BY <2>1 DEF RouteInv, RouteTypes
  <2> QED
    BY <1>5, <2>1, <2>3, <2>4 DEF input_route, RouteInv, RouteTypes, apps, usb
<1>6. CASE Waited
  <2> DEFINE i == [input EXCEPT !.why =
       IF input.target > ui.done THEN "late" ELSE IF past.saw = input.hot THEN "seen" ELSE "gone"]
  <2>1. input' \in {InputIdle, [i EXCEPT !.at = "send"]}
    <3>1. event_forward(i)
      BY <1>6 DEF Waited
    <3> QED
      BY <3>1, Forwarded
  <2>2. input' \in InputStates
    <3>1. InputIdle \in InputStates
      BY DEF InputIdle, InputStates, Packet, Codes, Hots
    <3>2. i \in InputStates
      BY DEF RouteInv, RouteTypes, InputStates
    <3> HIDE DEF i
    <3>3. [i EXCEPT !.at = "send"] \in InputStates
      BY <3>2 DEF InputStates
    <3> QED
      BY <2>1, <3>1, <3>3
  <2> QED
    BY <1>6, <2>2 DEF Waited, RouteInv, RouteTypes, apps, usb
<1>7. CASE spi_send
  <2>1. input' \in InputStates
    BY <1>7 DEF spi_send, InputIdle, InputStates, Packet, Codes, Hots
  <2> QED
    BY <1>7, <2>1 DEF spi_send, RouteInv, RouteTypes, apps, usb
<1>8. CASE Take
  BY <1>8 DEF Take, RouteInv, RouteTypes, apps, usb
<1>9. CASE on_keyboard
  <2> DEFINE hot == hotkey_find(held, joyL)
             o == on_global_hotkeys(osd, hot)
  <2>1. hot \in Hots /\ nav_esc(held, joyL) \in BOOLEAN
    BY HotOf DEF RouteInv, RouteTypes
  <2>2. o \in [open : BOOLEAN, hiding : BOOLEAN, esc_held : BOOLEAN]
    BY DEF on_global_hotkeys, osd_toggle, opened, RouteInv, RouteTypes
  <2>3. osd' = ui_on_keyboard(o, nav_esc(held, joyL)) /\ app' = [app EXCEPT !.at = "done"] /\ report' = held
        /\ past' = [past EXCEPT !.looked = ui.posted, !.saw = hot,
                      !.letGo = IF o.open /\ ~osd.open THEN ~nav_esc(held, joyL) ELSE @,
                      !.turns = @ + (IF hot = "sw" THEN 1 ELSE 0)]
    BY <1>9 DEF on_keyboard
  <2> HIDE DEF hot, o
  <2>4. osd' \in [open : BOOLEAN, hiding : BOOLEAN, esc_held : BOOLEAN]
    BY <2>1, <2>2, <2>3 DEF ui_on_keyboard
  <2>5. past'.looked \in Nat /\ past'.saw \in Hots /\ past'.letGo \in BOOLEAN
        /\ DOMAIN past' = DOMAIN past
    BY <2>1, <2>3 DEF RouteInv, RouteTypes
  <2>6. app' \in [at : {"loop", "look", "done"}, target : Nat]
    BY <2>3 DEF RouteInv, RouteTypes
  <2> QED
    BY <1>9, <2>3, <2>4, <2>5, <2>6 DEF on_keyboard, RouteInv, RouteTypes, usb
<1>10. CASE Answer
  BY <1>10 DEF Answer, handled, RouteInv, RouteTypes, usb
<1>11. CASE ui_tick
  <2>1. osd' \in [open : BOOLEAN, hiding : BOOLEAN, esc_held : BOOLEAN]
    BY <1>11, HotOf DEF ui_tick, RouteInv, RouteTypes
  <2> QED
    BY <1>11, <2>1 DEF ui_tick, RouteInv, RouteTypes, usb
<1>12. CASE Sync
  BY <1>12 DEF Sync, RouteInv, RouteTypes, usb
<1>13. CASE configure
  <2> DEFINE room == EventQueue - Len(queue)
             up == <<[addr |-> "mod", data |-> "none"], [addr |-> "key", data |-> "none"]>>
             n == IF room < 2 THEN room ELSE 2
  <2>1. room \in Nat /\ n \in 0 .. 2 /\ n <= room
    BY DEF RouteInv, RouteTypes
  <2>2. up \in Seq(Packet) /\ Len(up) = 2
    BY DEF Packet, Codes
  <2>3. SubSeq(up, 1, n) \in Seq(Packet) /\ Len(SubSeq(up, 1, n)) = n
    BY <2>1, <2>2
  <2>4. queue' = queue \o SubSeq(up, 1, n) /\ DOMAIN coreHas' = DOMAIN coreHas
    BY <1>13 DEF configure
  <2> HIDE DEF n, up
  <2>5. queue' \in Seq(Packet) /\ Len(queue') <= EventQueue
    BY <2>1, <2>3, <2>4 DEF RouteInv, RouteTypes
  <2> QED
    BY <1>13, <2>4, <2>5 DEF configure, RouteInv, RouteTypes, usb, apps
<1>14. CASE UNCHANGED routeVars
  BY <1>14 DEF routeVars, RouteInv, RouteTypes
<1> QED
  BY <1>1, <1>2, <1>3, <1>4, <1>5, <1>6, <1>7, <1>8, <1>9, <1>10, <1>11, <1>12, <1>13, <1>14 DEF RouteNext

\* APP looks before it answers.
LEMMA LookedKept == ASSUME RouteInv, [RouteNext]_routeVars PROVE Looked'
<1> USE DEF RouteInv, RouteTypes, Looked
<1>1. CASE process_kbd_report \/ JoyMoves \/ spi_queue
  <2>1. UNCHANGED <<ui, app>> /\ past'.looked = past.looked
    BY <1>1 DEF process_kbd_report, JoyMoves, spi_queue, apps
  <2> QED
    BY <2>1
<1>2. CASE JoyPoll
  <2>1. app' = app /\ past'.looked = past.looked /\ ui'.done = ui.done /\ ui'.posted = ui.posted + 1
    BY <1>2 DEF JoyPoll, apps
  <2> QED
    BY <2>1
<1>3. CASE input_route
  <2>1. ui'.done = ui.done /\ ui'.posted \in {ui.posted, ui.posted + 1}
    BY <1>3, RouteTaken
  <2>2. app' = app /\ past' = past
    BY <1>3 DEF input_route, apps
  <2> QED
    BY <2>1, <2>2
<1>4. CASE Waited \/ spi_send \/ Sync \/ ui_tick
  <2>1. UNCHANGED <<ui, app, past>>
    BY <1>4 DEF Waited, spi_send, Sync, ui_tick, apps
  <2> QED
    BY <2>1
<1>5. CASE Take
  BY <1>5 DEF Take
<1>6. CASE on_keyboard
  <2>1. ui' = ui /\ app' = [app EXCEPT !.at = "done"] /\ past'.looked = ui.posted /\ app.at = "look"
    BY <1>6 DEF on_keyboard
  <2> QED
    BY <2>1
<1>7. CASE Answer
  BY <1>7 DEF Answer, handled
<1>8. CASE configure \/ UNCHANGED routeVars
  <2>1. UNCHANGED <<ui, app, past>>
    BY <1>8 DEF configure, routeVars, apps
  <2> QED
    BY <2>1
<1> QED
  BY <1>1, <1>2, <1>3, <1>4, <1>5, <1>6, <1>7, <1>8 DEF RouteNext

\* What opens the OSD leaves it open.
LEMMA OpenedByHotkey ==
  ASSUME NEW o \in [open : BOOLEAN, hiding : BOOLEAN, esc_held : BOOLEAN], NEW hot, NEW esc \in BOOLEAN
  PROVE  LET q == on_global_hotkeys(o, hot)
             r == ui_on_keyboard(q, esc)
         IN /\ q \in [open : BOOLEAN, hiding : BOOLEAN, esc_held : BOOLEAN]
            /\ r.open = q.open /\ (o.open => q.open)
            /\ hot \in {"toggle", "file"} => q.open
            /\ hot \notin {"toggle", "file"} => q = o
            /\ o.open /\ hot # "toggle" => q = o
            /\ ~o.open /\ hot = "toggle" => q.esc_held /\ q.hiding = o.hiding
            /\ ~o.open /\ hot = "file" => q.esc_held = o.esc_held /\ q.hiding = o.hiding
            /\ r.esc_held = (q.esc_held \/ esc)
            /\ q.esc_held \/ ~o.esc_held
            /\ r.hiding = (q.hiding \/ (q.open /\ esc /\ ~q.esc_held))
<1> DEFINE q == on_global_hotkeys(o, hot)
<1>1. CASE hot = "toggle" /\ o.open
  <2>1. q = [o EXCEPT !.hiding = TRUE]
    BY <1>1 DEF on_global_hotkeys, osd_toggle
  <2> QED
    BY <1>1, <2>1 DEF ui_on_keyboard
<1>2. CASE hot = "toggle" /\ ~o.open
  <2>1. q = [o EXCEPT !.open = TRUE, !.esc_held = TRUE]
    BY <1>2 DEF on_global_hotkeys, osd_toggle, opened
  <2> QED
    BY <1>2, <2>1 DEF ui_on_keyboard
<1>3. CASE hot = "file"
  <2>1. q = [o EXCEPT !.open = TRUE]
    BY <1>3 DEF on_global_hotkeys
  <2>2. o.open => q = o
    BY <2>1
  <2> QED
    BY <1>3, <2>1, <2>2 DEF ui_on_keyboard
<1>4. CASE hot \notin {"toggle", "file"}
  <2>1. q = o
    BY <1>4 DEF on_global_hotkeys
  <2> QED
    BY <1>4, <2>1 DEF ui_on_keyboard
<1> QED
  BY <1>1, <1>2, <1>3, <1>4

\* The hotkey that APP saw has opened the OSD when INPUT goes on.
LEMMA KeptKept == ASSUME RouteInv, [RouteNext]_routeVars PROVE Kept'
<1> USE DEF RouteInv, RouteTypes, Kept, HotkeyKept, Answered
<1>1. CASE process_kbd_report \/ JoyMoves \/ spi_queue
  <2>1. UNCHANGED <<ui, app, input, osd>> /\ past'.saw = past.saw
    BY <1>1 DEF process_kbd_report, JoyMoves, spi_queue, apps
  <2> QED
    BY <2>1
<1>2. CASE JoyPoll
  <2>1. input' = input /\ input.at = "idle"
    BY <1>2 DEF JoyPoll
  <2> QED
    BY <2>1
<1>3. CASE input_route
  <2>1. PICK hot \in Hots :
           LET i == [InputIdle EXCEPT !.pkt = Head(queue), !.target = ui.posted + 1, !.hot = hot]
           IN /\ ui'.done = ui.done
              /\ \/ hot # "none" /\ input' = [i EXCEPT !.at = "wait"]
                 \/ hot = "none" /\ event_forward(i)
    BY <1>3, RouteTaken
  <2> DEFINE i == [InputIdle EXCEPT !.pkt = Head(queue), !.target = ui.posted + 1, !.hot = hot]
  <2>2. CASE hot # "none"
    <3>1. input'.at = "wait" /\ input'.target = ui.posted + 1
      BY <2>1, <2>2 DEF InputIdle
    <3>2. app' = app
      BY <1>3 DEF input_route, apps
    <3>3. ~(ui.done >= ui.posted + 1) /\ ~(app.at = "done" /\ app.target >= ui.posted + 1)
      BY DEF Looked
    <3> QED
      BY <2>1, <3>1, <3>2, <3>3
  <2>3. CASE hot = "none"
    <3>1. input' \in {InputIdle, [i EXCEPT !.at = "send"]}
      BY <2>1, <2>3, Forwarded
    <3>2. i.hot = "none" /\ DOMAIN i = DOMAIN InputIdle /\ "at" \in DOMAIN InputIdle
      BY <2>3 DEF InputIdle
    <3> HIDE DEF i
    <3>3. input'.hot = "none" /\ input'.at # "wait"
      <4>1. CASE input' = InputIdle
        BY <4>1 DEF InputIdle
      <4>2. CASE input' = [i EXCEPT !.at = "send"]
        BY <3>2, <4>2 DEF InputIdle
      <4> QED
        BY <3>1, <4>1, <4>2
    <3> QED
      BY <3>3
  <2> QED
    BY <2>2, <2>3
<1>4. CASE Waited
  <2> DEFINE i == [input EXCEPT !.why =
       IF input.target > ui.done THEN "late" ELSE IF past.saw = input.hot THEN "seen" ELSE "gone"]
  <2>1. input' = InputIdle \/ (~osd.open /\ input' = [i EXCEPT !.at = "send"])
    <3>1. event_forward(i)
      BY <1>4 DEF Waited
    <3> QED
      BY <3>1, Forwarded
  <2>2. CASE input' = InputIdle
    BY <2>2 DEF InputIdle
  <2>3. CASE ~osd.open /\ input' = [i EXCEPT !.at = "send"]
    <3>1. input'.at = "send" /\ input'.hot = input.hot /\ input'.why = i.why
      BY <2>3 DEF InputStates
    <3>2. i.why = IF input.target > ui.done THEN "late" ELSE IF past.saw = input.hot THEN "seen" ELSE "gone"
      BY DEF InputStates
    <3>3. input.hot \in {"toggle", "file"} => i.why \in {"late", "gone"}
      <4>1. input.at = "wait"
        BY <1>4 DEF Waited
      <4>2. ui.done >= input.target \/ input.target > ui.done
        BY DEF InputStates
      <4>3. ASSUME input.hot \in {"toggle", "file"}, past.saw = input.hot, ~(input.target > ui.done)
            PROVE  FALSE
        <5>1. Answered /\ past.saw \in {"toggle", "file"}
          BY <4>2, <4>3
        <5> QED
          BY <2>3, <4>1, <5>1
      <4> QED
        BY <3>2, <4>3
    <3> HIDE DEF i
    <3> QED
      BY <3>1, <3>3
  <2> QED
    BY <2>1, <2>2, <2>3
<1>5. CASE spi_send
  BY <1>5 DEF spi_send, InputIdle
<1>6. CASE Take
  BY <1>6 DEF Take
<1>7. CASE on_keyboard
  <2> DEFINE hot == hotkey_find(held, joyL)
             o == on_global_hotkeys(osd, hot)
  <2>1. /\ input' = input /\ past'.saw = hot
        /\ osd' = ui_on_keyboard(o, nav_esc(held, joyL))
    BY <1>7 DEF on_keyboard
  <2>2. hot \in {"toggle", "file"} => osd'.open
    BY <2>1, OpenedByHotkey, HotOf
  <2> HIDE DEF hot, o
  <2> QED
    BY <2>1, <2>2
<1>8. CASE Answer
  <2>1. app.at = "done" /\ ui'.done = app.target /\ app'.at = "loop" /\ UNCHANGED <<input, osd, past>>
    BY <1>8 DEF Answer, handled
  <2> QED
    BY <2>1 DEF InputStates
<1>9. CASE ui_tick
  <2>1. UNCHANGED <<input, ui, app, past>> /\ app.at = "loop"
    BY <1>9 DEF ui_tick
  <2>2. input.at = "wait" /\ input.target <= ui.done => osd'.open = osd.open
    BY <1>9 DEF ui_tick
  <2>3. input.target \in Nat
    BY DEF InputStates
  <2> QED
    BY <2>1, <2>2, <2>3
<1>10. CASE Sync \/ configure \/ UNCHANGED routeVars
  <2>1. UNCHANGED <<input, osd, past, ui, app>>
    BY <1>10 DEF Sync, configure, routeVars, apps
  <2> QED
    BY <2>1
<1> QED
  BY <1>1, <1>2, <1>3, <1>4, <1>5, <1>6, <1>7, <1>8, <1>9, <1>10 DEF RouteNext

\* The Esc of the open OSD is known until it is let go, and only a new one, or the
\* hotkey itself, hides the OSD.
LEMMA EscKept ==
  ASSUME RouteInv, [RouteNext]_routeVars
  PROVE  /\ EscKnown'
         /\ osd'.hiding /\ ~osd.hiding => (osd.open /\ past'.saw = "toggle") \/ past'.letGo
<1> USE DEF RouteInv, RouteTypes, EscKnown
<1>1. CASE process_kbd_report
  <2>1. PICK r \in KeyReports : held' = r /\ past'.letGo = (past.letGo \/ ~nav_esc(r, joyL))
    BY <1>1 DEF process_kbd_report
  <2>2. UNCHANGED <<joyL, osd, report>>
    BY <1>1 DEF process_kbd_report, apps
  <2> QED
    BY <2>1, <2>2
<1>2. CASE JoyPoll
  <2>1. past'.letGo = (past.letGo \/ ~nav_esc(held, joyL') \/ ~nav_esc(report, joyL'))
    BY <1>2 DEF JoyPoll
  <2>2. UNCHANGED <<held, osd, report>>
    BY <1>2 DEF JoyPoll, apps, usb
  <2> QED
    BY <2>1, <2>2
<1>3. CASE spi_queue \/ JoyMoves
  <2>1. UNCHANGED <<held, joyL, osd, report>> /\ past'.letGo = past.letGo
    BY <1>3 DEF spi_queue, JoyMoves, apps
  <2> QED
    BY <2>1
<1>4. CASE input_route \/ Waited \/ spi_send
  <2>1. UNCHANGED <<held, joyL, osd, report, past>>
    BY <1>4 DEF input_route, Waited, spi_send, apps, usb
  <2> QED
    BY <2>1
<1>5. CASE Take \/ Answer \/ configure \/ UNCHANGED routeVars
  <2>1. UNCHANGED <<held, joyL, osd, report, past>>
    BY <1>5 DEF Take, Answer, configure, routeVars, apps, usb
  <2> QED
    BY <2>1
<1>6. CASE on_keyboard
  <2> DEFINE hot == hotkey_find(held, joyL)
             esc == nav_esc(held, joyL)
             o == on_global_hotkeys(osd, hot)
  <2>1. /\ osd' = ui_on_keyboard(o, esc) /\ past'.saw = hot /\ report' = held
        /\ past'.letGo = IF o.open /\ ~osd.open THEN ~esc ELSE past.letGo
        /\ held' = held /\ joyL' = joyL
    BY <1>6 DEF on_keyboard, usb
  <2>2. esc \in BOOLEAN /\ (hot = "file" => ~esc)
    BY HotOf
  <2>3. /\ osd'.open = o.open /\ (osd.open => o.open)
        /\ hot \in {"toggle", "file"} => o.open
        /\ hot \notin {"toggle", "file"} => o = osd
        /\ osd.open /\ hot # "toggle" => o = osd
        /\ ~osd.open /\ hot = "toggle" => o.esc_held /\ o.hiding = osd.hiding
        /\ ~osd.open /\ hot = "file" => o.esc_held = osd.esc_held /\ o.hiding = osd.hiding
        /\ osd'.esc_held = (o.esc_held \/ esc)
        /\ o.esc_held \/ ~osd.esc_held
        /\ osd'.hiding = (o.hiding \/ (o.open /\ esc /\ ~o.esc_held))
    BY <2>1, <2>2, OpenedByHotkey
  <2> HIDE DEF o, hot
  <2>4. EscKnown'
    <3>1. nav_esc(held', joyL') = esc /\ nav_esc(report', joyL') = esc
      BY <2>1
    <3>2. CASE o.open /\ ~osd.open
      BY <2>1, <2>2, <2>3, <3>1, <3>2
    <3>3. CASE ~(o.open /\ ~osd.open)
      <4>1. past'.letGo = past.letGo /\ osd'.open = osd.open
        BY <2>1, <2>3, <3>3
      <4>2. osd.esc_held => osd'.esc_held
        BY <2>2, <2>3
      <4> QED
        BY <3>1, <4>1, <4>2
    <3> QED
      BY <3>2, <3>3
  <2>5. ASSUME osd'.hiding, ~osd.hiding PROVE (osd.open /\ past'.saw = "toggle") \/ past'.letGo
    <3>1. CASE osd.open /\ hot = "toggle"
      BY <2>1, <3>1
    <3>2. CASE osd.open /\ hot # "toggle"
      <4>1. o = osd /\ past'.letGo = past.letGo
        BY <2>1, <2>3, <3>2
      <4>2. esc /\ ~osd.esc_held
        BY <2>3, <2>5, <4>1
      <4> QED
        BY <3>2, <4>1, <4>2
    <3>3. CASE ~osd.open /\ hot = "toggle"
      BY <2>3, <2>5, <3>3
    <3>4. CASE ~osd.open /\ hot # "toggle"
      <4>1. o.hiding = osd.hiding
        BY <2>3, <3>4
      <4>2. o.open /\ esc
        BY <2>3, <2>5, <4>1
      <4>3. hot = "file"
        BY <2>3, <3>4, <4>2
      <4> QED
        BY <2>2, <4>2, <4>3
    <3> QED
      BY <3>1, <3>2, <3>3, <3>4
  <2> QED
    BY <2>4, <2>5
<1>7. CASE ui_tick
  <2>1. PICK timer \in BOOLEAN :
          osd' = [open |-> osd.open /\ ~(osd.hiding /\ timer), hiding |-> osd.hiding /\ ~timer,
                  esc_held |-> osd.esc_held /\ nav_esc(report, joyL)]
    BY <1>7 DEF ui_tick
  <2>2. UNCHANGED <<held, joyL, report, past>>
    BY <1>7 DEF ui_tick, usb
  <2> QED
    BY <2>1, <2>2
<1>8. CASE Sync
  BY <1>8 DEF Sync, usb
<1> QED
  BY <1>1, <1>2, <1>3, <1>4, <1>5, <1>6, <1>7, <1>8 DEF RouteNext

\* A packet that is put at the end of the queue, or one that leaves its head.
LEMMA Appended ==
  ASSUME NEW q \in Seq(Packet), NEW e \in Packet
  PROVE  /\ Append(q, e) \in Seq(Packet) /\ Len(Append(q, e)) = Len(q) + 1
         /\ Append(q, e)[Len(q) + 1] = e
         /\ \A i \in 1 .. Len(q) : Append(q, e)[i] = q[i]
OBVIOUS

\* What is left of the queue when its head is taken.
LEMMA Popped ==
  ASSUME NEW q \in Seq(Packet), q # <<>>
  PROVE  /\ Len(q) \in Nat /\ Len(q) >= 1 /\ Len(Tail(q)) = Len(q) - 1 /\ Head(q) = q[1] /\ Head(q) \in Packet
         /\ \A i \in 1 .. Len(q) - 1 : Tail(q)[i] = q[i + 1]
OBVIOUS

\* core1 queues a packet or loses it.
LEMMA QueuedOrLost ==
  ASSUME RouteInv, spi_queue
  PROVE  Outs' /\ \A a \in {"mod", "key"} : Arrives(a)'
<1>1. /\ out # <<>> /\ out' = Tail(out) /\ held' = held /\ input' = input /\ coreHas' = coreHas
      /\ skipped' = skipped
      /\ IF Len(queue) < EventQueue
         THEN queue' = Append(queue, Head(out)) /\ unqueued' = unqueued \ {Head(out).addr}
         ELSE queue' = queue /\ unqueued' = unqueued \cup {Head(out).addr}
  BY DEF spi_queue
<1>2. /\ queue \in Seq(Packet) /\ held \in Report
      /\ \A a \in {"mod", "key"} : Arrives(a)
  BY DEF RouteInv, RouteTypes
<1>3. ModOut \in Packet /\ KeyOut \in Packet
  BY <1>2 DEF ModOut, KeyOut, Packet, Report
<1>4. \/ out = <<KeyOut>> /\ Head(out) = KeyOut /\ out' = <<>>
      \/ out = <<ModOut, KeyOut>> /\ Head(out) = ModOut /\ out' = <<KeyOut>>
  <2>1. CASE out = <<KeyOut>>
    BY <1>1, <2>1
  <2>2. CASE out = <<ModOut, KeyOut>>
    <3>1. Head(out) = ModOut /\ Tail(out) = <<KeyOut>>
      BY <2>2
    <3> QED
      BY <1>1, <2>2, <3>1
  <2> QED
    BY <1>1, <2>1, <2>2 DEF RouteInv, Outs
<1>5. Outs' /\ KeyOut' = KeyOut /\ ModOut' = ModOut
  BY <1>1, <1>4 DEF Outs, KeyOut, ModOut
<1>6. ASSUME NEW a \in {"mod", "key"} PROVE Arrives(a)'
  <2> DEFINE h == Head(out)
  <2>1. h \in Packet /\ h = [addr |-> h.addr, data |-> held[h.addr]]
    BY <1>3, <1>4 DEF ModOut, KeyOut
  <2>2. Sending(a) => a = h.addr \/ Sending(a)'
    BY <1>4, <1>5 DEF Sending, ModOut, KeyOut
  <2> HIDE DEF h
  <2>3. CASE ~(Len(queue) < EventQueue)
    <3>1. queue' = queue /\ unqueued' = unqueued \cup {h.addr}
      BY <1>1, <2>3 DEF h
    <3>2. CASE a = h.addr
      BY <3>1, <3>2 DEF Arrives
    <3>3. CASE a # h.addr
      <4>1. Arrives(a)
        BY <1>2
      <4>2. Queued(a) => Queued(a)'
        BY <1>1, <3>1 DEF Queued
      <4>3. Arrived(a) => Arrived(a)'
        BY <1>1, <3>1 DEF Arrived, NoneQueued, InHand
      <4> QED
        BY <2>2, <3>1, <3>3, <4>1, <4>2, <4>3 DEF Arrives
    <3> QED
      BY <3>2, <3>3
  <2>4. CASE Len(queue) < EventQueue
    <3>1. queue' = Append(queue, h) /\ unqueued' = unqueued \ {h.addr}
      BY <1>1, <2>4 DEF h
    <3>2. /\ Len(queue') = Len(queue) + 1 /\ Len(queue) \in Nat
          /\ queue'[Len(queue) + 1] = h
          /\ \A i \in 1 .. Len(queue) : queue'[i] = queue[i]
      BY <1>2, <2>1, <3>1, Appended
    <3>3. CASE a = h.addr
      <4>1. Len(queue) + 1 \in 1 .. Len(queue') /\ Len(queue) + 2 > Len(queue')
        BY <3>2
      <4>2. queue'[Len(queue) + 1] = [addr |-> a, data |-> held'[a]]
        BY <1>1, <2>1, <3>2, <3>3
      <4>3. \A j \in (Len(queue) + 1) + 1 .. Len(queue') : queue'[j].addr # a
        BY <3>2
      <4>4. Queued(a)'
        BY <4>1, <4>2, <4>3 DEF Queued
      <4> QED
        BY <4>4 DEF Arrives
    <3>4. CASE a # h.addr
      <4>1. Arrives(a)
        BY <1>2
      <4>2. Queued(a) => Queued(a)'
        <5>1. SUFFICES ASSUME Queued(a) PROVE Queued(a)'
          OBVIOUS
        <5>2. PICK i \in 1 .. Len(queue) :
                /\ queue[i] = [addr |-> a, data |-> held[a]]
                /\ \A j \in i + 1 .. Len(queue) : queue[j].addr # a
          BY <5>1 DEF Queued
        <5>3. i \in 1 .. Len(queue') /\ queue'[i] = [addr |-> a, data |-> held'[a]]
          BY <1>1, <3>2, <5>2
        <5>4. ASSUME NEW j \in i + 1 .. Len(queue') PROVE queue'[j].addr # a
          <6>1. CASE j = Len(queue) + 1
            BY <3>2, <3>4, <6>1
          <6>2. CASE j # Len(queue) + 1
            <7>1. j \in i + 1 .. Len(queue) /\ j \in 1 .. Len(queue)
              BY <3>2, <6>2
            <7> QED
              BY <3>2, <5>2, <7>1
          <6> QED
            BY <6>1, <6>2
        <5> QED
          BY <5>3, <5>4 DEF Queued
      <4>3. Arrived(a) => Arrived(a)'
        <5>1. NoneQueued(a) => NoneQueued(a)'
          BY <3>2, <3>4 DEF NoneQueued
        <5> QED
          BY <1>1, <5>1 DEF Arrived, InHand
      <4> QED
        BY <2>2, <3>1, <3>4, <4>1, <4>2, <4>3 DEF Arrives
    <3> QED
      BY <3>3, <3>4
  <2> QED
    BY <2>3, <2>4
<1> QED
  BY <1>5, <1>6

\* INPUT takes the packet at the head of the queue.
LEMMA TakenArrives ==
  ASSUME RouteInv, input_route, NEW a \in {"mod", "key"}
  PROVE  Arrives(a)'
<1>1. /\ input.at = "idle" /\ held' = held /\ out' = out /\ unqueued' = unqueued /\ coreHas' = coreHas
      /\ queue # <<>> /\ queue' = Tail(queue)
  BY DEF input_route, usb
<1>2. queue \in Seq(Packet) /\ Arrives(a)
  BY DEF RouteInv, RouteTypes
<1>3. /\ Len(queue) \in Nat /\ Len(queue) >= 1 /\ Len(queue') = Len(queue) - 1 /\ Head(queue) = queue[1]
      /\ Head(queue) \in Packet /\ \A i \in 1 .. Len(queue) - 1 : queue'[i] = queue[i + 1]
  BY <1>1, <1>2, Popped
<1>4. \/ input'.at = "idle" /\ skipped' = skipped \cup {Head(queue).addr}
      \/ input'.at # "idle" /\ input'.pkt = Head(queue) /\ skipped' = skipped
  <2>1. PICK hot \in Hots :
           LET i == [InputIdle EXCEPT !.pkt = Head(queue), !.target = ui.posted + 1, !.hot = hot]
           IN \/ hot # "none" /\ input' = [i EXCEPT !.at = "wait"] /\ skipped' = skipped
              \/ hot = "none" /\ event_forward(i)
    BY RouteTaken
  <2> DEFINE i == [InputIdle EXCEPT !.pkt = Head(queue), !.target = ui.posted + 1, !.hot = hot]
  <2>2. i.pkt = Head(queue) /\ DOMAIN i = DOMAIN InputIdle /\ {"at", "pkt"} \subseteq DOMAIN InputIdle
    BY DEF InputIdle
  <2>3. \/ input' \in {[i EXCEPT !.at = "wait"], [i EXCEPT !.at = "send"]} /\ skipped' = skipped
        \/ input' = InputIdle /\ skipped' = skipped \cup {i.pkt.addr}
    <3>1. CASE hot # "none"
      BY <2>1, <3>1
    <3>2. CASE hot = "none"
      <4>1. event_forward(i)
        BY <2>1, <3>2
      <4> HIDE DEF i
      <4> QED
        BY <4>1, Forwarded
    <3> QED
      BY <3>1, <3>2
  <2> HIDE DEF i
  <2>4. CASE input' = InputIdle /\ skipped' = skipped \cup {i.pkt.addr}
    BY <2>2, <2>4 DEF InputIdle
  <2>5. CASE input' \in {[i EXCEPT !.at = "wait"], [i EXCEPT !.at = "send"]} /\ skipped' = skipped
    <3>1. input'.at # "idle" /\ input'.pkt = i.pkt
      BY <2>2, <2>5
    <3> QED
      BY <2>2, <2>5, <3>1
  <2> QED
    BY <2>3, <2>4, <2>5
<1>5. Sending(a) => Sending(a)'
  BY <1>1 DEF Sending
<1>6. Queued(a) => Queued(a)' \/ Arrived(a)'
  <2>1. SUFFICES ASSUME Queued(a) PROVE Queued(a)' \/ Arrived(a)'
    OBVIOUS
  <2>2. PICK i \in 1 .. Len(queue) :
          /\ queue[i] = [addr |-> a, data |-> held[a]]
          /\ \A j \in i + 1 .. Len(queue) : queue[j].addr # a
    BY <2>1 DEF Queued
  <2>3. CASE i = 1
    <3>1. Head(queue) = [addr |-> a, data |-> held[a]]
      BY <1>3, <2>2, <2>3
    <3>2. NoneQueued(a)'
      BY <1>3, <2>2, <2>3 DEF NoneQueued
    <3>3. InHand(a)' => input'.pkt.data = held'[a]
      BY <1>1, <1>4, <3>1 DEF InHand
    <3>4. ~InHand(a)' => a \in skipped'
      BY <1>4, <3>1 DEF InHand
    <3> QED
      BY <3>2, <3>3, <3>4 DEF Arrived
  <2>4. CASE i # 1
    <3>1. i - 1 \in 1 .. Len(queue') /\ (i - 1) + 1 = i /\ queue'[i - 1] = queue[i]
      BY <1>3, <2>4
    <3>2. queue'[i - 1] = [addr |-> a, data |-> held'[a]]
      BY <1>1, <2>2, <3>1
    <3>3. ASSUME NEW j \in (i - 1) + 1 .. Len(queue') PROVE queue'[j].addr # a
      <4>1. j \in 1 .. Len(queue) - 1 /\ j + 1 \in i + 1 .. Len(queue)
        BY <1>3, <3>1
      <4>2. queue'[j] = queue[j + 1]
        BY <1>3, <4>1
      <4> QED
        BY <2>2, <4>1, <4>2
    <3>4. Queued(a)'
      BY <3>1, <3>2, <3>3 DEF Queued
    <3> QED
      BY <3>4
  <2> QED
    BY <2>3, <2>4
<1>7. Arrived(a) => Arrived(a)'
  <2>1. SUFFICES ASSUME Arrived(a) PROVE Arrived(a)'
    OBVIOUS
  <2>2. Head(queue).addr # a /\ NoneQueued(a)'
    BY <1>3, <2>1 DEF Arrived, NoneQueued
  <2>3. ~InHand(a) /\ ~InHand(a)'
    BY <1>1, <1>4, <2>2 DEF InHand
  <2>4. a \in skipped' \/ coreHas'[a] = held'[a]
    BY <1>1, <1>4, <2>1, <2>3 DEF Arrived
  <2> QED
    BY <2>2, <2>3, <2>4 DEF Arrived
<1> QED
  BY <1>1, <1>2, <1>5, <1>6, <1>7 DEF Arrives

\* A core load queues the keys as released.
LEMMA ReleasedArrives ==
  ASSUME RouteInv, configure, NEW a \in {"mod", "key"}
  PROVE  Arrives(a)'
<1> DEFINE room == EventQueue - Len(queue)
           up == <<[addr |-> "mod", data |-> "none"], [addr |-> "key", data |-> "none"]>>
           n == IF room < 2 THEN room ELSE 2
<1>1. /\ held' = held /\ queue' = queue \o SubSeq(up, 1, n)
      /\ unqueued' = {b \in {"mod", "key"} : held[b] # "none"} \cup {up[i].addr : i \in room + 1 .. 2}
  BY DEF configure, usb
<1>2. room \in Nat /\ n \in 0 .. 2 /\ queue \in Seq(Packet) /\ (n < 2 => n = room) /\ Len(queue) \in Nat
  BY InputAssumption DEF RouteInv, RouteTypes
<1>3. up[1].addr = "mod" /\ up[2].addr = "key" /\ Len(up) = 2
  OBVIOUS
<1> DEFINE k == IF a = "mod" THEN 1 ELSE 2
<1>4. k \in 1 .. 2 /\ up[k] = [addr |-> a, data |-> "none"] /\ \A j \in k + 1 .. 2 : up[j].addr # a
  <2>1. CASE a = "mod"
    BY <2>1
  <2>2. CASE a = "key"
    BY <2>2
  <2> QED
    BY <2>1, <2>2
<1> HIDE DEF k
<1>5. CASE a \in unqueued'
  BY <1>5 DEF Arrives
<1>6. CASE a \notin unqueued'
  <2>1. held[a] = "none"
    BY <1>1, <1>6
  <2>2. k <= n
    <3>1. SUFFICES ASSUME ~(k <= n) PROVE FALSE
      OBVIOUS
    <3>2. n = room /\ k \in room + 1 .. 2
      BY <1>2, <1>4, <3>1
    <3> QED
      BY <1>1, <1>4, <1>6, <3>2
  <2>3. /\ Len(queue') = Len(queue) + n
        /\ \A i \in 1 .. n : queue'[Len(queue) + i] = up[i]
    <3>1. up \in Seq(Packet)
      BY DEF Packet, Codes
    <3>2. SubSeq(up, 1, n) \in Seq(Packet) /\ Len(SubSeq(up, 1, n)) = n
          /\ \A i \in 1 .. n : SubSeq(up, 1, n)[i] = up[i]
      BY <1>2, <1>3, <3>1
    <3> HIDE DEF up, n
    <3> QED
      BY <1>1, <1>2, <3>2
  <2> HIDE DEF up, n, room
  <2>4. Len(queue) + k \in 1 .. Len(queue') /\ queue'[Len(queue) + k] = [addr |-> a, data |-> held'[a]]
    BY <1>1, <1>2, <1>4, <2>1, <2>2, <2>3
  <2>5. ASSUME NEW j \in (Len(queue) + k) + 1 .. Len(queue') PROVE queue'[j].addr # a
    <3>1. j - Len(queue) \in 1 .. n /\ j - Len(queue) \in k + 1 .. 2 /\ Len(queue) + (j - Len(queue)) = j
      BY <1>2, <1>4, <2>3
    <3>2. queue'[j] = up[j - Len(queue)]
      BY <2>3, <3>1
    <3> QED
      BY <1>4, <3>1, <3>2
  <2>6. Queued(a)'
    BY <2>4, <2>5 DEF Queued
  <2> QED
    BY <2>6 DEF Arrives
<1> QED
  BY <1>5, <1>6

\* A byte that is held is on its way to the core until the core has it.
LEMMA ArrivesKept ==
  ASSUME RouteInv, [RouteNext]_routeVars
  PROVE  Outs' /\ (coreHas.joy = joyL)' /\ \A a \in {"mod", "key"} : Arrives(a)'
<1>1. /\ Outs /\ coreHas.joy = joyL /\ RouteTypes
      /\ \A a \in {"mod", "key"} : Arrives(a)
  BY DEF RouteInv
<1>2. CASE process_kbd_report
  <2>1. PICK r \in KeyReports :
          /\ r # held /\ held' = r
          /\ differs(r) =>
               out' = <<[addr |-> "mod", data |-> r.mod], [addr |-> "key", data |-> r.key]>>
    BY <1>2 DEF process_kbd_report
  <2>2. out' = <<ModOut, KeyOut>>'
    BY <2>1 DEF differs, ModOut, KeyOut
  <2>3. Sending("mod")' /\ Sending("key")'
    BY <2>2 DEF Sending, ModOut, KeyOut
  <2>4. UNCHANGED <<coreHas, joyL>>
    BY <1>2 DEF process_kbd_report
  <2>5. Outs'
    BY <2>2 DEF Outs
  <2>6. Arrives("mod")' /\ Arrives("key")'
    BY <2>3 DEF Arrives
  <2> QED
    BY <1>1, <2>4, <2>5, <2>6
<1>3. CASE spi_queue
  <2>1. UNCHANGED <<coreHas, joyL>>
    BY <1>3 DEF spi_queue
  <2> QED
    BY <1>1, <1>3, <2>1, QueuedOrLost
<1>4. CASE JoyPoll
  <2>1. /\ UNCHANGED <<held, out, queue, input, skipped, unqueued>> /\ joyL' = joy
        /\ coreHas' = [coreHas EXCEPT !.joy = joy]
    BY <1>4 DEF JoyPoll, usb
  <2>2. coreHas'.joy = joyL' /\ \A a \in {"mod", "key"} : coreHas'[a] = coreHas[a]
    BY <1>1, <2>1 DEF RouteTypes
  <2>3. \A a \in {"mod", "key"} : Arrives(a)'
    BY <1>1, <2>1, <2>2 DEF Arrives, Sending, Queued, Arrived, NoneQueued, InHand
  <2>4. Outs'
    BY <1>1, <2>1 DEF Outs, KeyOut, ModOut
  <2> QED
    BY <2>2, <2>3, <2>4
<1>5. CASE input_route
  <2>1. UNCHANGED <<held, out, coreHas, joyL>>
    BY <1>5 DEF input_route, usb
  <2>2. Outs'
    BY <1>1, <2>1 DEF Outs, KeyOut, ModOut
  <2> QED
    BY <1>1, <1>5, <2>1, <2>2, TakenArrives
<1>6. CASE Waited
  <2>1. /\ UNCHANGED <<held, out, queue, unqueued, coreHas, joyL>> /\ input.at # "idle"
    BY <1>6 DEF Waited, usb
  <2>2. \/ input'.at = "idle" /\ skipped' = skipped \cup {input.pkt.addr}
        \/ input'.at # "idle" /\ input'.pkt = input.pkt /\ skipped' = skipped
    <3> DEFINE i == [input EXCEPT !.why =
         IF input.target > ui.done THEN "late" ELSE IF past.saw = input.hot THEN "seen" ELSE "gone"]
    <3>1. event_forward(i)
      BY <1>6 DEF Waited
    <3>2. i.pkt = input.pkt /\ DOMAIN i = {"at", "pkt", "target", "hot", "why"}
      BY <1>1 DEF RouteTypes, InputStates
    <3> HIDE DEF i
    <3>3. \/ input' = InputIdle /\ skipped' = skipped \cup {i.pkt.addr}
          \/ input' = [i EXCEPT !.at = "send"] /\ skipped' = skipped
      BY <3>1, Forwarded
    <3>4. CASE input' = InputIdle /\ skipped' = skipped \cup {i.pkt.addr}
      BY <3>2, <3>4 DEF InputIdle
    <3>5. CASE input' = [i EXCEPT !.at = "send"] /\ skipped' = skipped
      BY <3>2, <3>5
    <3> QED
      BY <3>3, <3>4, <3>5
  <2>3. Outs'
    BY <1>1, <2>1 DEF Outs, KeyOut, ModOut
  <2>4. ASSUME NEW a \in {"mod", "key"} PROVE Arrives(a)'
    <3>1. (Sending(a) => Sending(a)') /\ (Queued(a) => Queued(a)') /\ (NoneQueued(a) => NoneQueued(a)')
      BY <2>1 DEF Sending, Queued, NoneQueued
    <3>2. Arrived(a) => Arrived(a)'
      BY <2>1, <2>2, <3>1 DEF Arrived, InHand
    <3> QED
      BY <1>1, <2>1, <3>1, <3>2 DEF Arrives
  <2> QED
    BY <1>1, <2>1, <2>3, <2>4
<1>7. CASE spi_send
  <2> DEFINE p == input.pkt
  <2>1. /\ UNCHANGED <<held, out, queue, unqueued, joyL>> /\ input.at = "send" /\ input'.at = "idle"
        /\ coreHas' = [coreHas EXCEPT ![p.addr] = p.data] /\ skipped' = skipped \ {p.addr}
    BY <1>7 DEF spi_send, usb, InputIdle
  <2>2. p.addr \in {"mod", "key"}
    BY <1>1 DEF RouteTypes, InputStates, Packet
  <2>3. Outs'
    BY <1>1, <2>1 DEF Outs, KeyOut, ModOut
  <2>4. coreHas'.joy = coreHas.joy /\ coreHas'[p.addr] = p.data
        /\ \A a \in {"mod", "key"} \ {p.addr} : coreHas'[a] = coreHas[a]
    BY <1>1, <2>1, <2>2 DEF RouteTypes
  <2>5. ASSUME NEW a \in {"mod", "key"} PROVE Arrives(a)'
    <3>1. (Sending(a) => Sending(a)') /\ (Queued(a) => Queued(a)') /\ (NoneQueued(a) => NoneQueued(a)')
      BY <2>1 DEF Sending, Queued, NoneQueued
    <3>2. Arrived(a) => Arrived(a)'
      BY <2>1, <2>4, <3>1 DEF Arrived, InHand
    <3> QED
      BY <1>1, <2>1, <3>1, <3>2 DEF Arrives
  <2> QED
    BY <1>1, <2>1, <2>3, <2>4, <2>5
<1>8. CASE configure
  <2>1. UNCHANGED <<held, out, joyL>> /\ coreHas' = [coreHas EXCEPT !.mod = "none", !.key = "none"]
    BY <1>8 DEF configure, usb
  <2>2. Outs' /\ coreHas'.joy = coreHas.joy
    BY <1>1, <2>1 DEF Outs, KeyOut, ModOut, RouteTypes
  <2> QED
    BY <1>1, <1>8, <2>1, <2>2, ReleasedArrives
<1>9. CASE JoyMoves \/ Take \/ on_keyboard \/ Answer \/ ui_tick \/ Sync \/ UNCHANGED routeVars
  <2>1. UNCHANGED <<held, out, queue, input, joyL, coreHas, skipped, unqueued>>
    <3>1. CASE JoyMoves \/ Take \/ on_keyboard
      BY <3>1 DEF JoyMoves, Take, on_keyboard, usb
    <3>2. CASE Answer \/ ui_tick \/ Sync
      BY <3>2 DEF Answer, ui_tick, Sync, usb
    <3>3. CASE UNCHANGED routeVars
      BY <3>3 DEF routeVars
    <3> QED
      BY <1>9, <3>1, <3>2, <3>3
  <2>2. Outs'
    BY <1>1, <2>1 DEF Outs, KeyOut, ModOut
  <2>3. \A a \in {"mod", "key"} : Arrives(a)'
    BY <1>1, <2>1 DEF Arrives, Sending, Queued, Arrived, NoneQueued, InHand
  <2> QED
    BY <1>1, <2>1, <2>2, <2>3
<1> QED
  BY <1>2, <1>3, <1>4, <1>5, <1>6, <1>7, <1>8, <1>9 DEF RouteNext

-----------------------------------------------------------------------------
(* The theorems.                                                           *)

\* RouteInv is an invariant of the way of a key.
THEOREM RouteInvariant == RouteSpec => []RouteInv
<1>1. RouteInit => RouteInv
  <2> SUFFICES ASSUME RouteInit PROVE RouteInv
    OBVIOUS
  <2>1. InputIdle \in InputStates /\ InputIdle.at = "idle"
    BY DEF InputIdle, InputStates, Packet, Codes, Hots
  <2>2. Up \in Report /\ Up.mod = "none" /\ Up.key = "none"
    BY ReportsOk DEF Up
  <2>3. queue = <<>> /\ queue \in Seq(Packet) /\ Len(queue) = 0 /\ EventQueue \in Nat
    BY InputAssumption DEF RouteInit
  <2>4. RouteTypes
    BY <2>1, <2>2, <2>3 DEF RouteInit, RouteTypes, Hots
  <2>5. Looked /\ Outs /\ EscKnown
    BY DEF RouteInit, Looked, Outs, EscKnown
  <2>6. Kept
    BY <2>1 DEF RouteInit, Kept, HotkeyKept
  <2>7. ASSUME NEW a \in {"mod", "key"} PROVE Arrives(a)
    <3>1. NoneQueued(a) /\ ~InHand(a) /\ coreHas[a] = held[a]
      BY <2>1, <2>2, <2>3 DEF RouteInit, NoneQueued, InHand
    <3> QED
      BY <3>1 DEF Arrives, Arrived
  <2>8. coreHas.joy = joyL
    BY DEF RouteInit
  <2> QED
    BY <2>4, <2>5, <2>6, <2>7, <2>8 DEF RouteInv
<1>2. RouteInv /\ [RouteNext]_routeVars => RouteInv'
  BY TypesKept, LookedKept, KeptKept, EscKept, ArrivesKept DEF RouteInv
<1> QED
  BY <1>1, <1>2, PTL DEF RouteSpec

\* Once nothing moves the core has what is held.
LEMMA StillRight == ASSUME RouteInv PROVE HeldRight
<1>1. SUFFICES ASSUME out = <<>>, queue = <<>>, input.at = "idle",
                      NEW a \in {"mod", "key"} \ (skipped \cup unqueued)
               PROVE  coreHas[a] = held[a]
  BY DEF HeldRight, RouteInv
<1>2. Arrives(a) /\ ~Sending(a) /\ ~Queued(a) /\ ~InHand(a)
  BY <1>1 DEF RouteInv, Sending, Queued, InHand
<1> QED
  BY <1>1, <1>2 DEF Arrives, Arrived

\* What a user of the keyboard and the pads relies on: INPUT takes an event for
\* handled only after APP looked, the hotkey that opens the OSD stays out of the
\* core, the core ends up with the keys that are held, and the Esc that opened the
\* OSD does not close it; for every size of the queue and any number of reports.
THEOREM InputIsRight == RouteSpec => InputRight
<1>1. RouteInv => LookedAt /\ HotkeyKept /\ HeldRight
  BY StillRight DEF RouteInv, Looked, LookedAt, Kept
<1>2. RouteInv /\ [RouteNext]_routeVars =>
        [osd'.hiding /\ ~osd.hiding => (osd.open /\ past'.saw = "toggle") \/ past'.letGo]_routeVars
  BY EscKept
<1> QED
  BY <1>1, <1>2, RouteInvariant, PTL DEF RouteSpec, InputRight, ClosesOnNewEsc

-----------------------------------------------------------------------------
(* The buttons.                                                            *)

\* A press has run what it had to by now, and the core knows the button's state.
ButtonTypes ==
  /\ DOMAIN btn = {"press", "hold", "hold_ms"} /\ btn.hold # "core"
  /\ level \in BOOLEAN /\ hears \in BOOLEAN
  /\ pressed \in [state : BOOLEAN, held : BOOLEAN, debounce : Nat, since : Nat]
  /\ now \in Nat /\ (level => now > 0)
  /\ seen.long \in BOOLEAN
  /\ press.runs \in Nat /\ DOMAIN press = {"runs", "what"}

Ran(p, a) == DOMAIN p = {"runs", "what"} /\ p.runs = 1 /\ p.what = a
HoldRan  == Ran(press, btn.hold)
PressRan == IF btn.press \in {"none", "core"} THEN press = NoPress ELSE Ran(press, btn.press)

RunsRight ==
  /\ pressed.state =>
       /\ pressed.since > 0
       /\ pressed.held = (btn.hold # "none" /\ seen.long)
       /\ IF pressed.held THEN HoldRan ELSE IF btn.hold = "none" THEN PressRan ELSE press = NoPress
  /\ ~pressed.state =>
       IF pressed.since = 0 THEN press = NoPress
       ELSE IF btn.hold # "none" /\ seen.long THEN HoldRan ELSE PressRan

ButtonInv == ButtonTypes /\ RunsRight /\ CoreHears

\* An action that runs is counted and remembered.
LEMMA RunOf ==
  ASSUME NEW a
  PROVE  /\ a \in {"none", "core"} => btn_run(NoPress, a) = NoPress
         /\ a \notin {"none", "core"} => Ran(btn_run(NoPress, a), a)
<1>1. CASE a \in {"none", "core"}
  BY <1>1 DEF btn_run
<1>2. CASE a \notin {"none", "core"}
  <2>1. NoPress.runs + 1 = 1 /\ DOMAIN NoPress = {"runs", "what"}
    BY DEF NoPress
  <2>2. btn_run(NoPress, a) = [NoPress EXCEPT !.runs = NoPress.runs + 1, !.what = a]
    BY <1>2 DEF btn_run
  <2> QED
    BY <1>2, <2>1, <2>2 DEF Ran
<1> QED
  BY <1>1, <1>2

\* ButtonInv is an invariant of a button.
THEOREM ButtonInvariant == ButtonSpec => []ButtonInv
<1> USE DEF ButtonTypes
<1>1. ButtonInit => ButtonInv
  <2> SUFFICES ASSUME ButtonInit PROVE ButtonInv
    OBVIOUS
  <2>1. btn.hold # "core" /\ DOMAIN btn = {"press", "hold", "hold_ms"}
    BY DEF ButtonInit
  <2>2. pressed = [state |-> FALSE, held |-> FALSE, debounce |-> 0, since |-> 0] /\ press = NoPress
        /\ level = FALSE /\ hears = FALSE /\ now = 0 /\ seen.long = FALSE
    BY DEF ButtonInit
  <2>3. NoPress.runs = 0 /\ DOMAIN NoPress = {"runs", "what"}
    BY DEF NoPress
  <2> QED
    <3>1. ButtonTypes
      <4>1. pressed \in [state : BOOLEAN, held : BOOLEAN, debounce : Nat, since : Nat]
        BY <2>2
      <4>2. press.runs \in Nat /\ DOMAIN press = {"runs", "what"}
        BY <2>2, <2>3
      <4>3. level \in BOOLEAN /\ hears \in BOOLEAN /\ seen.long \in BOOLEAN
        BY <2>2
      <4>4. now \in Nat /\ (level => now > 0)
        BY <2>2
      <4> QED
        BY <2>1, <4>1, <4>2, <4>3, <4>4
    <3>2. pressed.state = FALSE /\ pressed.since = 0
      BY <2>2
    <3>3. RunsRight /\ CoreHears
      BY <2>2, <3>2 DEF RunsRight, CoreHears
    <3> QED
      BY <3>1, <3>3 DEF ButtonInv
<1>2. ButtonInv /\ [ButtonNext]_btnVars => ButtonInv'
  <2> SUFFICES ASSUME ButtonInv, ButtonNext PROVE ButtonInv'
    BY DEF btnVars, ButtonInv, RunsRight, CoreHears, HoldRan, PressRan, Ran
  <2> DEFINE fresh == pressed'.state /\ ~pressed.state
             long == pressed.state /\ level /\ now - pressed.since >= btn.hold_ms
  <2>1. /\ btn' = btn /\ level' \in BOOLEAN /\ now' \in Nat /\ now' > now
        /\ seen'.long = (long \/ (seen.long /\ ~fresh))
    BY DEF ButtonNext, ButtonInv
  <2>2. seen'.long \in BOOLEAN /\ now' > 0
    BY <2>1 DEF ButtonInv
  <2>3. CASE Same
    <3>1. level = pressed.state /\ hears' = hears
      BY <2>3 DEF Same
    <3>2. CASE level /\ hold_due
      <4>1. pressed' = [pressed EXCEPT !.debounce = now, !.held = TRUE] /\ press' = btn_run(press, btn.hold)
        BY <2>3, <3>2 DEF Same, once
      <4>2. btn.hold # "none" /\ ~pressed.held /\ long /\ pressed.state
        BY <3>1, <3>2 DEF hold_due
      <4>3. press = NoPress
        BY <4>2 DEF ButtonInv, RunsRight
      <4>4. Ran(press', btn.hold)
        BY <4>1, <4>2, <4>3, RunOf DEF ButtonInv
      <4>5. pressed' \in [state : BOOLEAN, held : BOOLEAN, debounce : Nat, since : Nat]
            /\ pressed'.state = pressed.state /\ pressed'.held = TRUE
        BY <4>1 DEF ButtonInv
      <4>6. ButtonTypes'
        BY <2>1, <2>2, <3>1, <4>4, <4>5 DEF ButtonInv, Ran
      <4>7. RunsRight'
        <5>1. pressed'.since = pressed.since /\ pressed.since > 0
          BY <4>1, <4>2 DEF ButtonInv, RunsRight
        <5> QED
          BY <2>1, <4>2, <4>4, <4>5, <5>1 DEF RunsRight, HoldRan, Ran
      <4> QED
        BY <2>1, <3>1, <4>5, <4>6, <4>7 DEF ButtonInv, CoreHears
    <3>3. CASE ~(level /\ hold_due)
      <4>1. pressed' = [pressed EXCEPT !.debounce = now] /\ press' = press
        BY <2>3, <3>3 DEF Same
      <4>2. pressed' \in [state : BOOLEAN, held : BOOLEAN, debounce : Nat, since : Nat]
            /\ pressed'.state = pressed.state /\ pressed'.held = pressed.held /\ pressed'.since = pressed.since
        BY <4>1 DEF ButtonInv
      <4>3. btn.hold # "none" /\ pressed.state => (seen'.long = seen.long \/ pressed.held)
        BY <2>1, <3>1, <3>3, <4>2 DEF hold_due, ButtonInv
      <4>4. pressed.state /\ pressed.held => seen'.long
        BY <2>1, <4>2, <3>1 DEF ButtonInv, RunsRight
      <4>5. ~pressed.state => seen'.long = seen.long
        BY <2>1, <4>2 DEF ButtonInv
      <4>6. ButtonTypes'
        BY <2>1, <2>2, <3>1, <4>1, <4>2 DEF ButtonInv
      <4>7. RunsRight'
        BY <2>1, <2>2, <4>1, <4>2, <4>3, <4>4, <4>5 DEF RunsRight, ButtonInv, HoldRan, PressRan, Ran
      <4> QED
        BY <2>1, <3>1, <4>2, <4>6, <4>7 DEF ButtonInv, CoreHears
    <3> QED
      BY <3>2, <3>3
  <2>4. CASE Bounce
    <3>1. UNCHANGED <<pressed, press, hears>> /\ level # pressed.state
      BY <2>4 DEF Bounce
    <3>2. seen'.long = seen.long
      BY <2>1, <3>1 DEF ButtonInv
    <3>3. ButtonTypes'
      BY <2>1, <2>2, <3>1 DEF ButtonInv
    <3> QED
      BY <2>1, <3>1, <3>2, <3>3 DEF ButtonInv, RunsRight, CoreHears, HoldRan, PressRan, Ran
  <2>5. CASE Change
    <3>1. level = ~pressed.state
      BY <2>5 DEF Change, ButtonInv
    <3>2. CASE level
      <4>1. pressed' = [pressed EXCEPT !.state = TRUE, !.held = FALSE, !.since = now] /\ now > 0
        BY <2>5, <3>2 DEF Change, ButtonInv
      <4>2. pressed' \in [state : BOOLEAN, held : BOOLEAN, debounce : Nat, since : Nat]
            /\ pressed'.state = TRUE /\ pressed'.held = FALSE
        BY <4>1 DEF ButtonInv
      <4>3. seen'.long = FALSE
        BY <2>1, <3>1, <3>2, <4>2 DEF ButtonInv
      <4>4. IF btn.press = "core" THEN hears' = TRUE /\ press' = NoPress
            ELSE press' = (IF btn.hold = "none" THEN btn_run(NoPress, btn.press) ELSE NoPress) /\ hears' = hears
        BY <2>5, <3>2 DEF Change, press_due, ButtonInv
      <4>5. IF btn.hold = "none" THEN PressRan' ELSE press' = NoPress
        BY <2>1, <4>4, RunOf DEF PressRan, Ran
      <4>6. press'.runs \in Nat /\ DOMAIN press' = {"runs", "what"}
        BY <2>1, <4>5 DEF PressRan, NoPress, Ran
      <4>7. ButtonTypes'
        BY <2>1, <2>2, <4>2, <4>4, <4>6 DEF ButtonInv
      <4>8. RunsRight'
        <5>1. pressed'.since > 0
          BY <4>1 DEF ButtonInv
        <5> QED
          BY <2>1, <4>2, <4>3, <4>5, <5>1 DEF RunsRight
      <4> QED
        BY <2>1, <4>2, <4>4, <4>7, <4>8 DEF ButtonInv, CoreHears
    <3>3. CASE ~level
      <4>1. pressed' = [pressed EXCEPT !.state = FALSE] /\ pressed.state
        BY <2>5, <3>1, <3>3 DEF Change
      <4>2. pressed' \in [state : BOOLEAN, held : BOOLEAN, debounce : Nat, since : Nat]
            /\ pressed'.state = FALSE
        BY <4>1 DEF ButtonInv
      <4>3. seen'.long = seen.long
        BY <2>1, <3>3, <4>2 DEF ButtonInv
      <4>4. IF btn.press = "core" THEN hears' = FALSE /\ press' = press
            ELSE press' = (IF btn.hold # "none" /\ ~pressed.held THEN btn_run(press, btn.press) ELSE press)
                 /\ hears' = hears
        BY <2>5, <3>3 DEF Change, press_due, ButtonInv
      <4>5. IF btn.hold # "none" /\ seen'.long THEN HoldRan' ELSE PressRan'
        <5>1. CASE pressed.held
          <6>1. press' = press /\ HoldRan /\ btn.hold # "none" /\ seen.long
            BY <4>1, <4>4, <5>1 DEF ButtonInv, RunsRight
          <6> QED
            BY <2>1, <4>3, <6>1 DEF HoldRan, Ran
        <5>2. CASE ~pressed.held /\ btn.hold = "none"
          <6>1. press' = press /\ PressRan
            BY <4>1, <4>4, <5>2 DEF ButtonInv, RunsRight
          <6> QED
            BY <2>1, <5>2, <6>1 DEF PressRan, Ran
        <5>3. CASE ~pressed.held /\ btn.hold # "none"
          <6>1. press = NoPress /\ ~seen.long
            BY <4>1, <5>3 DEF ButtonInv, RunsRight
          <6>2. press' = IF btn.press = "core" THEN NoPress ELSE btn_run(NoPress, btn.press)
            BY <4>4, <5>3, <6>1
          <6>3. PressRan'
            BY <2>1, <6>2, RunOf DEF PressRan, Ran
          <6> QED
            BY <4>3, <6>1, <6>3
        <5> QED
          BY <5>1, <5>2, <5>3
      <4>6. press'.runs \in Nat /\ DOMAIN press' = {"runs", "what"}
        BY <4>5 DEF PressRan, HoldRan, NoPress, Ran
      <4>7. pressed'.since = pressed.since /\ pressed.since > 0
        BY <4>1 DEF ButtonInv, RunsRight
      <4>8. ButtonTypes'
        BY <2>1, <2>2, <4>2, <4>4, <4>6 DEF ButtonInv
      <4>9. RunsRight'
        <5>1. pressed'.since # 0
          BY <4>7 DEF ButtonInv
        <5> QED
          BY <2>1, <4>2, <4>5, <5>1 DEF RunsRight
      <4> QED
        BY <2>1, <4>2, <4>4, <4>8, <4>9 DEF ButtonInv, CoreHears
    <3> QED
      BY <3>2, <3>3
  <2> QED
    BY <2>3, <2>4, <2>5 DEF ButtonNext
<1> QED
  BY <1>1, <1>2, PTL DEF ButtonSpec

\* A press that is over ran one action, the hold action if the loop found it held
\* that long, and the core was told of its button; for every debounce and hold time.
THEOREM ButtonsAreRight == ButtonSpec => []ButtonsRight
<1>1. ButtonInv => ButtonsRight
  <2> SUFFICES ASSUME ButtonInv PROVE OneAction
    BY DEF ButtonInv, ButtonsRight
  <2>1. HoldRan => press.runs = 1 /\ press.what = btn.hold
    BY DEF HoldRan, Ran
  <2>2. PressRan => press.runs <= 1 /\ press.what = IF btn.press = "core" THEN "none" ELSE btn.press
    BY DEF PressRan, NoPress, Ran
  <2>3. NoPress.runs = 0
    BY DEF NoPress
  <2>4. press.runs <= 1
    BY <2>1, <2>2, <2>3 DEF ButtonInv, ButtonTypes, RunsRight
  <2>5. ASSUME ~pressed.state, pressed.since > 0
        PROVE  press.what = IF seen.long /\ btn.hold # "none" THEN btn.hold
                            ELSE IF btn.press = "core" THEN "none" ELSE btn.press
    <3>1. pressed.since # 0
      BY <2>5 DEF ButtonInv, ButtonTypes
    <3> QED
      BY <2>1, <2>2, <2>5, <3>1 DEF ButtonInv, RunsRight
  <2> QED
    BY <2>4, <2>5 DEF OneAction
<1> QED
  BY <1>1, ButtonInvariant, PTL

-----------------------------------------------------------------------------
(* The mouse.                                                              *)

\* A move of a report has no more than a byte, its sign with it.
MovesFit ==
  /\ ByteRange \in Nat /\ ByteRange >= 2
  /\ \A d \in Deltas : d \in Int /\ -(ByteRange \div 2) <= d /\ d < ByteRange \div 2

Pointers == [x : Int, rem : Int, visible : BOOLEAN, pending : BOOLEAN, buttons : BOOLEAN]

MouseTypes ==
  /\ mouse \in [d : Int, buttons : BOOLEAN, pressed : BOOLEAN, changed : BOOLEAN]
  /\ (~mouse.changed => mouse.d = 0 /\ ~mouse.pressed)
  /\ core_mouse \in [sum : Int, buttons : BOOLEAN, said : BOOLEAN]
  /\ ptr \in Pointers
  /\ ft_screen \in [name : Screens, content : {0, 1}, speed : Speeds, cores : BOOLEAN]
  /\ DOMAIN shown = {"name", "content", "at", "hover"}
  /\ DOMAIN mousePast = {"reports", "keys", "moved", "asked", "all", "down", "act"}
  /\ mousePast.keys \in Nat /\ mousePast.moved \in Int /\ mousePast.asked \in Int
  /\ mousePast.all \in Int /\ mousePast.down \in BOOLEAN

MouseInv ==
  /\ MouseTypes /\ PointerRight
  /\ core_mouse.said = core_mouse.buttons

\* The core gets a move of a byte with its sign.
LEMMA SignedOf ==
  ASSUME MovesFit, NEW d \in Deltas \cup {0}
  PROVE  d \in Int /\ Signed(d % ByteRange) = d
<1>1. /\ ByteRange \in Nat /\ ByteRange >= 2 /\ d \in Int
      /\ -(ByteRange \div 2) <= d /\ (d < ByteRange \div 2 \/ d = 0)
  BY DEF MovesFit
<1>2. /\ ByteRange \div 2 \in Nat /\ ByteRange \div 2 >= 1 /\ 2 * (ByteRange \div 2) <= ByteRange
      /\ ByteRange < 2 * (ByteRange \div 2) + 2
  BY <1>1
<1> DEFINE h == ByteRange \div 2
<1> HIDE DEF h
<1>3. CASE d >= 0
  <2>1. d % ByteRange = d
    BY <1>1, <1>2, <1>3
  <2> QED
    BY <1>1, <1>2, <1>3, <2>1 DEF Signed
<1>4. CASE d < 0
  <2>1. d % ByteRange = d + ByteRange
    BY <1>1, <1>2, <1>4
  <2> QED
    BY <1>1, <1>2, <1>4, <2>1 DEF Signed
<1> QED
  BY <1>1, <1>3, <1>4

\* What the constants are.
LEMMA SpeedsOk == /\ \A s \in Speeds : s \in Int
                  /\ \A d \in Deltas \cup {0} : d \in Int
<1>1. ASSUME NEW s \in Speeds PROVE s \in Int
  <2>1. s \in Nat
    BY MouseAssumption, Zenon
  <2> QED
    BY <2>1
<1>2. ASSUME NEW d \in Deltas \cup {0} PROVE d \in Int
  BY MouseAssumption
<1> QED
  BY <1>1, <1>2

\* scale() gives the places of a move and keeps the rest; a place is four quarters.
LEMMA ScaleOf ==
  ASSUME MouseTypes
  PROVE  LET s == scale(mouse.d)
         IN /\ s.step \in Int /\ s.rem \in Int
            /\ 4 * s.step + s.rem = mouse.d * ft_screen.speed + ptr.rem
<1> DEFINE v == mouse.d * ft_screen.speed + ptr.rem
<1>1. v \in Int
  <2>1. mouse.d \in Int /\ ft_screen.speed \in Speeds /\ ptr.rem \in Int
    BY DEF MouseTypes, Pointers
  <2>2. ft_screen.speed \in Int
    BY <2>1, SpeedsOk
  <2> QED
    BY <2>1, <2>2
<1> HIDE DEF v
<1>2. Quot(v) \in Int
  BY <1>1 DEF Quot
<1>3. scale(mouse.d) = [step |-> Quot(v), rem |-> v - 4 * Quot(v)]
  BY DEF scale, v
<1> QED
  BY <1>1, <1>2, <1>3 DEF v

\* A poll moves the pointer and asks for a redraw whenever what is to be seen of it
\* has changed.
LEMMA PollOf ==
  ASSUME MouseTypes, NEW late \in BOOLEAN, NEW due \in BOOLEAN
  PROVE  LET e == poll(late, due)
         IN /\ e.ptr \in Pointers /\ e.step \in Int /\ e.moved \in BOOLEAN /\ e.pressed \in BOOLEAN
            /\ 4 * e.step + e.ptr.rem = mouse.d * ft_screen.speed + ptr.rem
            /\ e.pressed => ptr.visible
            /\ ~e.ptr.pending /\ ~e.moved =>
                 e.ptr.x = ptr.x /\ e.ptr.visible = ptr.visible /\ ~ptr.pending
<1> DEFINE s    == scale(mouse.d)
           here == mouse.changed /\ (s.step # 0 \/ mouse.pressed)
           p    == IF ~mouse.changed THEN ptr
                   ELSE [ptr EXCEPT !.x = IF s.step # 0 THEN Clip(@ + s.step) ELSE @, !.rem = s.rem,
                                    !.visible = @ \/ here, !.buttons = mouse.buttons,
                                    !.pending = @ \/ s.step # 0 \/ (here /\ ~ptr.visible)]
           q    == IF p.visible /\ late /\ ~here THEN [p EXCEPT !.visible = FALSE, !.pending = TRUE] ELSE p
           e    == [ptr |-> [q EXCEPT !.pending = @ /\ ~due], moved |-> q.pending /\ due,
                    pressed |-> mouse.changed /\ ptr.visible /\ mouse.pressed,
                    step |-> IF mouse.changed THEN s.step ELSE 0]
<1>1. poll(late, due) = e
  BY DEF poll
<1>2. s.step \in Int /\ s.rem \in Int /\ 4 * s.step + s.rem = mouse.d * ft_screen.speed + ptr.rem
  BY ScaleOf
<1> HIDE DEF s
<1>3. /\ ptr \in Pointers /\ mouse.changed \in BOOLEAN /\ mouse.pressed \in BOOLEAN /\ mouse.buttons \in BOOLEAN
      /\ here \in BOOLEAN
  BY DEF MouseTypes
<1>4. mouse.changed => Clip(ptr.x + s.step) \in Int
  BY <1>2, <1>3, MouseAssumption DEF Clip, Pointers
<1> HIDE DEF here
<1>5. /\ p \in Pointers
      /\ p.rem = IF mouse.changed THEN s.rem ELSE ptr.rem
      /\ ~p.pending => p.x = ptr.x /\ p.visible = ptr.visible /\ ~ptr.pending
  <2>1. CASE ~mouse.changed
    BY <1>3, <2>1
  <2>2. CASE mouse.changed
    <3> DEFINE x1 == IF s.step # 0 THEN Clip(ptr.x + s.step) ELSE ptr.x
               v1 == ptr.visible \/ here
               n1 == ptr.pending \/ s.step # 0 \/ (here /\ ~ptr.visible)
    <3>1. x1 \in Int /\ v1 \in BOOLEAN /\ n1 \in BOOLEAN
      BY <1>3, <1>4, <2>2 DEF Pointers
    <3>2. ~n1 => x1 = ptr.x /\ v1 = ptr.visible /\ ~ptr.pending
      BY <1>3 DEF Pointers
    <3>3. p = [ptr EXCEPT !.x = x1, !.rem = s.rem, !.visible = v1, !.buttons = mouse.buttons, !.pending = n1]
      BY <2>2
    <3> HIDE DEF x1, v1, n1, p
    <3>4. p \in Pointers /\ p.x = x1 /\ p.rem = s.rem /\ p.visible = v1 /\ p.pending = n1
      BY <1>2, <1>3, <3>1, <3>3 DEF Pointers
    <3> QED
      BY <2>2, <3>2, <3>4
  <2> QED
    BY <2>1, <2>2
<1> HIDE DEF p
<1>6. /\ q \in Pointers /\ q.rem = p.rem
      /\ ~q.pending => q.x = ptr.x /\ q.visible = ptr.visible /\ ~ptr.pending
  <2>1. CASE p.visible /\ late /\ ~here
    BY <1>5, <2>1 DEF Pointers
  <2>2. CASE ~(p.visible /\ late /\ ~here)
    BY <1>5, <2>2
  <2> QED
    BY <2>1, <2>2
<1> HIDE DEF q
<1>7. /\ e.ptr \in Pointers /\ e.ptr.rem = q.rem /\ e.ptr.x = q.x /\ e.ptr.visible = q.visible
      /\ e.ptr.pending = (q.pending /\ ~due) /\ e.moved = (q.pending /\ due)
  BY <1>6 DEF Pointers
<1>8. e.step = IF mouse.changed THEN s.step ELSE 0
  OBVIOUS
<1>9. 4 * e.step + e.ptr.rem = mouse.d * ft_screen.speed + ptr.rem
  <2>1. CASE mouse.changed
    BY <1>2, <1>5, <1>6, <1>7, <1>8, <2>1
  <2>2. CASE ~mouse.changed
    <3>1. mouse.d = 0 /\ ptr.rem \in Int /\ ft_screen.speed \in Int
      <4>1. mouse.d = 0 /\ ft_screen.speed \in Speeds /\ ptr.rem \in Int
        BY <2>2 DEF MouseTypes, Pointers
      <4> QED
        BY <4>1, SpeedsOk
    <3> QED
      BY <1>5, <1>6, <1>7, <1>8, <2>2, <3>1
  <2> QED
    BY <2>1, <2>2
<1>10. e.step \in Int /\ e.moved \in BOOLEAN /\ e.pressed \in BOOLEAN /\ (e.pressed => ptr.visible)
  <2>1. q.pending \in BOOLEAN
    BY <1>6 DEF Pointers
  <2>2. e.moved \in BOOLEAN /\ e.step \in Int
    BY <1>2, <2>1
  <2>3. e.pressed = (mouse.changed /\ ptr.visible /\ mouse.pressed)
    OBVIOUS
  <2> HIDE DEF e
  <2> QED
    BY <2>2, <2>3
<1> HIDE DEF e
<1> QED
  BY <1>1, <1>6, <1>7, <1>9, <1>10

\* The frame of a screen has its name and content; the kept frame, with the pointer at
\* its new place over the same area, is that of the screen.
LEMMA FrameOf ==
  ASSUME NEW s, NEW p
  PROVE  /\ DOMAIN Frame(s, p) = {"name", "content", "at", "hover"}
         /\ Frame(s, p).name = s.name /\ Frame(s, p).content = s.content
         /\ Frame(s, p).at = (IF p.visible THEN p.x ELSE Hidden)
         /\ Frame(s, p).hover = ft_hover(s.content, p)
         /\ shown \in [{"name", "content", "at", "hover"} -> {shown[f] : f \in DOMAIN shown}]
            /\ shown.name = s.name /\ shown.content = s.content
            /\ ft_hover(shown.content, p) = shown.hover
              => PointerFrame(p) = Frame(s, p)
BY DEF Frame, PointerFrame

\* Opening the browser drops the rest of the moves and hides the pointer.
LEMMA OpenedOf ==
  ASSUME NEW p \in Pointers, NEW name
  PROVE  /\ Opened(p, name) \in Pointers
         /\ Opened(p, name).rem = IF name = "browser" THEN 0 ELSE p.rem
         /\ Reset(p) \in Pointers /\ Reset(p).rem = 0
<1>1. Reset(p) \in Pointers /\ Reset(p).rem = 0
  <2>1. SUFFICES ASSUME NEW n, n = [p EXCEPT !.rem = 0, !.visible = FALSE, !.pending = FALSE]
                 PROVE  n \in Pointers /\ n.rem = 0
    BY DEF Reset
  <2>2. n = [x |-> p.x, rem |-> 0, visible |-> FALSE, pending |-> FALSE, buttons |-> p.buttons]
    BY <2>1 DEF Pointers
  <2>3. p.x \in Int /\ p.buttons \in BOOLEAN
    BY DEF Pointers
  <2> QED
    BY <2>2, <2>3 DEF Pointers
<1>2. CASE name = "browser"
  BY <1>1, <1>2 DEF Opened
<1>3. CASE name # "browser"
  <2>1. Opened(p, name) = [p EXCEPT !.visible = FALSE]
    BY <1>3 DEF Opened
  <2> QED
    BY <1>1, <1>3, <2>1 DEF Pointers
<1> QED
  BY <1>2, <1>3

\* A click shows another screen, never other cores.
LEMMA ClickedOf ==
  ASSUME MouseTypes, NEW id, NEW to \in Clicked(id)
  PROVE  /\ to \in [name : Screens, content : {0, 1}, speed : Speeds, cores : BOOLEAN]
         /\ to.cores = ft_screen.cores
<1>1. CASE id = NoHit
  BY <1>1 DEF Clicked, MouseTypes
<1>2. CASE id # NoHit
  BY <1>2 DEF Clicked, MouseTypes
<1> QED
  BY <1>1, <1>2

\* A report of the mouse.
LEMMA ReportKept == ASSUME MovesFit, MouseInv, process_mouse_report PROVE MouseInv'
<1>1. PICK d \in Deltas \cup {0}, b \in BOOLEAN :
        /\ mouse_add(d, b)
        /\ core_mouse' = IF d # 0 \/ b # core_mouse.said
                         THEN [sum |-> core_mouse.sum + Signed(d % ByteRange), buttons |-> b, said |-> b]
                         ELSE core_mouse
        /\ mousePast' = [mousePast EXCEPT !.reports = @ + 1, !.all = @ + d, !.down = @ \/ (b /\ ~mouse.buttons)]
  BY DEF process_mouse_report
<1>2. UNCHANGED <<ptr, ft_screen, shown>>
  BY DEF process_mouse_report
<1>3. d \in Int /\ Signed(d % ByteRange) = d
  BY SignedOf
<1>4. MouseTypes /\ PointerRight /\ core_mouse.said = core_mouse.buttons
  BY DEF MouseInv
<1>5. /\ mouse'.d = mouse.d + d /\ mouse'.buttons = b /\ mouse'.changed = TRUE
      /\ mouse'.pressed = (mouse.pressed \/ (b /\ ~mouse.buttons))
      /\ mouse' \in [d : Int, buttons : BOOLEAN, pressed : BOOLEAN, changed : BOOLEAN]
  BY <1>1, <1>3, <1>4 DEF mouse_add, MouseTypes
<1>6. /\ core_mouse' \in [sum : Int, buttons : BOOLEAN, said : BOOLEAN]
      /\ core_mouse'.sum = core_mouse.sum + d /\ core_mouse'.buttons = b /\ core_mouse'.said = b
  <2>1. core_mouse.sum \in Int /\ core_mouse.said = core_mouse.buttons
    BY <1>4 DEF MouseTypes
  <2>2. CASE d # 0 \/ b # core_mouse.said
    BY <1>1, <1>3, <2>1, <2>2
  <2>3. CASE ~(d # 0 \/ b # core_mouse.said)
    BY <1>1, <1>3, <1>4, <2>1, <2>3 DEF MouseTypes
  <2> QED
    BY <2>2, <2>3
<1>7. /\ DOMAIN mousePast' = DOMAIN mousePast
      /\ mousePast'.keys = mousePast.keys /\ mousePast'.moved = mousePast.moved
      /\ mousePast'.asked = mousePast.asked /\ mousePast'.act = mousePast.act
      /\ mousePast'.all = mousePast.all + d
      /\ mousePast'.down = (mousePast.down \/ (b /\ ~mouse.buttons))
  BY <1>1, <1>4 DEF MouseTypes
<1>8. MouseTypes'
  <2>1. mousePast'.all \in Int /\ mousePast'.down \in BOOLEAN
    BY <1>3, <1>4, <1>5, <1>7 DEF MouseTypes
  <2> QED
    BY <1>2, <1>4, <1>5, <1>6, <1>7, <2>1 DEF MouseTypes
<1>9. PointerRight'
  <2>1. MovesSum'
    BY <1>2, <1>4, <1>7 DEF PointerRight, MovesSum
  <2>2. PressesKept'
    BY <1>4, <1>5, <1>7 DEF PointerRight, PressesKept
  <2>3. ShownIsTrue'
    BY <1>2, <1>4, <1>7 DEF PointerRight, ShownIsTrue
  <2>4. CoreMoves'
    BY <1>4, <1>5, <1>6, <1>7 DEF PointerRight, CoreMoves
  <2> QED
    BY <2>1, <2>2, <2>3, <2>4 DEF PointerRight
<1> QED
  BY <1>6, <1>8, <1>9 DEF MouseInv

\* What APP leaves of the moves that it takes.
LEMMA TakenOf ==
  ASSUME NEW m \in [d : Int, buttons : BOOLEAN, pressed : BOOLEAN, changed : BOOLEAN],
         NEW n, n = [m EXCEPT !.d = 0, !.pressed = FALSE, !.changed = FALSE]
  PROVE  /\ n \in [d : Int, buttons : BOOLEAN, pressed : BOOLEAN, changed : BOOLEAN]
         /\ n.d = 0 /\ ~n.pressed /\ n.buttons = m.buttons
<1>1. n = [d |-> 0, buttons |-> m.buttons, pressed |-> FALSE, changed |-> FALSE]
  OBVIOUS
<1>2. m.buttons \in BOOLEAN
  OBVIOUS
<1>3. n \in [d : Int, buttons : BOOLEAN, pressed : BOOLEAN, changed : BOOLEAN]
  <2>1. [d |-> 0, buttons |-> m.buttons, pressed |-> FALSE, changed |-> FALSE]
          \in [d : Int, buttons : BOOLEAN, pressed : BOOLEAN, changed : BOOLEAN]
    BY <1>2
  <2> QED
    BY <1>1, <2>1, Zenon
<1>4. n.d = 0 /\ n.buttons = m.buttons
  BY <1>1
<1>5. ~n.pressed
  BY <1>1
<1> QED
  BY <1>3, <1>4, <1>5

\* APP takes the moves and draws what has changed.
LEMMA TickKept == ASSUME MouseInv, mouse_tick PROVE MouseInv'
<1>1. MouseTypes /\ PointerRight /\ core_mouse.said = core_mouse.buttons
  BY DEF MouseInv
<1>2. PICK late, due \in BOOLEAN : ft_tick(poll(late, due))
  BY DEF mouse_tick
<1> DEFINE e == poll(late, due)
           p == e.ptr
           back == ft_screen'.name = "browser" /\ ft_screen.name # "browser"
           asked == mouse.d * ft_screen.speed
<1>3. /\ p \in Pointers /\ e.step \in Int /\ e.moved \in BOOLEAN /\ e.pressed \in BOOLEAN
      /\ 4 * e.step + p.rem = asked + ptr.rem
      /\ e.pressed => ptr.visible
      /\ ~p.pending /\ ~e.moved => p.x = ptr.x /\ p.visible = ptr.visible /\ ~ptr.pending
  BY <1>1, PollOf
<1>4. asked \in Int
  <2>1. mouse.d \in Int /\ ft_screen.speed \in Speeds
    BY <1>1 DEF MouseTypes
  <2> QED
    BY <2>1, SpeedsOk
<1>5. ft_tick(e)
  BY <1>2
<1> HIDE DEF e
<1>6. /\ core_mouse' = core_mouse /\ mouse' = [mouse EXCEPT !.d = 0, !.pressed = FALSE, !.changed = FALSE]
      /\ mousePast' = [mousePast EXCEPT !.moved = IF back THEN 0 ELSE @ + e.step,
                                        !.asked = IF back THEN 0 ELSE @ + asked,
                                        !.down = FALSE, !.act = e.pressed /\ ~ptr.visible]
  BY <1>5 DEF ft_tick
<1>7. /\ e.pressed =>
           \E to \in Clicked(ft_hover(shown.content, p)) :
             LET r == IF to.name # ft_screen.name THEN Opened(p, to.name) ELSE p
             IN ft_screen' = to /\ ptr' = r /\ shown' = Frame(to, r)
      /\ ~e.pressed =>
           /\ ft_screen' = ft_screen /\ ptr' = p
           /\ shown' = IF ft_hover(shown.content, p) # shown.hover THEN Frame(ft_screen, p)
                       ELSE IF e.moved THEN PointerFrame(p) ELSE shown
  BY <1>5 DEF ft_tick
<1> HIDE DEF asked
<1>8. /\ mouse' \in [d : Int, buttons : BOOLEAN, pressed : BOOLEAN, changed : BOOLEAN]
      /\ mouse'.d = 0 /\ ~mouse'.pressed /\ mouse'.buttons = mouse.buttons
  BY <1>1, <1>6, TakenOf DEF MouseTypes
<1>9. /\ DOMAIN mousePast' = DOMAIN mousePast
      /\ mousePast'.keys = mousePast.keys /\ mousePast'.all = mousePast.all
      /\ mousePast'.moved = IF back THEN 0 ELSE mousePast.moved + e.step
      /\ mousePast'.asked = IF back THEN 0 ELSE mousePast.asked + asked
      /\ mousePast'.down = FALSE /\ mousePast'.act = (e.pressed /\ ~ptr.visible)
  <2> DEFINE m1 == IF back THEN 0 ELSE mousePast.moved + e.step
             a1 == IF back THEN 0 ELSE mousePast.asked + asked
             c1 == e.pressed /\ ~ptr.visible
  <2>1. mousePast' = [mousePast EXCEPT !.moved = m1, !.asked = a1, !.down = FALSE, !.act = c1]
    BY <1>6
  <2>2. DOMAIN mousePast = {"reports", "keys", "moved", "asked", "all", "down", "act"}
    BY <1>1 DEF MouseTypes
  <2> HIDE DEF m1, a1, c1
  <2>3. /\ DOMAIN mousePast' = DOMAIN mousePast
        /\ mousePast'.keys = mousePast.keys /\ mousePast'.all = mousePast.all
        /\ mousePast'.moved = m1 /\ mousePast'.asked = a1 /\ mousePast'.down = FALSE /\ mousePast'.act = c1
    BY <2>1, <2>2
  <2> QED
    BY <2>3 DEF m1, a1, c1
<1>10. /\ ft_screen' \in [name : Screens, content : {0, 1}, speed : Speeds, cores : BOOLEAN]
       /\ ft_screen'.cores = ft_screen.cores
       /\ ptr' \in Pointers
       /\ (back => ptr'.rem = 0) /\ (~back => ptr'.rem = p.rem)
       /\ DOMAIN shown' = {"name", "content", "at", "hover"}
       /\ shown'.name = ft_screen'.name /\ shown'.content = ft_screen'.content
       /\ ~ptr'.pending /\ (ft_screen'.cores \/ mousePast'.keys = 0) => shown' = Frame(ft_screen', ptr')
  <2>1. CASE e.pressed
    <3>1. PICK to \in Clicked(ft_hover(shown.content, p)) :
            LET r == IF to.name # ft_screen.name THEN Opened(p, to.name) ELSE p
            IN ft_screen' = to /\ ptr' = r /\ shown' = Frame(to, r)
      BY <1>7, <2>1
    <3> DEFINE r == IF to.name # ft_screen.name THEN Opened(p, to.name) ELSE p
    <3>2. /\ to \in [name : Screens, content : {0, 1}, speed : Speeds, cores : BOOLEAN]
          /\ to.cores = ft_screen.cores
      BY <1>1, ClickedOf
    <3>3. r \in Pointers /\ (back => r.rem = 0) /\ (~back => r.rem = p.rem)
      <4>1. CASE to.name # ft_screen.name
        <5>1. r = Opened(p, to.name) /\ (back <=> to.name = "browser")
          BY <3>1, <4>1
        <5> QED
          BY <1>3, <5>1, OpenedOf
      <4>2. CASE to.name = ft_screen.name
        <5>1. r = p /\ ~back
          BY <3>1, <4>2
        <5> QED
          BY <1>3, <5>1
      <4> QED
        BY <4>1, <4>2
    <3>4. ft_screen' = to /\ ptr' = r /\ shown' = Frame(to, r)
      BY <3>1
    <3> HIDE DEF r
    <3> QED
      BY <3>2, <3>3, <3>4, FrameOf
  <2>2. CASE ~e.pressed
    <3>1. /\ ft_screen' = ft_screen /\ ptr' = p
          /\ shown' = IF ft_hover(shown.content, p) # shown.hover THEN Frame(ft_screen, p)
                      ELSE IF e.moved THEN PointerFrame(p) ELSE shown
      BY <1>7, <2>2
    <3>2. /\ ft_screen \in [name : Screens, content : {0, 1}, speed : Speeds, cores : BOOLEAN]
          /\ DOMAIN shown = {"name", "content", "at", "hover"}
          /\ shown.name = ft_screen.name /\ shown.content = ft_screen.content
          /\ ~ptr.pending /\ (ft_screen.cores \/ mousePast.keys = 0) => shown = Frame(ft_screen, ptr)
      BY <1>1 DEF MouseTypes, PointerRight, ShownIsTrue
    <3>3. ~back
      BY <3>1
    <3>4. CASE ft_hover(shown.content, p) # shown.hover
      <4>1. shown' = Frame(ft_screen, p)
        BY <3>1, <3>4
      <4> QED
        BY <1>3, <3>1, <3>2, <3>3, <4>1, FrameOf
    <3>5. CASE ft_hover(shown.content, p) = shown.hover /\ e.moved
      <4>1. shown' = PointerFrame(p)
        BY <3>1, <3>5
      <4>2. PointerFrame(p) = Frame(ft_screen, p)
        BY <3>2, <3>5 DEF PointerFrame, Frame
      <4> QED
        BY <1>3, <3>1, <3>2, <3>3, <4>1, <4>2, FrameOf
    <3>6. CASE ft_hover(shown.content, p) = shown.hover /\ ~e.moved
      <4>1. shown' = shown
        BY <3>1, <3>6
      <4>2. ASSUME ~p.pending, ft_screen.cores \/ mousePast.keys = 0
            PROVE  shown = Frame(ft_screen, p)
        <5>1. shown = Frame(ft_screen, ptr) /\ p.x = ptr.x /\ p.visible = ptr.visible
          BY <1>3, <3>2, <3>6, <4>2
        <5> QED
          BY <5>1 DEF Frame, ft_hover
      <4> QED
        BY <1>3, <1>9, <3>1, <3>2, <3>3, <4>1, <4>2
    <3> QED
      BY <3>4, <3>5, <3>6
  <2> QED
    BY <2>1, <2>2
<1> HIDE DEF p, back
<1>11. MouseTypes'
  <2>1. mousePast'.moved \in Int /\ mousePast'.asked \in Int
    BY <1>1, <1>3, <1>4, <1>9 DEF MouseTypes
  <2> QED
    BY <1>1, <1>6, <1>8, <1>9, <1>10, <2>1 DEF MouseTypes
<1>12. PointerRight'
  <2>1. MovesSum'
    <3>1. CASE back
      BY <1>9, <1>10, <3>1 DEF MovesSum
    <3>2. CASE ~back
      <4>1. /\ mousePast'.moved = mousePast.moved + e.step /\ mousePast'.asked = mousePast.asked + asked
            /\ ptr'.rem = p.rem /\ 4 * mousePast.moved + ptr.rem = mousePast.asked
        BY <1>1, <1>9, <1>10, <3>2 DEF PointerRight, MovesSum
      <4>2. /\ mousePast.moved \in Int /\ mousePast.asked \in Int /\ ptr.rem \in Int /\ p.rem \in Int
        BY <1>1, <1>3 DEF MouseTypes, Pointers
      <4> QED
        BY <1>3, <1>4, <4>1, <4>2 DEF MovesSum
    <3> QED
      BY <3>1, <3>2
  <2>2. PressesKept'
    BY <1>3, <1>8, <1>9 DEF PressesKept
  <2>3. ShownIsTrue'
    BY <1>10 DEF ShownIsTrue
  <2>4. CoreMoves'
    BY <1>1, <1>6, <1>8, <1>9 DEF PointerRight, CoreMoves
  <2> QED
    BY <2>1, <2>2, <2>3, <2>4 DEF PointerRight
<1> QED
  BY <1>1, <1>6, <1>11, <1>12 DEF MouseInv

\* A key hides the pointer; the browser without cores does not draw for it.
LEMMA KeyKept == ASSUME MouseInv, Key PROVE MouseInv'
<1>1. MouseTypes /\ PointerRight /\ core_mouse.said = core_mouse.buttons
  BY DEF MouseInv
<1> DEFINE hid == [ptr EXCEPT !.visible = FALSE]
<1>2. PICK to \in Clicked("key") :
        LET back == to.name = "browser" /\ ft_screen.name # "browser"
            r    == IF back THEN Reset(hid) ELSE hid
        IN /\ ft_screen.name = "browser" /\ ~ft_screen.cores => to.content = ft_screen.content
           /\ ft_screen' = to /\ ptr' = r
           /\ shown' = IF ft_screen.name = "browser" /\ to.name = "browser" /\ ~ft_screen.cores THEN shown ELSE Frame(to, r)
           /\ mouse' = IF back THEN [mouse EXCEPT !.d = 0, !.pressed = FALSE, !.changed = FALSE] ELSE mouse
           /\ mousePast' = [mousePast EXCEPT !.keys = @ + 1, !.moved = IF back THEN 0 ELSE @,
                                             !.asked = IF back THEN 0 ELSE @, !.down = IF back THEN FALSE ELSE @]
  BY DEF Key
<1> DEFINE back == to.name = "browser" /\ ft_screen.name # "browser"
<1>3. /\ to \in [name : Screens, content : {0, 1}, speed : Speeds, cores : BOOLEAN]
      /\ to.cores = ft_screen.cores /\ ft_screen' = to /\ core_mouse' = core_mouse
  BY <1>1, <1>2, ClickedOf DEF Key
<1>4. hid \in Pointers /\ hid.rem = ptr.rem
  BY <1>1 DEF MouseTypes, Pointers
<1> HIDE DEF hid
<1>5. ptr' \in Pointers /\ (back => ptr'.rem = 0) /\ (~back => ptr'.rem = ptr.rem)
  BY <1>2, <1>4, OpenedOf
<1>6. /\ mouse' \in [d : Int, buttons : BOOLEAN, pressed : BOOLEAN, changed : BOOLEAN]
      /\ mouse'.buttons = mouse.buttons /\ (~mouse'.changed => mouse'.d = 0 /\ ~mouse'.pressed)
      /\ back => ~mouse'.pressed
      /\ ~back => mouse'.pressed = mouse.pressed
  <2>1. CASE back
    <3>1. mouse' = [mouse EXCEPT !.d = 0, !.pressed = FALSE, !.changed = FALSE]
      BY <1>2, <2>1
    <3> QED
      <4>1. mouse \in [d : Int, buttons : BOOLEAN, pressed : BOOLEAN, changed : BOOLEAN]
        BY <1>1 DEF MouseTypes
      <4>2. mouse'.d = 0 /\ ~mouse'.pressed /\ mouse'.buttons = mouse.buttons
            /\ mouse' \in [d : Int, buttons : BOOLEAN, pressed : BOOLEAN, changed : BOOLEAN]
        BY <3>1, <4>1, TakenOf
      <4> QED
        BY <2>1, <4>2
  <2>2. CASE ~back
    <3>1. mouse' = mouse
      BY <1>2, <2>2
    <3> QED
      BY <1>1, <2>2, <3>1 DEF MouseTypes
  <2> QED
    BY <2>1, <2>2
<1>7. mousePast' = [mousePast EXCEPT !.keys = @ + 1, !.moved = IF back THEN 0 ELSE @,
                                     !.asked = IF back THEN 0 ELSE @, !.down = IF back THEN FALSE ELSE @]
  BY <1>2
<1>8. /\ DOMAIN mousePast' = DOMAIN mousePast
      /\ mousePast'.keys = mousePast.keys + 1 /\ mousePast'.all = mousePast.all /\ mousePast'.act = mousePast.act
      /\ mousePast'.moved = (IF back THEN 0 ELSE mousePast.moved)
      /\ mousePast'.asked = (IF back THEN 0 ELSE mousePast.asked)
      /\ mousePast'.down = (IF back THEN FALSE ELSE mousePast.down)
  BY <1>1, <1>7 DEF MouseTypes
<1>9. /\ DOMAIN shown' = {"name", "content", "at", "hover"}
      /\ shown'.name = ft_screen'.name /\ shown'.content = ft_screen'.content
      /\ ft_screen'.cores => shown' = Frame(ft_screen', ptr')
  <2>1. CASE ft_screen.name = "browser" /\ to.name = "browser" /\ ~ft_screen.cores
    <3>1. shown' = shown /\ to.content = ft_screen.content
      BY <1>2, <2>1
    <3> QED
      BY <1>1, <1>3, <2>1, <3>1 DEF MouseTypes, PointerRight, ShownIsTrue
  <2>2. CASE ~(ft_screen.name = "browser" /\ to.name = "browser" /\ ~ft_screen.cores)
    <3>1. shown' = Frame(ft_screen', ptr')
      BY <1>2, <2>2
    <3> QED
      BY <3>1, FrameOf
  <2> QED
    BY <2>1, <2>2
<1> HIDE DEF back
<1>10. MouseTypes'
  <2>1. mousePast'.keys \in Nat /\ mousePast'.moved \in Int /\ mousePast'.asked \in Int
        /\ mousePast'.all \in Int /\ mousePast'.down \in BOOLEAN
    <3>1. mousePast.keys \in Nat /\ mousePast.moved \in Int /\ mousePast.asked \in Int
          /\ mousePast.all \in Int /\ mousePast.down \in BOOLEAN
      BY <1>1 DEF MouseTypes
    <3>2. mousePast'.down \in BOOLEAN
      <4>1. CASE back
        BY <1>8, <4>1
      <4>2. CASE ~back
        BY <1>8, <3>1, <4>2
      <4> QED
        BY <4>1, <4>2
    <3>3. mousePast'.keys \in Nat /\ mousePast'.all \in Int
      BY <1>8, <3>1
    <3>4. mousePast'.moved \in Int /\ mousePast'.asked \in Int
      BY <1>8, <3>1
    <3> QED
      BY <3>2, <3>3, <3>4
  <2>2. core_mouse' \in [sum : Int, buttons : BOOLEAN, said : BOOLEAN]
    BY <1>1, <1>3 DEF MouseTypes
  <2>3. DOMAIN mousePast' = {"reports", "keys", "moved", "asked", "all", "down", "act"}
    BY <1>1, <1>8 DEF MouseTypes
  <2> QED
    BY <1>3, <1>5, <1>6, <1>9, <2>1, <2>2, <2>3 DEF MouseTypes
<1>11. PointerRight'
  <2>1. MovesSum'
    BY <1>1, <1>5, <1>8 DEF PointerRight, MovesSum
  <2>2. PressesKept'
    BY <1>1, <1>6, <1>8 DEF PointerRight, PressesKept
  <2>3. mousePast'.keys # 0
    BY <1>1, <1>8 DEF MouseTypes
  <2>4. ShownIsTrue'
    BY <1>9, <2>3 DEF ShownIsTrue
  <2>5. CoreMoves'
    BY <1>1, <1>3, <1>6, <1>8 DEF PointerRight, CoreMoves
  <2> QED
    BY <2>1, <2>2, <2>4, <2>5 DEF PointerRight
<1> QED
  BY <1>1, <1>3, <1>10, <1>11 DEF MouseInv

\* The pointer goes as far as the mouse did, no press is lost, the display shows the
\* pointer and the frame of the screen, and the core sums up the same moves; for every
\* width and speed and any number of reports whose moves fit in a byte.
THEOREM PointerIsRight == ASSUME MovesFit PROVE MouseSpec => []PointerRight
<1>1. MouseInit => MouseInv
  <2> SUFFICES ASSUME MouseInit PROVE MouseInv
    OBVIOUS
  <2>1. /\ mouse = [d |-> 0, buttons |-> FALSE, pressed |-> FALSE, changed |-> FALSE]
        /\ core_mouse = [sum |-> 0, buttons |-> FALSE, said |-> FALSE]
        /\ ptr = [x |-> 0, rem |-> 0, visible |-> FALSE, pending |-> FALSE, buttons |-> FALSE]
        /\ mousePast = [reports |-> 0, keys |-> 0, moved |-> 0, asked |-> 0, all |-> 0, down |-> FALSE, act |-> FALSE]
        /\ shown = Frame(ft_screen, ptr)
    BY DEF MouseInit, NoMoves
  <2>2. ft_screen \in [name : Screens, content : {0, 1}, speed : Speeds, cores : BOOLEAN]
    BY DEF MouseInit, Screens
  <2>3. ptr \in Pointers
    BY <2>1 DEF Pointers
  <2>4. MouseTypes
    BY <2>1, <2>2, <2>3, FrameOf DEF MouseTypes
  <2>5. MovesSum /\ PressesKept /\ CoreMoves
    BY <2>1 DEF MovesSum, PressesKept, CoreMoves
  <2>6. ShownIsTrue
    BY <2>1, FrameOf DEF ShownIsTrue
  <2> QED
    BY <2>1, <2>4, <2>5, <2>6 DEF MouseInv, PointerRight
<1>2. MouseInv /\ [MouseNext]_mouseVars => MouseInv'
  <2>1. ASSUME MouseInv, UNCHANGED mouseVars PROVE MouseInv'
    BY <2>1 DEF mouseVars, MouseInv, MouseTypes, PointerRight, MovesSum, PressesKept, ShownIsTrue, CoreMoves, Frame, ft_hover
  <2> QED
    BY <2>1, ReportKept, TickKept, KeyKept DEF MouseNext
<1>3. MouseInv => PointerRight
  BY DEF MouseInv
<1> QED
  BY <1>1, <1>2, <1>3, PTL DEF MouseSpec

-----------------------------------------------------------------------------
(* The pads: the inductive invariant.                                      *)

Tables  == [DriverFiles -> PadModels \cup {NoPad}]
Drivers == {NoDriver} \cup [load : Nat, file : DriverFiles]
Buttons == SUBSET {"a"}
InfoOf  == [pad : PadModels \cup {NoPad}, driver : Drivers, gen : Nat, map : 0 .. AutoMaps]
PortOf  == [dev : Devices \cup {NoDev}, keys : Buttons]
Callbacks == [at : {"idle", "find", "mount", "report"}, job : {"none", "mount", "report"},
              i : Nat, gen : Nat, driver : Drivers, keys : Buttons]

AppTypes ==
  /\ drv_card \in Tables /\ drivers \in [load : Nat, of : Tables] /\ gen \in Nat
  /\ loader \in [at : {"idle", "load", "second"}, next : Tables]
CoreTypes ==
  /\ info \in [HidIndex -> InfoOf] /\ core1 \in Callbacks /\ ports \in [Ports -> PortOf]
  /\ xpads \in [XPads -> {"off", "on", "asleep"}] /\ heard \in [Devices -> Buttons]

\* core1 looks for the driver of a pad that is there; one that is mounted has no map yet.
Looking ==
  /\ core1.at = "idle" => core1 = Idle1
  /\ core1.at # "idle" =>
       /\ core1.i \in HidIndex /\ info[core1.i].pad # NoPad
       /\ core1.job # "none" /\ core1.at \in {"find", core1.job}
       /\ core1.job = "mount" => info[core1.i].map = 0 /\ heard[Hid(core1.i)] = {}

\* A driver is of the table of its generation, once the table and its generation agree; core1
\* reads the generation before the table.
FindIn(table, p) ==
  LET of == {f \in DriverFiles : table.of[f] = p}
  IN IF of = {} THEN NoDriver ELSE [load |-> table.load, file |-> Min(of)]
InCallback(i) == core1.i = i /\ core1.at # "idle"
Generations ==
  /\ core1.gen <= gen /\ \A i \in HidIndex : info[i].gen <= gen
  /\ loader.at # "second" =>
       /\ \A i \in HidIndex :
            info[i].pad # NoPad /\ info[i].gen = gen /\ ~InCallback(i) =>
              info[i].driver = FindIn(drivers, info[i].pad)
       /\ core1.at \in {"mount", "report"} /\ core1.gen = gen =>
            core1.driver = FindIn(drivers, info[core1.i].pad)

\* Ports and default maps, inside a callback too.
OnePort == \A p, q \in Ports : ports[p].dev = ports[q].dev /\ p # q => ports[p].dev = NoDev
Plugged ==
  /\ \A i \in HidIndex : info[i].pad = NoPad => \A p \in Ports : ports[p].dev # Hid(i)
  /\ \A x \in XPads : xpads[x] # "on" => \A p \in Ports : ports[p].dev # XIn(x)
OneMap ==
  /\ map_used = {info[i].map : i \in HidIndex} \ {0}
  /\ \A i, j \in HidIndex : info[i].map = info[j].map /\ i # j => info[i].map = 0
  /\ \A i \in HidIndex : info[i].pad = NoPad => info[i].map = 0
Shows == \A p \in Ports : ports[p].dev # NoDev => ports[p].keys = heard[ports[p].dev]

PadsInv == AppTypes /\ CoreTypes /\ Looking /\ Generations /\ OnePort /\ Plugged /\ OneMap /\ Shows

-----------------------------------------------------------------------------
(* What the operations return.                                             *)

\* A set of naturals that is not empty has a least element.
LEMMA Least == ASSUME NEW T, T \subseteq Nat, T # {} PROVE Min(T) \in T
<1> DEFINE Less == OpToRel(<, Nat)
<1>1. PICK x \in T : \A y \in T : ~(<<y, x>> \in Less)
  <2> HIDE DEF Less
  <2> QED
    BY NatLessThanWellFounded, WFMin DEF Less
<1>2. \A y \in T : x <= y
  <2>1. SUFFICES ASSUME NEW y \in T PROVE x <= y
    OBVIOUS
  <2>2. <<y, x>> \in Nat \X Nat
    OBVIOUS
  <2>3. ~(y < x)
    BY <1>1, <2>2 DEF OpToRel
  <2> QED
    BY <2>3
<1> QED
  BY <1>2 DEF Min

\* The devices on the ports are told apart.
LEMMA DeviceNames ==
  /\ \A i \in HidIndex : Hid(i) \in Devices /\ Hid(i) # NoDev
  /\ \A x \in XPads : XIn(x) \in Devices /\ XIn(x) # NoDev
  /\ \A i \in HidIndex, x \in XPads : Hid(i) # XIn(x)
  /\ \A i, j \in HidIndex : Hid(i) = Hid(j) => i = j
  /\ \A x, y \in XPads : XIn(x) = XIn(y) => x = y
BY DEF Devices, Hid, XIn, NoDev

\* hid_driver_find(): none, or a driver of the table.
LEMMA FoundDriver ==
  ASSUME NEW p, drivers \in [load : Nat, of : Tables]
  PROVE  hid_driver_find(p) = FindIn(drivers, p) /\ hid_driver_find(p) \in Drivers
<1> DEFINE of == {f \in DriverFiles : drivers.of[f] = p}
<1>1. of # {} => Min(of) \in of
  BY Least, PadsAssumption
<1>2. drivers.load \in Nat /\ NoDriver \in Drivers
  BY DEF Drivers
<1>3. of # {} => [load |-> drivers.load, file |-> Min(of)] \in [load : Nat, file : DriverFiles]
  BY <1>1, <1>2
<1> QED
  BY <1>2, <1>3 DEF hid_driver_find, FindIn, Drivers

\* auto_map_build(): none, or a default map that no pad has.
LEMMA BuiltMap ==
  ASSUME NEW p PROVE /\ auto_map_build(p) \in 0 .. AutoMaps
                     /\ auto_map_build(p) # 0 => auto_map_build(p) \notin map_used
<1> DEFINE free == 1 .. AutoMaps \ map_used
<1>1. free # {} => Min(free) \in free
  BY Least, PadsAssumption
<1> QED
  BY <1>1, PadsAssumption DEF auto_map_build

\* What usb_joy_slots_set() leaves: the pad at one port, the others as they were.
SetRight(s, d, k) ==
  /\ s \in [Ports -> PortOf]
  /\ \A p \in Ports : s[p] = [dev |-> d, keys |-> k] \/ (s[p] = ports[p] /\ ports[p].dev # d)
  /\ \A p, q \in Ports : s[p].dev = s[q].dev /\ p # q => s[p].dev = NoDev

\* usb_joy_slots_set().
LEMMA SlotsSet ==
  ASSUME ports \in [Ports -> PortOf], OnePort, NEW d \in Devices, d # NoDev, NEW k \in Buttons
  PROVE  SetRight(usb_joy_slots_set(d, k), d, k)
<1> DEFINE mine == {p \in Ports : ports[p].dev = d}
           free == {p \in Ports : ports[p].dev = NoDev}
           at == IF mine # {} THEN Min(mine) ELSE Min(free)
           new == [dev |-> d, keys |-> k]
<1>1. Ports \subseteq Nat
  BY DEF Ports
<1>2. new \in PortOf
  BY DEF PortOf
<1>3. mine # {} => Min(mine) \in mine
  BY <1>1, Least
<1>4. free # {} => Min(free) \in free
  BY <1>1, Least
<1>5. CASE mine \cup free = {}
  <2>1. usb_joy_slots_set(d, k) = ports
    BY <1>5 DEF usb_joy_slots_set
  <2> QED
    BY <1>5, <2>1 DEF SetRight, OnePort
<1>6. CASE mine \cup free # {}
  <2>1. usb_joy_slots_set(d, k) = [ports EXCEPT ![at] = new]
    BY <1>6 DEF usb_joy_slots_set
  <2>2. at \in Ports /\ (mine # {} => at \in mine)
    BY <1>3, <1>4, <1>6
  <2>3. \A p \in Ports : p # at => ports[p].dev # d
    BY <2>2 DEF OnePort
  <2> HIDE DEF at, new
  <2> DEFINE s == [ports EXCEPT ![at] = new]
  <2>4. s \in [Ports -> PortOf]
    BY <1>2, <2>2
  <2>5. s[at] = new /\ \A p \in Ports : p # at => s[p] = ports[p]
    BY <2>2
  <2>6. new.dev = d
    BY DEF new
  <2>7. \A p, q \in Ports : s[p].dev = s[q].dev /\ p # q => s[p].dev = NoDev
    BY <2>3, <2>5, <2>6 DEF OnePort
  <2>8. \A p \in Ports : s[p] = new \/ (s[p] = ports[p] /\ ports[p].dev # d)
    BY <2>3, <2>5
  <2> QED
    BY <2>1, <2>4, <2>7, <2>8 DEF SetRight, new
<1> QED
  BY <1>5, <1>6

\* usb_joy_slots_remove(): the pad has no port, the others have theirs.
LEMMA SlotsRemoved ==
  ASSUME ports \in [Ports -> PortOf], OnePort, NEW d
  PROVE  LET s == usb_joy_slots_remove(d)
         IN /\ s \in [Ports -> PortOf]
            /\ \A p \in Ports : s[p].dev = NoDev \/ (s[p] = ports[p] /\ ports[p].dev # d)
            /\ \A p, q \in Ports : s[p].dev = s[q].dev /\ p # q => s[p].dev = NoDev
<1>1. [dev |-> NoDev, keys |-> {}] \in PortOf
  BY DEF PortOf, Buttons
<1> DEFINE s == usb_joy_slots_remove(d)
<1>2. \A p \in Ports : s[p] = IF ports[p].dev = d THEN [dev |-> NoDev, keys |-> {}] ELSE ports[p]
  BY DEF usb_joy_slots_remove
<1>3. s \in [Ports -> PortOf]
  BY <1>1 DEF usb_joy_slots_remove
<1> HIDE DEF s
<1>4. \A p \in Ports : s[p].dev = NoDev \/ (s[p] = ports[p] /\ ports[p].dev # d)
  BY <1>2
<1>5. \A p, q \in Ports : s[p].dev = s[q].dev /\ p # q => s[p].dev = NoDev
  BY <1>4 DEF OnePort
<1> QED
  BY <1>3, <1>4, <1>5 DEF s

-----------------------------------------------------------------------------
(* APP replaces the table.                                                 *)

\* DriverOp changes the card and asks for a load.
LEMMA DriverOpKept == ASSUME PadsInv, DriverOp PROVE PadsInv'
<1>1. \A p, keep, failed : backup_drivers(p, keep, failed) \in Tables
  BY DEF backup_drivers, Tables, PadsInv, AppTypes
<1>2. drv_card' \in Tables
  <2>1. CASE hid_driver_forget
    BY <1>1, <2>1 DEF hid_driver_forget
  <2>2. CASE hid_driver_save
    <3>1. PICK p \in PadModels, failed \in SUBSET DriverFiles, ok \in BOOLEAN :
            drv_card' = [backup_drivers(p, OwnFile[p], failed) EXCEPT ![OwnFile[p]] = IF ok THEN p ELSE NoPad]
      BY <2>2 DEF hid_driver_save
    <3>2. backup_drivers(p, OwnFile[p], failed) \in Tables
      BY <1>1
    <3> QED
      BY <3>1, <3>2 DEF Tables
  <2> QED
    BY <2>1, <2>2 DEF DriverOp
<1>3. loader' \in [at : {"idle", "load", "second"}, next : Tables] /\ loader'.at # "second"
  <2>1. loader' = loader \/ loader' = [at |-> "load", next |-> drv_card']
    BY DEF DriverOp, hid_driver_forget, hid_driver_save
  <2>2. loader.at = "idle"
    BY DEF DriverOp
  <2> QED
    BY <1>2, <2>1, <2>2 DEF PadsInv, AppTypes
<1>4. UNCHANGED <<drivers, gen, info, map_used, core1, ports, xpads, heard>> /\ loader.at = "idle"
  BY DEF DriverOp
<1>5. AppTypes'
  BY <1>2, <1>3, <1>4 DEF PadsInv, AppTypes
<1>6. CoreTypes' /\ Looking'
  BY <1>4 DEF PadsInv, CoreTypes, Looking
<1>7. Generations'
  BY <1>3, <1>4 DEF PadsInv, Generations, InCallback
<1>8. OnePort' /\ Plugged' /\ OneMap' /\ Shows'
  BY <1>4 DEF PadsInv, OnePort, Plugged, OneMap, Shows
<1> QED
  BY <1>5, <1>6, <1>7, <1>8 DEF PadsInv

\* hid_drivers_load(): between the table and its generation nothing is said of the drivers, and
\* with the new generation none is of it yet.
LEMMA LoadKept == ASSUME PadsInv, hid_drivers_load PROVE PadsInv'
<1>1. UNCHANGED <<drv_card, info, map_used, core1, ports, xpads, heard>>
  BY DEF hid_drivers_load
<1>2. hid_driver_load(loader.next) \in Tables
  BY DEF hid_driver_load, Tables, PadsInv, AppTypes
<1>3. loader.next \in Tables /\ drivers.load \in Nat /\ gen \in Nat
  BY DEF PadsInv, AppTypes
<1>4. ASSUME loader.at = "load" /\ Publish(table_first) /\ loader' = [loader EXCEPT !.at = "second"]
      PROVE  AppTypes' /\ Generations'
  <2>1. drivers' = [load |-> drivers.load + 1, of |-> hid_driver_load(loader.next)] /\ gen' = gen
    BY <1>4 DEF Publish, table_first
  <2>2. drivers' \in [load : Nat, of : Tables]
    BY <1>2, <1>3, <2>1
  <2>3. loader' \in [at : {"idle", "load", "second"}, next : Tables] /\ loader'.at = "second"
    BY <1>4 DEF PadsInv, AppTypes
  <2>4. AppTypes'
    BY <1>1, <2>1, <2>2, <2>3 DEF PadsInv, AppTypes
  <2>5. Generations'
    BY <1>1, <2>1, <2>3 DEF PadsInv, Generations
  <2> QED
    BY <2>4, <2>5
<1>5. ASSUME loader.at = "second" /\ Publish(~table_first) /\ loader' = [loader EXCEPT !.at = "idle"]
      PROVE  AppTypes' /\ Generations'
  <2>1. gen' = gen + 1 /\ drivers' = drivers
    BY <1>5 DEF Publish, table_first
  <2>2. loader' \in [at : {"idle", "load", "second"}, next : Tables]
    BY <1>5 DEF PadsInv, AppTypes
  <2>3. AppTypes'
    BY <1>1, <1>3, <2>1, <2>2 DEF PadsInv, AppTypes
  <2>4. core1.gen \in Nat /\ \A i \in HidIndex : info[i].gen \in Nat
    BY DEF PadsInv, CoreTypes, InfoOf, Callbacks
  <2>5. core1.gen < gen' /\ \A i \in HidIndex : info[i].gen < gen'
    BY <1>3, <2>1, <2>4 DEF PadsInv, Generations
  <2>6. gen' \in Nat
    BY <2>3 DEF AppTypes
  <2>7. core1'.gen # gen' /\ core1'.gen <= gen'
        /\ \A i \in HidIndex : info'[i].gen # gen' /\ info'[i].gen <= gen'
    BY <1>1, <2>4, <2>5, <2>6
  <2>8. Generations'
    BY <2>7 DEF Generations
  <2> QED
    BY <2>3, <2>8
<1>6. ASSUME loader.at = "load" /\ loader' = [loader EXCEPT !.at = "idle"] /\ UNCHANGED <<drivers, gen>>
      PROVE  AppTypes' /\ Generations'
  <2>1. loader' \in [at : {"idle", "load", "second"}, next : Tables]
    BY <1>6 DEF PadsInv, AppTypes
  <2>2. AppTypes'
    BY <1>1, <1>6, <2>1 DEF PadsInv, AppTypes
  <2>3. Generations'
    BY <1>1, <1>6 DEF PadsInv, Generations, InCallback
  <2> QED
    BY <2>2, <2>3
<1>7. AppTypes' /\ Generations'
  BY <1>4, <1>5, <1>6 DEF hid_drivers_load
<1>8. CoreTypes' /\ Looking'
  BY <1>1 DEF PadsInv, CoreTypes, Looking
<1>9. OnePort' /\ Plugged' /\ OneMap' /\ Shows'
  BY <1>1 DEF PadsInv, OnePort, Plugged, OneMap, Shows
<1> QED
  BY <1>7, <1>8, <1>9 DEF PadsInv

-----------------------------------------------------------------------------
(* The callbacks of core1.                                                 *)

\* A pad is plugged in: it is known, and looked up next.
LEMMA HidMountKept == ASSUME PadsInv, tuh_hid_mount_cb PROVE PadsInv'
<1>1. PICK i \in HidIndex, p \in PadModels :
        /\ info[i].pad = NoPad
        /\ info' = [info EXCEPT ![i].pad = p, ![i].driver = NoDriver, ![i].map = 0]
        /\ core1' = [Idle1 EXCEPT !.at = "find", !.job = "mount", !.i = i, !.gen = gen]
        /\ heard' = [heard EXCEPT ![Hid(i)] = {}]
  BY DEF tuh_hid_mount_cb
<1>2. UNCHANGED <<drv_card, drivers, gen, loader, map_used, ports, xpads>> /\ core1 = Idle1
  BY DEF tuh_hid_mount_cb, appSide
<1>3. info \in [HidIndex -> InfoOf] /\ gen \in Nat /\ NoDriver \in Drivers /\ 0 \in 0 .. AutoMaps /\ p # NoPad
  BY PadsAssumption DEF PadsInv, CoreTypes, AppTypes, Drivers
<1>4. info[i] \in InfoOf /\ info' = [info EXCEPT ![i] = [info[i] EXCEPT !.pad = p, !.driver = NoDriver, !.map = 0]]
  BY <1>1, <1>3
<1>5. info' \in [HidIndex -> InfoOf]
  <2>1. \A r \in InfoOf : [r EXCEPT !.pad = p, !.driver = NoDriver, !.map = 0] \in InfoOf
    BY <1>3 DEF InfoOf
  <2> QED
    BY <1>3, <1>4, <2>1
<1>6. /\ \A j \in HidIndex : j # i => info'[j] = info[j]
      /\ info'[i].pad = p /\ info'[i].gen = info[i].gen /\ info'[i].map = 0
  <2>1. \A r \in InfoOf : LET s == [r EXCEPT !.pad = p, !.driver = NoDriver, !.map = 0] IN s.pad = p /\ s.gen = r.gen /\ s.map = 0
    BY DEF InfoOf
  <2> QED
    BY <1>3, <1>4, <2>1
<1>7. core1' = [at |-> "find", job |-> "mount", i |-> i, gen |-> gen, driver |-> NoDriver, keys |-> {}]
  BY <1>1 DEF Idle1
<1>8. core1' \in Callbacks
  BY <1>3, <1>7, PadsAssumption DEF Callbacks, Buttons
<1>9. Hid(i) \in Devices /\ heard' \in [Devices -> Buttons] /\ heard'[Hid(i)] = {}
  BY <1>1, DeviceNames DEF PadsInv, CoreTypes, Buttons
<1>10. AppTypes' /\ CoreTypes'
  BY <1>2, <1>5, <1>8, <1>9 DEF PadsInv, AppTypes, CoreTypes
<1>11. Looking'
  BY <1>3, <1>6, <1>7, <1>9 DEF Looking
<1>12. Generations'
  <2>1. gen' = gen /\ core1'.gen <= gen
    BY <1>2, <1>3, <1>7
  <2>2. \A j \in HidIndex : info'[j].gen = info[j].gen
    BY <1>6
  <2>3. ASSUME NEW j \in HidIndex, info'[j].pad # NoPad, ~(core1'.i = j /\ core1'.at # "idle"), info'[j].gen = gen, loader.at # "second"
        PROVE  info'[j].driver = FindIn(drivers, info'[j].pad)
    <3>1. j # i /\ info'[j] = info[j]
      BY <1>6, <1>7, <2>3
    <3> QED
      BY <1>2, <2>3, <3>1 DEF PadsInv, Generations, InCallback, Idle1
  <2> QED
    BY <1>2, <1>7, <2>1, <2>2, <2>3 DEF PadsInv, Generations, InCallback
<1>13. OnePort' /\ Plugged'
  BY <1>2, <1>3, <1>6 DEF PadsInv, OnePort, Plugged
<1>14. OneMap'
  <2>1. \A j \in HidIndex : info'[j].map = info[j].map
    BY <1>1, <1>6 DEF PadsInv, OneMap
  <2>2. \A j \in HidIndex : info'[j].pad = NoPad => info[j].pad = NoPad
    BY <1>3, <1>6
  <2>3. {info'[j].map : j \in HidIndex} = {info[j].map : j \in HidIndex}
    BY <2>1
  <2> QED
    BY <1>2, <2>1, <2>2, <2>3 DEF PadsInv, OneMap
<1>15. Shows'
  <2>1. \A q \in Ports : ports[q].dev # Hid(i)
    BY <1>1 DEF PadsInv, Plugged
  <2>2. \A q \in Ports : ports[q].dev # NoDev => heard'[ports[q].dev] = heard[ports[q].dev]
    BY <1>1, <2>1 DEF PadsInv, CoreTypes, PortOf
  <2> QED
    BY <1>2, <2>2 DEF PadsInv, Shows
<1> QED
  BY <1>10, <1>11, <1>12, <1>13, <1>14, <1>15 DEF PadsInv

\* The table is looked through.
LEMMA FindKept == ASSUME PadsInv, Find PROVE PadsInv'
<1>1. /\ core1.at = "find" /\ core1' = [core1 EXCEPT !.at = core1.job, !.driver = hid_driver_find(info[core1.i].pad)]
      /\ UNCHANGED <<drv_card, drivers, gen, loader, info, map_used, ports, xpads, heard>>
  BY DEF Find, appSide
<1> DEFINE d == FindIn(drivers, info[core1.i].pad)
<1>2. d \in Drivers /\ d = hid_driver_find(info[core1.i].pad)
  BY FoundDriver DEF PadsInv, AppTypes
<1>3. core1 \in Callbacks /\ core1.job \in {"mount", "report"} /\ core1.i \in HidIndex
  BY <1>1 DEF PadsInv, CoreTypes, Looking, Callbacks
<1>4. core1' = [at |-> core1.job, job |-> core1.job, i |-> core1.i, gen |-> core1.gen, driver |-> d, keys |-> core1.keys]
  <2> HIDE DEF d
  <2> QED
    BY <1>1, <1>2, <1>3 DEF Callbacks
<1> HIDE DEF d
<1>5. core1' \in Callbacks
  BY <1>2, <1>3, <1>4 DEF Callbacks
<1>6. AppTypes' /\ CoreTypes'
  BY <1>1, <1>5 DEF PadsInv, AppTypes, CoreTypes
<1>7. Looking'
  BY <1>1, <1>3, <1>4 DEF PadsInv, Looking
<1>8. Generations'
  <2>1. core1'.i = core1.i /\ core1'.at # "idle" /\ core1'.gen = core1.gen
        /\ core1'.driver = FindIn(drivers, info[core1.i].pad)
    BY <1>3, <1>4 DEF d
  <2>2. \A j \in HidIndex : InCallback(j)' <=> InCallback(j)
    BY <1>1, <2>1 DEF InCallback
  <2> QED
    BY <1>1, <2>1, <2>2 DEF PadsInv, Generations
<1>9. OnePort' /\ Plugged' /\ OneMap' /\ Shows'
  BY <1>1 DEF PadsInv, OnePort, Plugged, OneMap, Shows
<1> QED
  BY <1>6, <1>7, <1>8, <1>9 DEF PadsInv

\* A pad is put on a port with the buttons it was heard of.
LEMMA SetShows ==
  ASSUME PadsInv, NEW d \in Devices, NEW k \in Buttons, SetRight(ports', d, k),
         heard'[d] = k, \A e \in Devices : e # d => heard'[e] = heard[e]
  PROVE  OnePort' /\ Shows' /\ ports' \in [Ports -> PortOf]
<1>1. OnePort' /\ ports' \in [Ports -> PortOf]
  BY DEF SetRight, OnePort
<1>2. ASSUME NEW p \in Ports, ports'[p].dev # NoDev PROVE ports'[p].keys = heard'[ports'[p].dev]
  <2>1. CASE ports'[p] = [dev |-> d, keys |-> k]
    BY <2>1
  <2>2. CASE ports'[p] = ports[p] /\ ports[p].dev # d
    <3>1. ports[p].dev \in Devices
      BY <1>2, <2>2 DEF PadsInv, CoreTypes, PortOf
    <3> QED
      BY <1>2, <2>2, <3>1 DEF PadsInv, Shows
  <2> QED
    BY <2>1, <2>2 DEF SetRight
<1>3. Shows'
  BY <1>2 DEF Shows
<1> QED
  BY <1>1, <1>3

\* The buttons of a report of a HID pad.
LEMMA MapReportKept ==
  ASSUME PadsInv, NEW i \in HidIndex, NEW driver, NEW k \in Buttons, MapReport(i, driver, k),
         info[i].pad # NoPad, \A j \in HidIndex : info'[j].pad = info[j].pad, xpads' = xpads
  PROVE  /\ ports' \in [Ports -> PortOf] /\ heard' \in [Devices -> Buttons]
         /\ OnePort' /\ Plugged' /\ Shows'
<1>1. CASE UNCHANGED <<ports, heard>>
  BY <1>1 DEF PadsInv, CoreTypes, OnePort, Plugged, Shows
<1>2. CASE ports' = usb_joy_slots_set(Hid(i), k) /\ heard' = [heard EXCEPT ![Hid(i)] = k]
  <2>1. Hid(i) \in Devices /\ Hid(i) # NoDev
    BY DeviceNames
  <2>2. SetRight(ports', Hid(i), k)
    BY <1>2, <2>1, SlotsSet DEF PadsInv, CoreTypes
  <2>3. heard' \in [Devices -> Buttons] /\ heard'[Hid(i)] = k /\ \A e \in Devices : e # Hid(i) => heard'[e] = heard[e]
    BY <1>2, <2>1 DEF PadsInv, CoreTypes
  <2>4. OnePort' /\ Shows' /\ ports' \in [Ports -> PortOf]
    BY <2>1, <2>2, <2>3, SetShows
  <2>5. \A p \in Ports : ports'[p].dev = Hid(i) \/ ports'[p] = ports[p]
    BY <2>2 DEF SetRight
  <2>6. \A j \in HidIndex : info[j].pad = NoPad => Hid(j) # Hid(i)
    BY DeviceNames
  <2>7. \A x \in XPads : XIn(x) # Hid(i)
    BY DeviceNames
  <2>8. Plugged'
    BY <2>5, <2>6, <2>7 DEF PadsInv, Plugged
  <2> QED
    BY <2>3, <2>4, <2>8
<1> QED
  BY <1>1, <1>2 DEF MapReport

\* A pad that was looked up gets its default map and its port.
LEMMA MountedKept == ASSUME PadsInv, Mounted PROVE PadsInv'
<1> DEFINE i == core1.i
           map == auto_map_build(info[i].pad)
<1>1. /\ core1.at = "mount" /\ core1' = Idle1
      /\ info' = [info EXCEPT ![i] = [@ EXCEPT !.driver = core1.driver, !.gen = core1.gen, !.map = map]]
      /\ map_used' = map_used \cup ({map} \ {0})
      /\ ports' = IF core1.driver # NoDriver \/ map # 0 THEN usb_joy_slots_set(Hid(i), {}) ELSE ports
      /\ UNCHANGED <<drv_card, drivers, gen, loader, xpads, heard>>
  BY DEF Mounted, appSide
<1>2. i \in HidIndex /\ info[i].pad # NoPad /\ info[i].map = 0 /\ heard[Hid(i)] = {}
  BY <1>1 DEF PadsInv, Looking
<1>3. map \in 0 .. AutoMaps /\ (map # 0 => map \notin map_used)
  BY BuiltMap
<1> HIDE DEF map
<1>4. info \in [HidIndex -> InfoOf] /\ core1 \in Callbacks
  BY DEF PadsInv, CoreTypes
<1>5. info[i] \in InfoOf /\ info' = [info EXCEPT ![i] = [info[i] EXCEPT !.driver = core1.driver, !.gen = core1.gen, !.map = map]]
  BY <1>1, <1>2, <1>4
<1>6. info' \in [HidIndex -> InfoOf]
  <2>1. \A r \in InfoOf : [r EXCEPT !.driver = core1.driver, !.gen = core1.gen, !.map = map] \in InfoOf
    BY <1>3, <1>4 DEF InfoOf, Callbacks
  <2> QED
    BY <1>2, <1>4, <1>5, <2>1
<1>7. /\ \A j \in HidIndex : j # i => info'[j] = info[j]
      /\ info'[i].pad = info[i].pad /\ info'[i].driver = core1.driver
      /\ info'[i].gen = core1.gen /\ info'[i].map = map
  <2>1. \A r \in InfoOf : LET s == [r EXCEPT !.driver = core1.driver, !.gen = core1.gen, !.map = map] IN 
          s.pad = r.pad /\ s.driver = core1.driver /\ s.gen = core1.gen /\ s.map = map
    BY DEF InfoOf
  <2> QED
    BY <1>2, <1>4, <1>5, <2>1
<1>8. Idle1 \in Callbacks
  BY PadsAssumption DEF Callbacks, Idle1, Buttons, Drivers
<1>9. \A j \in HidIndex : info'[j].pad = info[j].pad
  BY <1>7
<1>10. /\ ports' \in [Ports -> PortOf] /\ OnePort' /\ Plugged' /\ Shows'
  <2>1. CASE ports' = ports
    BY <1>1, <1>9, <2>1 DEF PadsInv, CoreTypes, OnePort, Plugged, Shows
  <2>2. CASE ports' = usb_joy_slots_set(Hid(i), {})
    <3>1. Hid(i) \in Devices /\ Hid(i) # NoDev /\ {} \in Buttons
      BY <1>2, DeviceNames DEF Buttons
    <3>2. SetRight(ports', Hid(i), {})
      BY <2>2, <3>1, SlotsSet DEF PadsInv, CoreTypes
    <3>3. OnePort' /\ Shows' /\ ports' \in [Ports -> PortOf]
      BY <1>1, <1>2, <3>1, <3>2, SetShows
    <3>4. \A p \in Ports : ports'[p].dev = Hid(i) \/ ports'[p] = ports[p]
      BY <3>2 DEF SetRight
    <3>5. \A j \in HidIndex : info[j].pad = NoPad => Hid(j) # Hid(i)
      BY <1>2, DeviceNames
    <3>6. \A x \in XPads : XIn(x) # Hid(i)
      BY <1>2, DeviceNames
    <3>7. Plugged'
      BY <1>1, <1>9, <3>4, <3>5, <3>6 DEF PadsInv, Plugged
    <3> QED
      BY <3>3, <3>7
  <2> QED
    BY <1>1, <2>1, <2>2
<1>11. AppTypes' /\ CoreTypes'
  BY <1>1, <1>6, <1>8, <1>10 DEF PadsInv, AppTypes, CoreTypes
<1>12. Looking'
  BY <1>1 DEF Looking, Idle1
<1>13. Generations'
  <2>1. core1'.gen = 0 /\ core1'.at = "idle" /\ gen \in Nat
    BY <1>1 DEF Idle1, PadsInv, AppTypes
  <2>2. \A j \in HidIndex : info'[j].gen <= gen
    BY <1>7 DEF PadsInv, Generations
  <2>3. ASSUME NEW j \in HidIndex, info'[j].pad # NoPad, info'[j].gen = gen, loader.at # "second"
        PROVE  info'[j].driver = FindIn(drivers, info'[j].pad)
    <3>1. CASE j = i
      BY <1>1, <1>7, <2>3, <3>1 DEF PadsInv, Generations
    <3>2. CASE j # i
      BY <1>7, <2>3, <3>2 DEF PadsInv, Generations, InCallback
    <3> QED
      BY <3>1, <3>2
  <2> QED
    BY <1>1, <2>1, <2>2, <2>3 DEF Generations
<1>14. OneMap'
  <2>1. \A m : m \in map_used <=> m # 0 /\ \E j \in HidIndex : info[j].map = m
    BY DEF PadsInv, OneMap
  <2>2. \A m : m \in map_used' <=> m # 0 /\ \E j \in HidIndex : info'[j].map = m
    BY <1>1, <1>2, <1>7, <2>1
  <2>3. map_used' = {info'[j].map : j \in HidIndex} \ {0}
    BY <2>2
  <2>4. \A j \in HidIndex : info[j].map # 0 => info[j].map \in map_used
    BY <2>1
  <2>5. \A j \in HidIndex : j # i => info'[j].map # map \/ map = 0
    BY <1>3, <1>7, <2>4
  <2>6. \A j, k \in HidIndex : info'[j].map = info'[k].map /\ j # k => info'[j].map = 0
    BY <1>7, <2>5 DEF PadsInv, OneMap
  <2>7. \A j \in HidIndex : info'[j].pad = NoPad => info'[j].map = 0
    BY <1>2, <1>7 DEF PadsInv, OneMap
  <2> QED
    BY <2>3, <2>6, <2>7 DEF OneMap
<1> QED
  BY <1>10, <1>11, <1>12, <1>13, <1>14 DEF PadsInv

\* A pad is unplugged: its default map and its port are free.
LEMMA HidUmountKept == ASSUME PadsInv, tuh_hid_umount_cb PROVE PadsInv'
<1>1. PICK i \in HidIndex :
        /\ info[i].pad # NoPad
        /\ info' = [info EXCEPT ![i] = [@ EXCEPT !.pad = NoPad, !.driver = NoDriver, !.map = 0]]
        /\ map_used' = map_used \ {info[i].map} /\ ports' = usb_joy_slots_remove(Hid(i))
  BY DEF tuh_hid_umount_cb, freed
<1>2. UNCHANGED <<drv_card, drivers, gen, loader, core1, xpads, heard>> /\ core1 = Idle1
  BY DEF tuh_hid_umount_cb, appSide
<1>3. info \in [HidIndex -> InfoOf] /\ NoDriver \in Drivers /\ 0 \in 0 .. AutoMaps
  BY PadsAssumption DEF PadsInv, CoreTypes, Drivers
<1>4. info[i] \in InfoOf /\ info' = [info EXCEPT ![i] = [info[i] EXCEPT !.pad = NoPad, !.driver = NoDriver, !.map = 0]]
  BY <1>1, <1>3
<1>5. info' \in [HidIndex -> InfoOf]
  <2>1. \A r \in InfoOf : [r EXCEPT !.pad = NoPad, !.driver = NoDriver, !.map = 0] \in InfoOf
    BY <1>3 DEF InfoOf
  <2> QED
    BY <1>3, <1>4, <2>1
<1>6. /\ \A j \in HidIndex : j # i => info'[j] = info[j]
      /\ info'[i].pad = NoPad /\ info'[i].gen = info[i].gen /\ info'[i].map = 0
  <2>1. \A r \in InfoOf : LET s == [r EXCEPT !.pad = NoPad, !.driver = NoDriver, !.map = 0] IN s.pad = NoPad /\ s.gen = r.gen /\ s.map = 0
    BY DEF InfoOf
  <2> QED
    BY <1>3, <1>4, <2>1
<1>7. /\ ports' \in [Ports -> PortOf]
      /\ \A p \in Ports : ports'[p].dev = NoDev \/ (ports'[p] = ports[p] /\ ports[p].dev # Hid(i))
      /\ \A p, q \in Ports : ports'[p].dev = ports'[q].dev /\ p # q => ports'[p].dev = NoDev
  BY <1>1, SlotsRemoved DEF PadsInv, CoreTypes
<1>8. AppTypes' /\ CoreTypes' /\ Looking'
  BY <1>2, <1>5, <1>7 DEF PadsInv, AppTypes, CoreTypes, Looking, Idle1
<1>9. Generations'
  <2>1. \A j \in HidIndex : info'[j].gen = info[j].gen /\ (info'[j].pad # NoPad => info'[j] = info[j])
    BY <1>6
  <2> QED
    BY <1>2, <2>1 DEF PadsInv, Generations, InCallback, Idle1
<1>10. OnePort'
  BY <1>7 DEF OnePort
<1>11. Plugged'
  <2>1. \A j \in HidIndex : Hid(j) # NoDev
    BY DeviceNames
  <2>2. \A x \in XPads : XIn(x) # NoDev
    BY DeviceNames
  <2>3. ASSUME NEW j \in HidIndex, info'[j].pad = NoPad, NEW p \in Ports PROVE ports'[p].dev # Hid(j)
    BY <1>6, <1>7, <2>1, <2>3 DEF PadsInv, Plugged
  <2>4. ASSUME NEW x \in XPads, xpads[x] # "on", NEW p \in Ports PROVE ports'[p].dev # XIn(x)
    BY <1>7, <2>2, <2>4 DEF PadsInv, Plugged
  <2> QED
    BY <1>2, <2>3, <2>4 DEF Plugged
<1>12. OneMap'
  <2>1. \A m : m \in map_used <=> m # 0 /\ \E j \in HidIndex : info[j].map = m
    BY DEF PadsInv, OneMap
  <2>2. \A j \in HidIndex : j # i /\ info[j].map = info[i].map => info[j].map = 0
    BY DEF PadsInv, OneMap
  <2>3. \A m : m \in map_used' <=> m \in map_used /\ m # info[i].map
    BY <1>1
  <2>4. \A m : m \in map_used' <=> m # 0 /\ \E j \in HidIndex : info'[j].map = m
    BY <1>6, <2>1, <2>2, <2>3
  <2>5. map_used' = {info'[j].map : j \in HidIndex} \ {0}
    BY <2>4
  <2>6. \A j, k \in HidIndex : info'[j].map = info'[k].map /\ j # k => info'[j].map = 0
    BY <1>6 DEF PadsInv, OneMap
  <2>7. \A j \in HidIndex : info'[j].pad = NoPad => info'[j].map = 0
    BY <1>6 DEF PadsInv, OneMap
  <2> QED
    BY <2>5, <2>6, <2>7 DEF OneMap
<1>13. Shows'
  BY <1>2, <1>7 DEF PadsInv, Shows
<1> QED
  BY <1>8, <1>9, <1>10, <1>11, <1>12, <1>13 DEF PadsInv

\* A report: of the generation of the table, or the driver is looked up again.
LEMMA ReportKeptByPads == ASSUME PadsInv, process_joy_report PROVE PadsInv'
<1>1. PICK i \in HidIndex, k \in {{}, {"a"}} :
        /\ info[i].pad # NoPad
        /\ IF info[i].gen # gen
           THEN /\ core1' = [Idle1 EXCEPT !.at = "find", !.job = "report", !.i = i, !.gen = gen, !.keys = k]
                /\ UNCHANGED <<ports, heard>>
           ELSE MapReport(i, info[i].driver, k) /\ UNCHANGED core1
  BY DEF process_joy_report
<1>2. UNCHANGED <<drv_card, drivers, gen, loader, info, map_used, xpads>> /\ core1 = Idle1
  BY DEF process_joy_report, appSide
<1>3. k \in Buttons
  BY DEF Buttons
<1>4. OneMap'
  BY <1>2 DEF PadsInv, OneMap
<1>5. CASE info[i].gen # gen
  <2>1. core1' = [at |-> "find", job |-> "report", i |-> i, gen |-> gen, driver |-> NoDriver, keys |-> k]
    BY <1>1, <1>5 DEF Idle1
  <2>2. core1' \in Callbacks
    BY <1>3, <2>1, PadsAssumption DEF Callbacks, Drivers, PadsInv, AppTypes
  <2>3. UNCHANGED <<ports, heard>>
    BY <1>1, <1>5
  <2>4. AppTypes' /\ CoreTypes'
    BY <1>2, <2>2, <2>3 DEF PadsInv, AppTypes, CoreTypes
  <2>5. Looking'
    BY <1>1, <1>2, <2>1 DEF Looking
  <2>6. gen \in Nat /\ core1'.at = "find" /\ core1'.gen = gen
    BY <2>1 DEF PadsInv, AppTypes
  <2>7. Generations'
    BY <1>2, <2>6 DEF PadsInv, Generations, InCallback, Idle1
  <2>8. OnePort' /\ Plugged' /\ Shows'
    BY <1>2, <2>3 DEF PadsInv, OnePort, Plugged, Shows
  <2> QED
    BY <1>4, <2>4, <2>5, <2>7, <2>8 DEF PadsInv
<1>6. CASE info[i].gen = gen
  <2>1. MapReport(i, info[i].driver, k) /\ core1' = core1
    BY <1>1, <1>6
  <2>2. ports' \in [Ports -> PortOf] /\ heard' \in [Devices -> Buttons] /\ OnePort' /\ Plugged' /\ Shows'
    BY <1>1, <1>2, <1>3, <2>1, MapReportKept
  <2>3. AppTypes' /\ CoreTypes'
    BY <1>2, <2>1, <2>2 DEF PadsInv, AppTypes, CoreTypes
  <2>4. Looking' /\ Generations'
    BY <1>2, <2>1 DEF PadsInv, Looking, Generations, InCallback, Idle1
  <2> QED
    BY <1>4, <2>2, <2>3, <2>4 DEF PadsInv
<1> QED
  BY <1>5, <1>6

\* The driver of a report's pad was looked up again.
LEMMA LookedAgainKept == ASSUME PadsInv, LookedAgain PROVE PadsInv'
<1> DEFINE i == core1.i
<1>1. /\ core1.at = "report" /\ core1' = Idle1
      /\ info' = [info EXCEPT ![i] = [@ EXCEPT !.driver = core1.driver, !.gen = core1.gen]]
      /\ MapReport(i, core1.driver, core1.keys)
      /\ UNCHANGED <<drv_card, drivers, gen, loader, map_used, xpads>>
  BY DEF LookedAgain, appSide
<1>2. i \in HidIndex /\ info[i].pad # NoPad
  BY <1>1 DEF PadsInv, Looking
<1>3. info \in [HidIndex -> InfoOf] /\ core1 \in Callbacks /\ Idle1 \in Callbacks
  BY PadsAssumption DEF PadsInv, CoreTypes, Callbacks, Idle1, Buttons, Drivers
<1>4. info[i] \in InfoOf /\ info' = [info EXCEPT ![i] = [info[i] EXCEPT !.driver = core1.driver, !.gen = core1.gen]]
  BY <1>1, <1>2, <1>3
<1>5. info' \in [HidIndex -> InfoOf]
  <2>1. \A r \in InfoOf : [r EXCEPT !.driver = core1.driver, !.gen = core1.gen] \in InfoOf
    BY <1>3 DEF InfoOf, Callbacks
  <2> QED
    BY <1>2, <1>3, <1>4, <2>1
<1>6. /\ \A j \in HidIndex : j # i => info'[j] = info[j]
      /\ info'[i].pad = info[i].pad /\ info'[i].driver = core1.driver
      /\ info'[i].gen = core1.gen /\ info'[i].map = info[i].map
  <2>1. \A r \in InfoOf : LET s == [r EXCEPT !.driver = core1.driver, !.gen = core1.gen] IN 
          s.pad = r.pad /\ s.driver = core1.driver /\ s.gen = core1.gen /\ s.map = r.map
    BY DEF InfoOf
  <2> QED
    BY <1>2, <1>3, <1>4, <2>1
<1>7. (\A j \in HidIndex : info'[j].pad = info[j].pad) /\ (\A j \in HidIndex : info'[j].map = info[j].map)
  BY <1>6
<1>8. core1.keys \in Buttons
  BY <1>3 DEF Callbacks
<1>9. ports' \in [Ports -> PortOf] /\ heard' \in [Devices -> Buttons] /\ OnePort' /\ Plugged' /\ Shows'
  BY <1>1, <1>2, <1>7, <1>8, MapReportKept
<1>10. AppTypes' /\ CoreTypes'
  BY <1>1, <1>3, <1>5, <1>9 DEF PadsInv, AppTypes, CoreTypes
<1>11. Looking'
  BY <1>1 DEF Looking, Idle1
<1>12. Generations'
  <2>1. core1'.gen = 0 /\ core1'.at = "idle" /\ gen \in Nat
    BY <1>1 DEF Idle1, PadsInv, AppTypes
  <2>2. \A j \in HidIndex : info'[j].gen <= gen
    BY <1>6 DEF PadsInv, Generations
  <2>3. ASSUME NEW j \in HidIndex, info'[j].pad # NoPad, info'[j].gen = gen, loader.at # "second"
        PROVE  info'[j].driver = FindIn(drivers, info'[j].pad)
    <3>1. CASE j = i
      BY <1>1, <1>6, <2>3, <3>1 DEF PadsInv, Generations
    <3>2. CASE j # i
      BY <1>6, <2>3, <3>2 DEF PadsInv, Generations, InCallback
    <3> QED
      BY <3>1, <3>2
  <2> QED
    BY <1>1, <2>1, <2>2, <2>3 DEF Generations
<1>13. OneMap'
  <2>1. {info'[j].map : j \in HidIndex} = {info[j].map : j \in HidIndex}
    BY <1>7
  <2> QED
    BY <1>1, <1>7, <2>1 DEF PadsInv, OneMap
<1> QED
  BY <1>9, <1>10, <1>11, <1>12, <1>13 DEF PadsInv

\* An XInput pad is plugged in, with its pad or asleep.
LEMMA XMountKept == ASSUME PadsInv, tuh_xinput_mount_cb PROVE PadsInv'
<1>1. PICK x \in XPads, connected \in BOOLEAN :
        /\ xpads[x] = "off" /\ xpads' = [xpads EXCEPT ![x] = IF connected THEN "on" ELSE "asleep"]
        /\ ports' = IF connected THEN usb_joy_slots_set(XIn(x), {}) ELSE ports
        /\ heard' = [heard EXCEPT ![XIn(x)] = {}]
  BY DEF tuh_xinput_mount_cb
<1>2. UNCHANGED <<drv_card, drivers, gen, loader, info, map_used, core1>> /\ core1 = Idle1
  BY DEF tuh_xinput_mount_cb, appSide
<1>3. XIn(x) \in Devices /\ XIn(x) # NoDev /\ {} \in Buttons
  BY DeviceNames DEF Buttons
<1>4. /\ heard' \in [Devices -> Buttons] /\ heard'[XIn(x)] = {}
      /\ \A e \in Devices : e # XIn(x) => heard'[e] = heard[e]
  BY <1>1, <1>3 DEF PadsInv, CoreTypes
<1>5. /\ xpads' \in [XPads -> {"off", "on", "asleep"}] /\ \A y \in XPads : y # x => xpads'[y] = xpads[y]
      /\ connected => xpads'[x] = "on"
  BY <1>1 DEF PadsInv, CoreTypes
<1>6. ports' \in [Ports -> PortOf] /\ OnePort' /\ Plugged' /\ Shows'
  <2>1. CASE connected
    <3>1. SetRight(ports', XIn(x), {})
      BY <1>1, <1>3, <2>1, SlotsSet DEF PadsInv, CoreTypes
    <3>2. OnePort' /\ Shows' /\ ports' \in [Ports -> PortOf]
      BY <1>3, <1>4, <3>1, SetShows
    <3>3. \A p \in Ports : ports'[p].dev = XIn(x) \/ ports'[p] = ports[p]
      BY <3>1 DEF SetRight
    <3>4. \A y \in XPads : y # x => XIn(y) # XIn(x)
      BY DeviceNames
    <3>5. \A j \in HidIndex : Hid(j) # XIn(x)
      BY DeviceNames
    <3>6. Plugged'
      BY <1>2, <1>5, <2>1, <3>3, <3>4, <3>5 DEF PadsInv, Plugged
    <3> QED
      BY <3>2, <3>6
  <2>2. CASE ~connected
    <3>1. ports' = ports
      BY <1>1, <2>2
    <3>2. \A p \in Ports : ports[p].dev # XIn(x)
      BY <1>1 DEF PadsInv, Plugged
    <3>3. Plugged'
      BY <1>2, <1>5, <3>1, <3>2 DEF PadsInv, Plugged
    <3>4. \A p \in Ports : ports[p].dev # NoDev => heard'[ports[p].dev] = heard[ports[p].dev]
      BY <1>4, <3>2 DEF PadsInv, CoreTypes, PortOf
    <3>5. Shows'
      BY <3>1, <3>4 DEF PadsInv, Shows
    <3> QED
      BY <3>1, <3>3, <3>5 DEF PadsInv, CoreTypes, OnePort
  <2> QED
    BY <2>1, <2>2
<1>7. AppTypes' /\ CoreTypes'
  BY <1>2, <1>4, <1>5, <1>6 DEF PadsInv, AppTypes, CoreTypes
<1>8. Looking' /\ Generations' /\ OneMap'
  BY <1>2 DEF PadsInv, Looking, Generations, InCallback, OneMap, Idle1
<1> QED
  BY <1>6, <1>7, <1>8 DEF PadsInv

\* A report of an XInput pad: its buttons, or that it went to sleep.
LEMMA XReportKept == ASSUME PadsInv, tuh_xinput_report_received_cb PROVE PadsInv'
<1>1. PICK x \in XPads, connected \in BOOLEAN, k \in {{}, {"a"}} :
        /\ xpads[x] # "off" /\ xpads' = [xpads EXCEPT ![x] = IF connected THEN "on" ELSE "asleep"]
        /\ ports' = IF connected THEN usb_joy_slots_set(XIn(x), k) ELSE usb_joy_slots_remove(XIn(x))
        /\ heard' = [heard EXCEPT ![XIn(x)] = IF connected THEN k ELSE {}]
  BY DEF tuh_xinput_report_received_cb
<1>2. UNCHANGED <<drv_card, drivers, gen, loader, info, map_used, core1>> /\ core1 = Idle1
  BY DEF tuh_xinput_report_received_cb, appSide
<1>3. XIn(x) \in Devices /\ XIn(x) # NoDev /\ k \in Buttons /\ {} \in Buttons
  BY DeviceNames DEF Buttons
<1>4. /\ heard' \in [Devices -> Buttons] /\ (connected => heard'[XIn(x)] = k)
      /\ \A e \in Devices : e # XIn(x) => heard'[e] = heard[e]
  BY <1>1, <1>3 DEF PadsInv, CoreTypes
<1>5. /\ xpads' \in [XPads -> {"off", "on", "asleep"}] /\ \A y \in XPads : y # x => xpads'[y] = xpads[y]
      /\ connected => xpads'[x] = "on"
  BY <1>1 DEF PadsInv, CoreTypes
<1>6. (\A y \in XPads : XIn(y) # NoDev) /\ (\A j \in HidIndex : Hid(j) # NoDev)
  BY DeviceNames
<1>7. ports' \in [Ports -> PortOf] /\ OnePort' /\ Plugged' /\ Shows'
  <2>1. CASE connected
    <3>1. SetRight(ports', XIn(x), k)
      BY <1>1, <1>3, <2>1, SlotsSet DEF PadsInv, CoreTypes
    <3>2. OnePort' /\ Shows' /\ ports' \in [Ports -> PortOf]
      BY <1>3, <1>4, <2>1, <3>1, SetShows
    <3>3. \A p \in Ports : ports'[p].dev = XIn(x) \/ ports'[p] = ports[p]
      BY <3>1 DEF SetRight
    <3>4. \A y \in XPads : y # x => XIn(y) # XIn(x)
      BY DeviceNames
    <3>5. \A j \in HidIndex : Hid(j) # XIn(x)
      BY DeviceNames
    <3>6. Plugged'
      BY <1>2, <1>5, <2>1, <3>3, <3>4, <3>5 DEF PadsInv, Plugged
    <3> QED
      BY <3>2, <3>6
  <2>2. CASE ~connected
    <3>1. /\ ports' \in [Ports -> PortOf]
          /\ \A p \in Ports : ports'[p].dev = NoDev \/ (ports'[p] = ports[p] /\ ports[p].dev # XIn(x))
          /\ \A p, q \in Ports : ports'[p].dev = ports'[q].dev /\ p # q => ports'[p].dev = NoDev
      BY <1>1, <2>2, SlotsRemoved DEF PadsInv, CoreTypes
    <3>2. OnePort'
      BY <3>1 DEF OnePort
    <3>3. Plugged'
      BY <1>2, <1>5, <1>6, <3>1 DEF PadsInv, Plugged
    <3>4. \A p \in Ports : ports[p].dev # NoDev => ports[p].dev \in Devices
      BY DEF PadsInv, CoreTypes, PortOf
    <3>5. Shows'
      BY <1>4, <3>1, <3>4 DEF PadsInv, Shows
    <3> QED
      BY <3>1, <3>2, <3>3, <3>5
  <2> QED
    BY <2>1, <2>2
<1>8. AppTypes' /\ CoreTypes'
  BY <1>2, <1>4, <1>5, <1>7 DEF PadsInv, AppTypes, CoreTypes
<1>9. Looking' /\ Generations' /\ OneMap'
  BY <1>2 DEF PadsInv, Looking, Generations, InCallback, OneMap, Idle1
<1> QED
  BY <1>7, <1>8, <1>9 DEF PadsInv

\* An XInput pad is unplugged.
LEMMA XUmountKept == ASSUME PadsInv, tuh_xinput_umount_cb PROVE PadsInv'
<1>1. PICK x \in XPads : /\ xpads' = [xpads EXCEPT ![x] = "off"]
                         /\ ports' = usb_joy_slots_remove(XIn(x))
  BY DEF tuh_xinput_umount_cb
<1>2. UNCHANGED <<drv_card, drivers, gen, loader, info, map_used, core1, heard>> /\ core1 = Idle1
  BY DEF tuh_xinput_umount_cb, appSide
<1>3. /\ xpads' \in [XPads -> {"off", "on", "asleep"}] /\ \A y \in XPads : y # x => xpads'[y] = xpads[y]
  BY <1>1 DEF PadsInv, CoreTypes
<1>4. (\A y \in XPads : XIn(y) # NoDev) /\ (\A j \in HidIndex : Hid(j) # NoDev)
  BY DeviceNames
<1>5. /\ ports' \in [Ports -> PortOf]
      /\ \A p \in Ports : ports'[p].dev = NoDev \/ (ports'[p] = ports[p] /\ ports[p].dev # XIn(x))
      /\ \A p, q \in Ports : ports'[p].dev = ports'[q].dev /\ p # q => ports'[p].dev = NoDev
  BY <1>1, SlotsRemoved DEF PadsInv, CoreTypes
<1>6. OnePort'
  BY <1>5 DEF OnePort
<1>7. Plugged'
  BY <1>2, <1>3, <1>4, <1>5 DEF PadsInv, Plugged
<1>8. Shows'
  BY <1>2, <1>5 DEF PadsInv, Shows
<1>9. AppTypes' /\ CoreTypes'
  BY <1>2, <1>3, <1>5 DEF PadsInv, AppTypes, CoreTypes
<1>10. Looking' /\ Generations' /\ OneMap'
  BY <1>2 DEF PadsInv, Looking, Generations, InCallback, OneMap, Idle1
<1> QED
  BY <1>6, <1>7, <1>8, <1>9, <1>10 DEF PadsInv

-----------------------------------------------------------------------------
\* The invariant of the pads, their drivers, ports and default maps.
THEOREM PadsInvariant == PadsSpec => []PadsInv
<1>1. ASSUME PadsInit PROVE PadsInv
  <2>1. drv_card \in Tables /\ drivers = [load |-> 0, of |-> [f \in DriverFiles |-> NoPad]] /\ gen = 0
        /\ loader = [at |-> "load", next |-> drv_card]
    BY <1>1 DEF PadsInit, Tables
  <2>2. [f \in DriverFiles |-> NoPad] \in Tables
    BY DEF Tables
  <2>3. AppTypes
    BY <2>1, <2>2 DEF AppTypes
  <2>4. info = [i \in HidIndex |-> Free] /\ Free \in InfoOf /\ map_used = {} /\ core1 = Idle1
    BY <1>1, PadsAssumption DEF PadsInit, Free, InfoOf, Drivers
  <2>5. Idle1 \in Callbacks
    BY PadsAssumption DEF Callbacks, Idle1, Buttons, Drivers
  <2>6. ports = [p \in Ports |-> [dev |-> NoDev, keys |-> {}]] /\ [dev |-> NoDev, keys |-> {}] \in PortOf
    BY <1>1 DEF PadsInit, PortOf, Buttons
  <2>7. xpads \in [XPads -> {"off", "on", "asleep"}] /\ heard \in [Devices -> Buttons]
    BY <1>1 DEF PadsInit, Buttons
  <2>8. CoreTypes
    BY <2>4, <2>5, <2>6, <2>7 DEF CoreTypes
  <2>9. Looking
    BY <2>4 DEF Looking, Idle1
  <2>10. Generations
    BY <2>1, <2>4 DEF Generations, Idle1, Free
  <2>11. OnePort /\ Shows
    BY <2>6 DEF OnePort, Shows
  <2>12. Plugged
    BY <2>6, DeviceNames DEF Plugged
  <2>13. OneMap
    BY <2>4 DEF OneMap, Free
  <2> QED
    BY <2>3, <2>8, <2>9, <2>10, <2>11, <2>12, <2>13 DEF PadsInv
<1>2. PadsInv /\ [PadsNext]_padVars => PadsInv'
  <2>1. ASSUME PadsInv, UNCHANGED padVars PROVE PadsInv'
    BY <2>1 DEF padVars, PadsInv, AppTypes, CoreTypes, Looking, Generations, InCallback, OnePort, Plugged, OneMap, Shows
  <2> QED
    BY <2>1, DriverOpKept, LoadKept, HidMountKept, FindKept, MountedKept, HidUmountKept, ReportKeptByPads,
       LookedAgainKept, XMountKept, XReportKept, XUmountKept DEF PadsNext
<1> QED
  BY <1>1, <1>2, PTL DEF PadsSpec

\* A pad has the driver of the table it was looked up in, one port and one default map of its own,
\* and its port shows what it reported (hid_app.c, hid_driver.c, hid_auto_map.c, usb_joy_slots.c):
\* for any pads, files, ports in use and tables replaced meanwhile.
THEOREM PadsAreRight == PadsSpec => []PadsRight
<1>1. ASSUME PadsInv PROVE PadsRight
  <2>1. \A p : hid_driver_find(p) = FindIn(drivers, p)
    BY <1>1, FoundDriver DEF PadsInv, AppTypes
  <2>2. DriverFresh
    BY <1>1, <2>1 DEF PadsInv, Generations, InCallback, DriverFresh
  <2>3. PortsRight
    BY <1>1 DEF PadsInv, OnePort, Plugged, OneMap, PortsRight
  <2>4. ButtonsShown
    BY <1>1 DEF PadsInv, Shows, ButtonsShown
  <2> QED
    BY <2>2, <2>3, <2>4 DEF PadsRight
<1> QED
  BY <1>1, PadsInvariant, PTL

-----------------------------------------------------------------------------
(***************************************************************************)
(* The learning of a pad.                                                  *)
(***************************************************************************)

HeldData == HeldOnPad \cup {"none"}
Reps  == [pad : LearnPads \cup {"none"}, id : ReportIds \cup {0}, data : HeldData]
Rests == [id : ReportIds \cup {0}, seen : SUBSET HeldData]
LearnStates == {"idle", "select", "settle", "rest", "press", "release", "done", "saved", "failed"}
Learnings ==
  [state : LearnStates, btn : 0 .. LearnButtons, last_seq : Nat, rep : Reps, rest : Rests,
   mapped : SUBSET Asked, rules : [Asked -> Reps], live : HeldData, changed : BOOLEAN]
PortPads == [1 .. 2 -> {"none", "default", "driver", "xinput"}]
Pages ==
  [kind : LearnScreens, view : {"idle", "list", "test", "mapping"}, pads : PortPads, port : 1 .. 2,
   btn : 0 .. 2, msg : {"none", "ok", "failed"}, joy : {"none", "exit"}]

LearnTypes ==
  /\ padAt \in [LearnIndex -> LearnPads]
  /\ capture \in [on : BOOLEAN, inst : LearnIndex \cup {0}, seq : Nat, rep : Reps]
  /\ pl \in Learnings
  /\ pads2 \in PortPads
  /\ page \in Pages
  /\ learnPast \in [feeds : Nat, keys : Nat, swaps : Nat, late : Nat, ports : Nat,
                    released : BOOLEAN, steady : BOOLEAN]

\* What was learned: asked for, not before the rest is there, pressed against it.
Asking(q) ==
  /\ q.state \in {"select", "settle"} => q.rest = NoRest
  /\ q.state \in {"select", "settle", "rest"} => q.mapped = {}
  /\ q.state \in {"press", "release"} => q.btn < LearnButtons
  /\ \A b \in q.mapped : pressed_in(q.rest, q.rules[b])

OneSeen(rest) == rest.seen = {} \/ \E d \in HeldData : rest.seen = {d}

\* The rules come from the pad whose reports are captured.
SamePad ==
  /\ capture.seq # 0 => capture.inst \in LearnIndex /\ capture.rep.pad = padAt[capture.inst]
  /\ pl.mapped # {} => capture.seq # 0 /\ pl.rep.pad = padAt[capture.inst]
  /\ \A b \in pl.mapped : pl.rules[b].pad = pl.rep.pad

ForgetShown(g) == g.view = "list" /\ g.btn = ForgetButton(g) => can_forget(g)
ScreenInv ==
  /\ ~pl.changed => drawn = Content(page, pl)
  /\ page.view = "test" => page.kind = "graphic"
  /\ ForgetShown(page)

LearnInv ==
  /\ LearnTypes
  /\ Asking(pl)
  /\ CaptureOn
  /\ learnPast.steady => OneSeen(pl.rest)
  /\ learnPast.swaps = 0 => SamePad
  /\ ScreenInv

-----------------------------------------------------------------------------

\* The learning after a step of its own: as it was asked, from the same report.
Goes(q, r) == r \in Learnings /\ Asking(r) /\ (r.state = "idle" <=> q.state = "idle") /\ r.rep = q.rep
SameRules(q, r) == r.mapped \subseteq q.mapped /\ r.rules = q.rules /\ r.rest = q.rest

\* set_state() sets the state, and that the screen is to be drawn.
LEMMA SetStateOf ==
  ASSUME NEW q \in Learnings, NEW s \in LearnStates
  PROVE  /\ set_state(q, s) \in Learnings
         /\ set_state(q, s).state = s /\ set_state(q, s).changed
         /\ set_state(q, s).btn = q.btn /\ set_state(q, s).rep = q.rep /\ set_state(q, s).rest = q.rest
         /\ set_state(q, s).mapped = q.mapped /\ set_state(q, s).rules = q.rules /\ set_state(q, s).live = q.live
BY DEF set_state, Learnings

\* The next button is asked for, or the learning is done.
LEMMA NextButtonOf ==
  ASSUME NEW q \in Learnings, Asking(q), q.state \in {"press", "release"}
  PROVE  Goes(q, next_button(q)) /\ SameRules(q, next_button(q)) /\ next_button(q).changed
<1>1. q.btn \in 0 .. LearnButtons /\ q.btn < LearnButtons /\ q.btn + 1 \in 0 .. LearnButtons
  BY LearnAssumption DEF Learnings, Asking
<1>2. ASSUME NEW p \in Learnings, p.rep = q.rep, SameRules(q, p), p.mapped = q.mapped,
             NEW s \in {"press", "done"}, s = "press" => p.btn < LearnButtons
      PROVE  Goes(q, set_state(p, s)) /\ SameRules(q, set_state(p, s)) /\ set_state(p, s).changed
  <2>1. s \in LearnStates
    BY DEF LearnStates
  <2>2. Asking(set_state(p, s))
    BY <1>2, <2>1, SetStateOf DEF Asking, SameRules
  <2>3. QED
    BY <1>2, <2>1, <2>2, SetStateOf DEF Goes, SameRules
<1>3. CASE q.btn + 1 < LearnButtons
  <2>1. [q EXCEPT !.btn = @ + 1] \in Learnings
    BY <1>1 DEF Learnings
  <2>2. LET p == [q EXCEPT !.btn = @ + 1]
        IN p.rep = q.rep /\ SameRules(q, p) /\ p.mapped = q.mapped /\ p.btn = q.btn + 1
    BY DEF Learnings, SameRules
  <2>3. next_button(q) = set_state([q EXCEPT !.btn = @ + 1], "press")
    BY <1>3 DEF next_button
  <2>4. QED
    BY <1>2, <1>3, <2>1, <2>2, <2>3
<1>4. CASE ~(q.btn + 1 < LearnButtons)
  <2>1. [q EXCEPT !.btn = @ + 1, !.live = "none"] \in Learnings
    BY <1>1 DEF Learnings, HeldData
  <2>2. LET p == [q EXCEPT !.btn = @ + 1, !.live = "none"]
        IN p.rep = q.rep /\ SameRules(q, p) /\ p.mapped = q.mapped
    BY DEF Learnings, SameRules
  <2>3. next_button(q) = set_state([q EXCEPT !.btn = @ + 1, !.live = "none"], "done")
    BY <1>4 DEF next_button
  <2>4. QED
    BY <1>2, <2>1, <2>2, <2>3
<1>5. QED
  BY <1>3, <1>4

\* A key of the learning: skip, back, save.
LEMMA KeysOf ==
  ASSUME NEW q \in Learnings, Asking(q), NEW ok \in BOOLEAN,
         NEW r, r \in {pl_skip(q), pl_back(q), pl_save(q, ok)}
  PROVE  Goes(q, r) /\ SameRules(q, r)
<1>1. Goes(q, q) /\ SameRules(q, q)
  BY DEF Goes, SameRules
<1>2. CASE r = pl_skip(q)
  BY <1>1, <1>2, NextButtonOf DEF pl_skip
<1>3. CASE r = pl_back(q)
  <2>1. CASE q.state \in {"press", "release", "done"} /\ q.btn > 0
    <3> DEFINE p == [q EXCEPT !.btn = @ - 1, !.mapped = @ \ {q.btn - 1}]
    <3>1. q.btn \in 0 .. LearnButtons /\ q.btn - 1 \in 0 .. LearnButtons /\ q.btn - 1 < LearnButtons
      BY <2>1, LearnAssumption DEF Learnings
    <3>2. p \in Learnings
      BY <3>1 DEF Learnings
    <3>3. p.rep = q.rep /\ SameRules(q, p) /\ p.btn = q.btn - 1
      BY DEF Learnings, SameRules
    <3>4. r = set_state(p, "press")
      BY <1>3, <2>1 DEF pl_back
    <3> HIDE DEF p
    <3>5. "press" \in LearnStates
      BY DEF LearnStates
    <3>6. /\ r \in Learnings /\ r.state = "press" /\ r.btn = q.btn - 1 /\ r.rep = q.rep
          /\ SameRules(q, r)
      BY <3>2, <3>3, <3>4, <3>5, SetStateOf DEF SameRules
    <3>7. Asking(r)
      BY <3>1, <3>6 DEF Asking, SameRules
    <3>8. QED
      BY <2>1, <3>6, <3>7 DEF Goes
  <2>2. CASE ~(q.state \in {"press", "release", "done"} /\ q.btn > 0)
    BY <1>1, <1>3, <2>2 DEF pl_back
  <2>3. QED
    BY <2>1, <2>2
<1>4. CASE r = pl_save(q, ok)
  <2>1. CASE q.state = "done" /\ q.mapped # {}
    <3> DEFINE p == [q EXCEPT !.live = "none"]
               s == IF ok THEN "saved" ELSE "failed"
    <3>1. p \in Learnings /\ p.rep = q.rep /\ SameRules(q, p) /\ s \in LearnStates /\ s \in {"saved", "failed"}
      BY DEF Learnings, HeldData, SameRules, LearnStates
    <3>2. r = set_state(p, s)
      BY <1>4, <2>1 DEF pl_save
    <3> HIDE DEF p, s
    <3>3. r \in Learnings /\ r.state = s /\ r.rep = q.rep /\ SameRules(q, r)
      BY <3>1, <3>2, SetStateOf DEF SameRules
    <3>4. Asking(r)
      BY <3>1, <3>3 DEF Asking, SameRules
    <3>5. QED
      BY <2>1, <3>1, <3>3, <3>4 DEF Goes
  <2>2. CASE ~(q.state = "done" /\ q.mapped # {})
    BY <1>1, <1>4, <2>2 DEF pl_save
  <2>3. QED
    BY <2>1, <2>2
<1>5. QED
  BY <1>2, <1>3, <1>4

-----------------------------------------------------------------------------
(* A step of pl_tick().                                                    *)

\* Nothing that is on a screen is another.
SameShown(q, r) ==
  /\ r.btn = q.btn /\ r.mapped = q.mapped /\ r.live = q.live /\ r.changed = q.changed
  /\ r.state = q.state \/ (q.state = "settle" /\ r.state = "rest")

\* Screens that show the same are the same.
LEMMA ShownOf ==
  ASSUME NEW g, NEW q, NEW r, SameShown(q, r)
  PROVE  Content(g, r) = Content(g, q)
<1>1. StepContent(r) = StepContent(q)
  BY DEF SameShown, StepContent
<1>2. r.state \in Over <=> q.state \in Over
  BY DEF SameShown, Over
<1>3. PadContent(r) = PadContent(q)
  BY <1>1, <1>2 DEF SameShown, PadContent
<1>4. QED
  BY <1>1, <1>3 DEF Content

\* A rest takes one report, and none that it has.
LEMMA RestAddOf ==
  ASSUME NEW rest \in Rests, NEW rep \in Reps
  PROVE  /\ rest_add(rest, rep) \in Rests
         /\ OneSeen(rest) /\ ~pressed_in(rest, rep) => OneSeen(rest_add(rest, rep))
         /\ rest.seen = {} => OneSeen(rest_add(rest, rep))
<1>1. rep.id \in ReportIds \cup {0} /\ rep.data \in HeldData /\ rest.id \in ReportIds \cup {0}
      /\ rest.seen \in SUBSET HeldData
  BY DEF Reps, Rests
<1>2. CASE rest.seen = {}
  <2>1. rest_add(rest, rep) = [id |-> rep.id, seen |-> {rep.data}]
    BY <1>2 DEF rest_add
  <2>2. QED
    BY <1>1, <2>1 DEF Rests, OneSeen
<1>3. CASE rest.seen # {} /\ rep.id = rest.id
  <2>1. rest_add(rest, rep) = [rest EXCEPT !.seen = @ \cup {rep.data}]
    BY <1>3 DEF rest_add
  <2>2. rest_add(rest, rep) \in Rests /\ rest_add(rest, rep).seen = rest.seen \cup {rep.data}
    BY <1>1, <2>1 DEF Rests
  <2>3. ~pressed_in(rest, rep) => rest_add(rest, rep).seen = rest.seen
    BY <1>3, <2>2 DEF pressed_in
  <2>4. QED
    BY <1>3, <2>2, <2>3 DEF OneSeen
<1>4. CASE rest.seen # {} /\ rep.id # rest.id
  BY <1>4 DEF rest_add
<1>5. QED
  BY <1>2, <1>3, <1>4

\* What a step of the learning may do: it learns the button it asks for from a
\* fresh report, draws what it changes, and gathers a rest of one report.
Learns(q, r, fresh) ==
  \/ r.mapped \subseteq q.mapped /\ r.rules = q.rules
  \/ fresh /\ r.mapped = q.mapped \cup {q.btn} /\ r.rules = [q.rules EXCEPT ![q.btn] = q.rep]
Draws(q, r) == ~r.changed => SameShown(q, r)
Steady(q, r, late) ==
  \/ OneSeen(r.rest)
  \/ ~OneSeen(q.rest) /\ q.state # "settle"
  \/ q.state = "rest" /\ late /\ pressed_in(q.rest, q.rep)
StepRight(q, r, fresh, late) == Goes(q, r) /\ Learns(q, r, fresh) /\ Draws(q, r) /\ Steady(q, r, late)

\* A tick that finds nothing new leaves the learning as it is.
LEMMA SameStep ==
  ASSUME NEW q \in Learnings, Asking(q), q.state # "settle", NEW fresh, NEW late
  PROVE  StepRight(q, q, fresh, late)
BY DEF StepRight, Goes, Learns, Draws, Steady, SameShown

\* The first report of a pad selects it.
LEMMA SelectStep ==
  ASSUME NEW q \in Learnings, Asking(q), NEW fresh \in BOOLEAN, NEW late \in BOOLEAN, q.state = "select"
  PROVE  StepRight(q, step(q, fresh, late), fresh, late)
<1>1. step(q, fresh, late) = IF fresh THEN set_state(q, "settle") ELSE q
  BY DEF step, Over
<1>2. CASE fresh
  <2> DEFINE r == set_state(q, "settle")
  <2>1. "settle" \in LearnStates
    BY DEF LearnStates
  <2>2. r \in Learnings /\ r.state = "settle" /\ r.changed /\ r.rep = q.rep /\ r.rest = q.rest
        /\ r.mapped = q.mapped /\ r.rules = q.rules
    BY <2>1, SetStateOf
  <2> HIDE DEF r
  <2>3. Asking(r) /\ OneSeen(r.rest)
    BY <2>2 DEF Asking, OneSeen, NoRest
  <2>4. StepRight(q, r, fresh, late)
    BY <2>2, <2>3 DEF StepRight, Goes, Learns, Draws, Steady
  <2>5. QED
    BY <1>1, <1>2, <2>4 DEF r
<1>3. CASE ~fresh
  BY <1>1, <1>3, SameStep
<1>4. QED
  BY <1>2, <1>3

\* The pad is let go before its rest is taken.
LEMMA SettleStep ==
  ASSUME NEW q \in Learnings, Asking(q), NEW fresh \in BOOLEAN, NEW late \in BOOLEAN, q.state = "settle"
  PROVE  StepRight(q, step(q, fresh, late), fresh, late)
<1>1. step(q, fresh, late) = IF late THEN [q EXCEPT !.state = "rest", !.rest = NoRest] ELSE q
  BY DEF step, Over
<1>2. q.rest = NoRest /\ OneSeen(NoRest) /\ NoRest \in Rests /\ "rest" \in LearnStates
  BY DEF Asking, OneSeen, NoRest, Rests, LearnStates
<1>3. CASE late
  <2> DEFINE r == [q EXCEPT !.state = "rest", !.rest = NoRest]
  <2>1. r \in Learnings
    BY <1>2 DEF Learnings
  <2>2. r.state = "rest" /\ r.rest = NoRest /\ r.rep = q.rep /\ r.mapped = q.mapped /\ r.rules = q.rules
        /\ r.btn = q.btn /\ r.live = q.live /\ r.changed = q.changed
    BY DEF Learnings
  <2> HIDE DEF r
  <2>3. Asking(r)
    BY <1>2, <2>2 DEF Asking
  <2>4. StepRight(q, r, fresh, late)
    BY <1>2, <2>1, <2>2, <2>3 DEF StepRight, Goes, Learns, Draws, Steady, SameShown
  <2>5. QED
    BY <1>1, <1>3, <2>4 DEF r
<1>4. CASE ~late
  BY <1>1, <1>2, <1>4 DEF StepRight, Goes, Learns, Draws, Steady, SameShown
<1>5. QED
  BY <1>3, <1>4

\* The rest begins again, grows by a report, or is there and the first button asked.
LEMMA RestStep ==
  ASSUME NEW q \in Learnings, Asking(q), NEW fresh \in BOOLEAN, NEW late \in BOOLEAN, q.state = "rest"
  PROVE  StepRight(q, step(q, fresh, late), fresh, late)
<1> DEFINE more == IF fresh THEN rest_add(q.rest, q.rep) ELSE q.rest
<1>0. q.rest \in Rests /\ q.rep \in Reps /\ q.mapped = {}
  BY DEF Learnings, Asking
<1>1. ASSUME NEW s \in Rests, OneSeen(s) \/ ~OneSeen(q.rest) \/ (late /\ pressed_in(q.rest, q.rep))
      PROVE  StepRight(q, [q EXCEPT !.rest = s], fresh, late)
  <2> DEFINE r == [q EXCEPT !.rest = s]
  <2>1. r \in Learnings
    BY DEF Learnings
  <2>2. r.rest = s /\ r.state = "rest" /\ r.rep = q.rep /\ r.mapped = q.mapped /\ r.rules = q.rules
        /\ r.btn = q.btn /\ r.live = q.live /\ r.changed = q.changed
    BY DEF Learnings
  <2> HIDE DEF r
  <2>3. Asking(r)
    BY <1>0, <2>2 DEF Asking
  <2>4. StepRight(q, r, fresh, late)
    BY <1>1, <2>1, <2>2, <2>3 DEF StepRight, Goes, Learns, Draws, Steady, SameShown
  <2>5. QED
    BY <2>4 DEF r
<1>2. ASSUME NEW s \in Rests, OneSeen(s) \/ ~OneSeen(q.rest) \/ (late /\ pressed_in(q.rest, q.rep))
      PROVE  StepRight(q, set_state([q EXCEPT !.btn = 0, !.rest = s], "press"), fresh, late)
  <2> DEFINE p == [q EXCEPT !.btn = 0, !.rest = s]
             r == set_state(p, "press")
  <2>1. p \in Learnings
    <3>1. 0 \in 0 .. LearnButtons
      BY LearnAssumption
    <3>2. QED
      BY <3>1 DEF Learnings
  <2>2. p.rest = s /\ p.btn = 0 /\ p.rep = q.rep /\ p.mapped = q.mapped /\ p.rules = q.rules
    BY DEF Learnings
  <2> HIDE DEF p
  <2>3. r \in Learnings /\ r.state = "press" /\ r.changed /\ r.rest = s /\ r.btn = 0 /\ r.rep = q.rep
        /\ r.mapped = q.mapped /\ r.rules = q.rules
    BY <2>1, <2>2, SetStateOf DEF LearnStates
  <2> HIDE DEF r
  <2>4. Asking(r)
    BY <1>0, <2>3, LearnAssumption DEF Asking
  <2>5. StepRight(q, r, fresh, late)
    BY <1>2, <2>3, <2>4 DEF StepRight, Goes, Learns, Draws, Steady
  <2>6. QED
    BY <2>5 DEF r, p
<1>3. more \in Rests /\ (OneSeen(more) \/ ~OneSeen(q.rest) \/ (fresh /\ pressed_in(q.rest, q.rep)))
  BY <1>0, RestAddOf
<1> HIDE DEF more
<1>4. /\ rest_add(more, q.rep) \in Rests
      /\ more.seen = {} => OneSeen(rest_add(more, q.rep))
  BY <1>0, <1>3, RestAddOf
<1>5. CASE fresh /\ again(q.rest, q.rep) /\ ~late
  <2>1. step(q, fresh, late) = [q EXCEPT !.rest = NoRest]
    BY <1>5 DEF step, Over
  <2>2. NoRest \in Rests /\ OneSeen(NoRest)
    BY DEF NoRest, Rests, OneSeen
  <2>3. QED
    BY <1>1, <2>1, <2>2
<1>6. CASE ~(fresh /\ again(q.rest, q.rep) /\ ~late)
  <2>1. OneSeen(more) \/ ~OneSeen(q.rest) \/ (late /\ pressed_in(q.rest, q.rep))
    BY <1>3, <1>6 DEF again
  <2>2. CASE late
    <3> DEFINE s == IF more.seen = {} THEN rest_add(more, q.rep) ELSE more
    <3>1. step(q, fresh, late) = set_state([q EXCEPT !.btn = 0, !.rest = s], "press")
      BY <1>6, <2>2 DEF step, more, Over
    <3>2. s \in Rests
      BY <1>3, <1>4
    <3>3. OneSeen(s) \/ ~OneSeen(q.rest) \/ (late /\ pressed_in(q.rest, q.rep))
      BY <1>4, <2>1
    <3> HIDE DEF s
    <3>4. QED
      BY <1>2, <3>1, <3>2, <3>3
  <2>3. CASE ~late
    <3>1. step(q, fresh, late) = [q EXCEPT !.rest = more]
      BY <1>6, <2>3 DEF step, more, Over
    <3>2. QED
      BY <1>1, <1>3, <2>1, <3>1
  <2>4. QED
    BY <2>2, <2>3
<1>7. QED
  BY <1>5, <1>6

\* The step after a button: nothing is learned, the rest stays.
LEMMA NextStep ==
  ASSUME NEW q \in Learnings, Asking(q), q.state \in {"press", "release"}, NEW fresh, NEW late
  PROVE  StepRight(q, next_button(q), fresh, late)
<1>1. Goes(q, next_button(q)) /\ SameRules(q, next_button(q)) /\ next_button(q).changed
  BY NextButtonOf
<1>2. QED
  BY <1>1 DEF StepRight, SameRules, Learns, Draws, Steady

\* A fresh report that is no rest is the rule of the button, which is let go next;
\* without one the wait may end.
LEMMA PressStep ==
  ASSUME NEW q \in Learnings, Asking(q), NEW fresh \in BOOLEAN, NEW late \in BOOLEAN, q.state = "press"
  PROVE  StepRight(q, step(q, fresh, late), fresh, late)
<1> DEFINE p == [q EXCEPT !.mapped = @ \cup {q.btn}, !.rules[q.btn] = q.rep]
           r == set_state(p, "release")
<1>1. CASE fresh /\ pressed_in(q.rest, q.rep)
  <2>1. step(q, fresh, late) = r
    BY <1>1 DEF step, Over
  <2>2. q.btn \in Asked /\ q.rep \in Reps /\ q.rules \in [Asked -> Reps] /\ q.mapped \in SUBSET Asked
    <3>1. q.btn \in 0 .. LearnButtons /\ q.btn < LearnButtons
      BY DEF Asking, Learnings
    <3>2. q.btn \in Asked
      BY <3>1, LearnAssumption DEF Asked
    <3>3. QED
      BY <3>2 DEF Learnings
  <2>3. [q.rules EXCEPT ![q.btn] = q.rep] \in [Asked -> Reps] /\ q.mapped \cup {q.btn} \in SUBSET Asked
    BY <2>2
  <2>4. p \in Learnings
    BY <2>3 DEF Learnings
  <2>5. p.mapped = q.mapped \cup {q.btn} /\ p.rules = [q.rules EXCEPT ![q.btn] = q.rep]
        /\ p.btn = q.btn /\ p.rep = q.rep /\ p.rest = q.rest
    BY DEF Learnings
  <2> HIDE DEF p
  <2>6. /\ r \in Learnings /\ r.state = "release" /\ r.changed /\ r.btn = q.btn /\ r.rep = q.rep
        /\ r.rest = q.rest /\ r.mapped = q.mapped \cup {q.btn}
        /\ r.rules = [q.rules EXCEPT ![q.btn] = q.rep]
    BY <2>4, <2>5, SetStateOf DEF LearnStates
  <2> HIDE DEF r
  <2>7. \A b \in r.mapped : pressed_in(r.rest, r.rules[b])
    BY <1>1, <2>2, <2>6 DEF Asking
  <2>8. Asking(r)
    BY <2>6, <2>7 DEF Asking
  <2>9. StepRight(q, r, fresh, late)
    BY <1>1, <2>6, <2>8 DEF StepRight, Goes, Learns, Draws, Steady
  <2>10. QED
    BY <2>1, <2>9
<1>2. CASE ~(fresh /\ pressed_in(q.rest, q.rep))
  <2>1. step(q, fresh, late) = IF late THEN next_button(q) ELSE q
    BY <1>2 DEF step, Over
  <2>2. QED
    BY <2>1, NextStep, SameStep
<1>3. QED
  BY <1>1, <1>2

\* A report at rest, or the end of the wait, asks for the next button.
LEMMA ReleaseStep ==
  ASSUME NEW q \in Learnings, Asking(q), NEW fresh \in BOOLEAN, NEW late \in BOOLEAN, q.state = "release"
  PROVE  StepRight(q, step(q, fresh, late), fresh, late)
<1>1. step(q, fresh, late) \in {q, next_button(q)}
  BY DEF step, Over
<1>2. QED
  BY <1>1, NextStep, SameStep

\* What is held is shown once the learning is over.
LEMMA OverStep ==
  ASSUME NEW q \in Learnings, Asking(q), NEW fresh \in BOOLEAN, NEW late \in BOOLEAN, q.state \in Over
  PROVE  StepRight(q, step(q, fresh, late), fresh, late)
<1> DEFINE r == [q EXCEPT !.live = q.rep.data, !.changed = @ \/ q.rep.data # q.live]
<1>1. CASE fresh /\ q.rep.id = q.rest.id
  <2>1. step(q, fresh, late) = r
    BY <1>1 DEF step, Over
  <2>2. q.rep.data \in HeldData /\ q.changed \in BOOLEAN /\ (q.changed \/ q.rep.data # q.live) \in BOOLEAN
    BY DEF Learnings, Reps
  <2>3. r \in Learnings
    BY <2>2 DEF Learnings
  <2>4. /\ r.state = q.state /\ r.btn = q.btn /\ r.rep = q.rep /\ r.rest = q.rest /\ r.mapped = q.mapped
        /\ r.rules = q.rules /\ r.live = q.rep.data
    BY DEF Learnings
  <2>5. r.changed = (q.changed \/ q.rep.data # q.live)
    BY DEF Learnings
  <2> HIDE DEF r
  <2>6. Asking(r)
    BY <2>4 DEF Asking
  <2>7. Draws(q, r)
    BY <2>2, <2>4, <2>5 DEF Draws, SameShown
  <2>8. StepRight(q, r, fresh, late)
    BY <2>3, <2>4, <2>6, <2>7 DEF StepRight, Goes, Learns, Steady, Over
  <2>9. QED
    BY <2>1, <2>8
<1>2. CASE ~(fresh /\ q.rep.id = q.rest.id)
  <2>1. step(q, fresh, late) = q
    BY <1>2 DEF step, Over
  <2>2. q.state # "settle"
    BY DEF Over
  <2>3. QED
    BY <2>1, <2>2, SameStep
<1>3. QED
  BY <1>1, <1>2

\* Every step of pl_tick() is one of those.
LEMMA StepOf ==
  ASSUME NEW q \in Learnings, Asking(q), q.state # "idle", NEW fresh \in BOOLEAN, NEW late \in BOOLEAN
  PROVE  StepRight(q, step(q, fresh, late), fresh, late)
<1>1. q.state \in {"select", "settle", "rest", "press", "release"} \cup Over
  BY DEF Learnings, LearnStates, Over
<1>2. QED
  BY <1>1, SelectStep, SettleStep, RestStep, PressStep, ReleaseStep, OverStep

-----------------------------------------------------------------------------
(* The actions keep the invariant.                                         *)

\* The counts of what happened have their types.
LEMMA Counted ==
  ASSUME LearnTypes, NEW what \in {"feeds", "keys", "swaps", "late", "ports"}
  PROVE  /\ Count(what) \in [feeds : Nat, keys : Nat, swaps : Nat, late : Nat, ports : Nat,
                             released : BOOLEAN, steady : BOOLEAN]
         /\ Count(what).steady = learnPast.steady
         /\ Count(what).swaps = IF what = "swaps" THEN learnPast.swaps + 1 ELSE learnPast.swaps
BY DEF LearnTypes, Count

\* core1: only the chosen pad's reports are captured.
LEMMA FeedKept == ASSUME LearnInv, capture_feed PROVE LearnInv'
<1>1. /\ LearnTypes /\ learnPast' = Count("feeds")
      /\ padAt' = padAt /\ pl' = pl /\ pads2' = pads2 /\ page' = page /\ drawn' = drawn
  BY DEF LearnInv, capture_feed
<1>2. Count("feeds") \in [feeds : Nat, keys : Nat, swaps : Nat, late : Nat, ports : Nat,
                          released : BOOLEAN, steady : BOOLEAN]
      /\ Count("feeds").steady = learnPast.steady /\ Count("feeds").swaps = learnPast.swaps
  BY <1>1, Counted
<1>3. PICK i \in LearnIndex, d \in HeldOnPad, id \in ReportIds :
        LET rep  == [pad |-> padAt[i], id |-> id, data |-> d]
            changes == hashes[i] # NoRep /\ [hashes[i] EXCEPT !.pad = "none"] # [rep EXCEPT !.pad = "none"]
            inst == IF capture.inst = 0 /\ changes THEN i ELSE capture.inst
        IN capture' = IF capture.on /\ inst = i
                      THEN [capture EXCEPT !.inst = inst, !.seq = @ + 1, !.rep = rep] ELSE capture
  BY ZenonT(60) DEF capture_feed, chosen
<1> DEFINE rep == [pad |-> padAt[i], id |-> id, data |-> d]
<1>4. rep \in Reps /\ rep.pad = padAt[i] /\ capture \in [on : BOOLEAN, inst : LearnIndex \cup {0}, seq : Nat, rep : Reps]
  BY <1>1 DEF LearnTypes, Reps, HeldData
<1> HIDE DEF rep
<1>5. capture' = capture \/ capture' = [capture EXCEPT !.inst = i, !.seq = @ + 1, !.rep = rep]
  BY <1>3 DEF rep
<1>6. capture'.on = capture.on /\ (capture' = capture \/ (capture'.inst = i /\ capture'.rep = rep /\ capture'.seq = capture.seq + 1))
  BY <1>4, <1>5
<1>7. capture' \in [on : BOOLEAN, inst : LearnIndex \cup {0}, seq : Nat, rep : Reps]
  <2>1. i \in LearnIndex \cup {0} /\ capture.seq + 1 \in Nat
    BY <1>4
  <2>2. [capture EXCEPT !.inst = i, !.seq = @ + 1, !.rep = rep]
          \in [on : BOOLEAN, inst : LearnIndex \cup {0}, seq : Nat, rep : Reps]
    BY <1>4, <2>1
  <2>3. QED
    BY <1>4, <1>5, <2>2
<1>8. LearnTypes'
  BY <1>1, <1>2, <1>7 DEF LearnTypes
<1>9. (learnPast.swaps = 0 => SamePad)'
  <2>1. SUFFICES ASSUME SamePad PROVE SamePad'
    BY <1>1, <1>2 DEF LearnInv
  <2>2. pl.mapped # {} => capture.inst \in LearnIndex
    BY <2>1 DEF SamePad
  <2>3. CASE capture' = capture
    BY <1>1, <2>1, <2>3 DEF SamePad
  <2>4. CASE capture'.inst = i /\ capture'.rep = rep /\ capture'.seq = capture.seq + 1
    <3>1. capture'.rep.pad = padAt[i] /\ capture'.seq # 0
      BY <1>4, <2>4
    <3>2. pl.mapped # {} => capture.inst = i
      BY <1>3, <2>2, <2>4, LearnAssumption, <1>4
    <3>3. QED
      BY <1>1, <2>1, <2>4, <3>1, <3>2 DEF SamePad
  <2>5. QED
    BY <1>6, <2>3, <2>4
<1>10. (Asking(pl) /\ CaptureOn /\ (learnPast.steady => OneSeen(pl.rest)) /\ ScreenInv)'
  BY <1>1, <1>2, <1>6 DEF LearnInv, CaptureOn, ScreenInv
<1>11. QED
  BY <1>8, <1>9, <1>10 DEF LearnInv

\* Another pad in a place is no claim on the rules any more.
LEMMA SwapKept == ASSUME LearnInv, Swap PROVE LearnInv'
<1>1. /\ LearnTypes /\ learnPast' = Count("swaps")
      /\ capture' = capture /\ pl' = pl /\ pads2' = pads2 /\ page' = page /\ drawn' = drawn
  BY DEF LearnInv, Swap
<1>2. /\ Count("swaps") \in [feeds : Nat, keys : Nat, swaps : Nat, late : Nat, ports : Nat,
                             released : BOOLEAN, steady : BOOLEAN]
      /\ Count("swaps").steady = learnPast.steady /\ Count("swaps").swaps = learnPast.swaps + 1
  BY <1>1, Counted
<1>3. learnPast'.swaps # 0
  BY <1>1, <1>2 DEF LearnTypes
<1>4. LearnTypes'
  BY <1>1, <1>2 DEF LearnTypes, Swap
<1>5. (Asking(pl) /\ CaptureOn /\ (learnPast.steady => OneSeen(pl.rest)) /\ ScreenInv)'
  BY <1>1, <1>2 DEF LearnInv, CaptureOn, ScreenInv
<1>6. QED
  BY <1>3, <1>4, <1>5 DEF LearnInv

\* A change of the ports is seen at the next refresh of the list.
LEMMA PortsKept == ASSUME LearnInv, PortChanges PROVE LearnInv'
<1>1. /\ LearnTypes /\ learnPast' = Count("ports")
      /\ padAt' = padAt /\ capture' = capture /\ pl' = pl /\ page' = page /\ drawn' = drawn
  BY DEF LearnInv, PortChanges
<1>2. /\ Count("ports") \in [feeds : Nat, keys : Nat, swaps : Nat, late : Nat, ports : Nat,
                             released : BOOLEAN, steady : BOOLEAN]
      /\ Count("ports").steady = learnPast.steady /\ Count("ports").swaps = learnPast.swaps
  BY <1>1, Counted
<1>3. pads2' \in PortPads
  BY DEF PortChanges, PortPads
<1>4. LearnTypes'
  BY <1>1, <1>2, <1>3 DEF LearnTypes
<1>5. (Asking(pl) /\ CaptureOn /\ (learnPast.steady => OneSeen(pl.rest)) /\ ScreenInv)'
  BY <1>1, <1>2 DEF LearnInv, CaptureOn, ScreenInv
<1>6. (learnPast.swaps = 0 => SamePad)'
  BY <1>1, <1>2 DEF LearnInv, SamePad
<1>7. QED
  BY <1>4, <1>5, <1>6 DEF LearnInv

\* The learning as a key of the screens leaves it.
Capturing == [on : BOOLEAN, inst : LearnIndex \cup {0}, seq : Nat, rep : Reps]
PlKeeps ==
  /\ pl' \in Learnings /\ capture' \in Capturing
  /\ Asking(pl') /\ CaptureOn'
  /\ OneSeen(pl.rest) => OneSeen(pl'.rest)
  /\ padAt' = padAt /\ SamePad => SamePad'

\* A key that is not for the learning leaves it.
LEMMA PlSame == ASSUME LearnInv, UNCHANGED <<pl, capture>> PROVE PlKeeps
BY DEF LearnInv, LearnTypes, Capturing, PlKeeps, CaptureOn, SamePad

\* pl_stop() ends the capture and keeps what was learned.
LEMMA PlStopped == ASSUME LearnInv, pl_stop PROVE PlKeeps
<1>1. pl \in Learnings /\ capture \in Capturing /\ Asking(pl)
  BY DEF LearnInv, LearnTypes, Capturing
<1>2. pl' = [pl EXCEPT !.state = "idle"] /\ capture' = [capture EXCEPT !.on = FALSE]
  BY DEF pl_stop
<1>3. /\ pl' \in Learnings /\ pl'.state = "idle" /\ pl'.rest = pl.rest /\ pl'.mapped = pl.mapped
      /\ pl'.rules = pl.rules /\ pl'.rep = pl.rep
  BY <1>1, <1>2 DEF Learnings, LearnStates
<1>4. /\ capture' \in Capturing /\ ~capture'.on /\ capture'.inst = capture.inst
      /\ capture'.seq = capture.seq /\ capture'.rep = capture.rep
  BY <1>1, <1>2 DEF Capturing
<1>5. Asking(pl')
  BY <1>1, <1>3 DEF Asking
<1>6. padAt' = padAt /\ SamePad => SamePad'
  BY <1>3, <1>4 DEF SamePad
<1>7. QED
  BY <1>3, <1>4, <1>5, <1>6 DEF PlKeeps, CaptureOn

\* pl_start() captures from the start and forgets what was learned.
LEMMA PlStarted == ASSUME LearnInv, pl' = pl_start, hid_capture_start PROVE PlKeeps
<1>1. pl \in Learnings /\ capture \in Capturing
  BY DEF LearnInv, LearnTypes, Capturing
<1>2. capture' = [capture EXCEPT !.on = TRUE, !.inst = 0, !.seq = 0]
  BY DEF hid_capture_start
<1>3. 0 \in 0 .. LearnButtons /\ NoRest \in Rests /\ "select" \in LearnStates /\ "none" \in HeldData
  BY LearnAssumption DEF NoRest, Rests, LearnStates, HeldData
<1>4. pl_start \in Learnings
  BY <1>1, <1>3 DEF pl_start, Learnings
<1>5. pl'.state = "select" /\ pl'.rest = NoRest /\ pl'.mapped = {}
  BY <1>1 DEF pl_start, Learnings
<1>6. capture' \in Capturing /\ capture'.on /\ capture'.seq = 0
  BY <1>1, <1>2 DEF Capturing
<1>7. Asking(pl') /\ OneSeen(pl'.rest)
  BY <1>5 DEF Asking, OneSeen, NoRest
<1>8. SamePad'
  BY <1>5, <1>6 DEF SamePad
<1>9. QED
  BY <1>4, <1>5, <1>6, <1>7, <1>8 DEF PlKeeps, CaptureOn

\* Skip, back and save keep the pad and the rest.
LEMMA PlKeyed ==
  ASSUME LearnInv, NEW ok \in BOOLEAN, pl' \in {pl_skip(pl), pl_back(pl), pl_save(pl, ok)},
         UNCHANGED capture
  PROVE  PlKeeps
<1>1. pl \in Learnings /\ capture \in Capturing /\ Asking(pl) /\ CaptureOn
  BY DEF LearnInv, LearnTypes, Capturing
<1>2. Goes(pl, pl') /\ SameRules(pl, pl')
  BY <1>1, KeysOf
<1>3. padAt' = padAt /\ SamePad => SamePad'
  BY <1>2 DEF Goes, SameRules, SamePad
<1>4. QED
  BY <1>1, <1>2, <1>3 DEF PlKeeps, Goes, SameRules, CaptureOn

PastTypes == [feeds : Nat, keys : Nat, swaps : Nat, late : Nat, ports : Nat,
              released : BOOLEAN, steady : BOOLEAN]
PageOk(g) == g \in Pages /\ (g.view = "test" => g.kind = "graphic") /\ ForgetShown(g)

\* A key that draws the screen keeps the invariant if its page is one.
LEMMA DrawnKept ==
  ASSUME LearnInv, PlKeeps, UNCHANGED <<padAt, pads2>>, PageOk(page'), drawn' = Content(page', pl'),
         learnPast' \in PastTypes, learnPast'.steady = learnPast.steady, learnPast'.swaps = learnPast.swaps
  PROVE  LearnInv'
<1>1. LearnTypes'
  BY DEF LearnInv, LearnTypes, PlKeeps, Capturing, PageOk, PastTypes
<1>2. ScreenInv'
  BY DEF ScreenInv, PageOk
<1>3. QED
  BY <1>1, <1>2 DEF LearnInv, PlKeeps

\* A key changes none of the history but its count.
LEMMA KeyCounted ==
  ASSUME LearnInv, learnPast' = Count("keys")
  PROVE  learnPast' \in PastTypes /\ learnPast'.steady = learnPast.steady /\ learnPast'.swaps = learnPast.swaps
BY Counted DEF LearnInv, PastTypes

\* The page as the invariant has it.
LEMMA PageIsOk == ASSUME LearnInv PROVE PageOk(page) /\ pads2 \in PortPads
BY DEF LearnInv, LearnTypes, ScreenInv, PageOk

\* The list is shown from its first button on.
LEMMA ListOf ==
  ASSUME NEW g \in Pages, pads2 \in PortPads
  PROVE  /\ show_list(g) \in Pages /\ show_list(g).view = "list" /\ show_list(g).btn = 0
         /\ show_list(g).kind = g.kind /\ PageOk(show_list(g))
<1>1. /\ show_list(g) \in Pages /\ show_list(g).view = "list" /\ show_list(g).btn = 0
      /\ show_list(g).kind = g.kind
  <2>1. 0 \in 0 .. 2 /\ "list" \in {"idle", "list", "test", "mapping"}
    OBVIOUS
  <2>2. show_list(g) \in Pages
    BY <2>1 DEF show_list, Pages
  <2>3. QED
    BY <2>2 DEF show_list, Pages
<1>2. ForgetButton(show_list(g)) # 0
  BY DEF ForgetButton
<1>3. QED
  BY <1>1, <1>2 DEF PageOk, ForgetShown

\* Forget is the last button of the list, if it is there.
LEMMA FitOf ==
  ASSUME NEW g \in Pages, g.view = "test" => g.kind = "graphic"
  PROVE  PageOk(Fit(g)) /\ Fit(g).view = g.view
<1>1. g.btn \in 0 .. 2 /\ ForgetButton(g) \in {1, 2}
  BY DEF Pages, ForgetButton
<1>2. CASE g.btn >= list_btns(g)
  <2>1. /\ Fit(g) \in Pages /\ Fit(g).btn = 0 /\ Fit(g).view = g.view /\ Fit(g).kind = g.kind
    BY <1>2 DEF Fit, Pages
  <2>2. ForgetButton(Fit(g)) # 0
    BY DEF ForgetButton
  <2>3. QED
    BY <2>1, <2>2 DEF PageOk, ForgetShown
<1>3. CASE ~(g.btn >= list_btns(g))
  <2>1. g.btn = ForgetButton(g) => can_forget(g)
    BY <1>1, <1>3 DEF list_btns
  <2>2. QED
    BY <1>3, <2>1 DEF Fit, PageOk, ForgetShown
<1>4. QED
  BY <1>2, <1>3

\* The screen opens on the list.
LEMMA OpenKept == ASSUME LearnInv, Open PROVE LearnInv'
<1>1. /\ learnPast' = Count("keys") /\ UNCHANGED <<padAt, pads2>> /\ pl_stop
      /\ drawn' = Content(page', pl') /\ page' = [show_list(page) EXCEPT !.port = 1, !.msg = "none"]
  BY DEF Open, LearnKey, Draw
<1> DEFINE g == show_list(page)
<1>2. g \in Pages /\ g.view = "list" /\ g.btn = 0
  BY PageIsOk, ListOf DEF PageOk
<1>3. page' = [g EXCEPT !.port = 1, !.msg = "none"]
  BY <1>1
<1> HIDE DEF g
<1>4. page' \in Pages /\ page'.view = "list" /\ page'.btn = 0
  <2>1. 1 \in 1 .. 2
    OBVIOUS
  <2>2. QED
    BY <1>2, <1>3, <2>1 DEF Pages
<1>5. ForgetButton(page') # 0
  BY DEF ForgetButton
<1>6. PageOk(page')
  BY <1>4, <1>5 DEF PageOk, ForgetShown
<1>7. PlKeeps
  BY <1>1, PlStopped
<1>8. QED
  BY <1>1, <1>6, <1>7, KeyCounted, DrawnKept

\* A page that is left shows nothing.
LEMMA LeaveKept == ASSUME LearnInv, Leave PROVE LearnInv'
<1>1. /\ learnPast' = Count("keys") /\ UNCHANGED <<padAt, pads2>> /\ UNCHANGED <<pl, capture>>
      /\ drawn' = {} /\ page' = [page EXCEPT !.view = "idle"]
  BY DEF Leave, LearnKey
<1>2. page' \in Pages /\ page'.view = "idle"
  BY <1>1, PageIsOk DEF PageOk, Pages
<1>3. PageOk(page')
  BY <1>2 DEF PageOk, ForgetShown
<1>4. Content(page', pl') = {}
  BY <1>2 DEF Content
<1>5. PlKeeps
  BY <1>1, PlSame
<1>6. QED
  BY <1>1, <1>3, <1>4, <1>5, KeyCounted, DrawnKept

\* The keys of the list: the other port, the next button, the learning, the test.
LEMMA ListKeyKept == ASSUME LearnInv, ListKey PROVE LearnInv'
<1>1. /\ learnPast' = Count("keys") /\ UNCHANGED <<padAt, pads2>> /\ page.view = "list"
      /\ drawn' = Content(page', pl')
  BY DEF ListKey, LearnKey, Draw
<1>2. page \in Pages /\ page.btn \in 0 .. 2 /\ list_btns(page) \in 1 .. 3
  BY PageIsOk DEF PageOk, Pages, list_btns, ForgetButton
<1>3. PageOk(page') /\ PlKeeps
  <2>1. CASE page' = Fit([page EXCEPT !.port = 3 - @, !.msg = "none"]) /\ UNCHANGED <<capture, hashes, pl>>
    <3> DEFINE g == [page EXCEPT !.port = 3 - @, !.msg = "none"]
    <3>1. page.port \in 1 .. 2 /\ 3 - page.port \in 1 .. 2
      BY <1>2 DEF Pages
    <3>2. g \in Pages /\ g.view = "list"
      BY <1>1, <1>2, <3>1 DEF Pages
    <3> HIDE DEF g
    <3>3. PageOk(Fit(g))
      BY <3>2, FitOf
    <3>4. QED
      BY <2>1, <3>3, PlSame DEF g
  <2>2. CASE page' = [page EXCEPT !.btn = (@ + 1) % list_btns(page)] /\ UNCHANGED <<capture, hashes, pl>>
    <3> DEFINE n == (page.btn + 1) % list_btns(page)
    <3>1. n \in 0 .. 2 /\ n < list_btns(page)
      BY <1>2
    <3> HIDE DEF n
    <3>2. page' = [page EXCEPT !.btn = n]
      BY <2>2 DEF n
    <3>3. /\ page' \in Pages /\ page'.view = "list" /\ page'.btn = n /\ page'.kind = page.kind
          /\ page'.pads = page.pads /\ page'.port = page.port
      BY <1>1, <1>2, <3>1, <3>2 DEF Pages
    <3>4. list_btns(page') = list_btns(page)
      BY <3>3 DEF list_btns, can_forget, ForgetButton
    <3>5. page'.btn = ForgetButton(page') => can_forget(page')
      BY <3>1, <3>3, <3>4 DEF list_btns, ForgetButton
    <3>6. QED
      BY <2>2, <3>3, <3>5, PlSame DEF PageOk, ForgetShown
  <2>3. CASE page' = [page EXCEPT !.view = "mapping", !.msg = "none"] /\ pl' = pl_start /\ hid_capture_start
    <3>1. page' \in Pages /\ page'.view = "mapping"
      BY <1>2, <2>3 DEF Pages
    <3>2. QED
      BY <2>3, <3>1, PlStarted DEF PageOk, ForgetShown
  <2>4. CASE /\ page.kind = "graphic" /\ page' = [page EXCEPT !.view = "test", !.msg = "none", !.joy = "none"]
             /\ UNCHANGED <<capture, hashes, pl>>
    <3>1. page' \in Pages /\ page'.view = "test" /\ page'.kind = "graphic"
      BY <1>2, <2>4 DEF Pages
    <3>2. QED
      BY <2>4, <3>1, PlSame DEF PageOk, ForgetShown
  <2>5. QED
    BY <2>1, <2>2, <2>3, <2>4 DEF ListKey
<1>4. QED
  BY <1>1, <1>3, KeyCounted, DrawnKept

\* The driver of a pad is forgotten, or the renaming failed; Assign is selected.
LEMMA ForgetKept == ASSUME LearnInv, forget PROVE LearnInv'
<1>1. /\ learnPast' = Count("keys") /\ UNCHANGED <<padAt, pads2>> /\ UNCHANGED <<pl, capture>>
      /\ drawn' = Content(page', pl') /\ page.view = "list"
  BY DEF forget, LearnKey, Draw
<1>2. page \in Pages /\ page.port \in 1 .. 2 /\ pads2 \in PortPads
  BY PageIsOk DEF PageOk, Pages
<1>3. PICK ok \in BOOLEAN :
        page' = [page EXCEPT !.btn = 0, !.msg = IF ok THEN "ok" ELSE "failed",
                             !.pads = IF ok /\ pads2[page.port] = "driver" THEN [pads2 EXCEPT ![page.port] = "default"] ELSE pads2]
  BY DEF forget
<1> DEFINE after == IF ok /\ pads2[page.port] = "driver" THEN [pads2 EXCEPT ![page.port] = "default"] ELSE pads2
           msg == IF ok THEN "ok" ELSE "failed"
<1>4. after \in PortPads /\ msg \in {"none", "ok", "failed"}
  BY <1>2 DEF PortPads
<1>5. page' = [page EXCEPT !.btn = 0, !.msg = msg, !.pads = after]
  BY <1>3
<1> HIDE DEF after, msg
<1>6. page' \in Pages /\ page'.view = "list" /\ page'.btn = 0
  <2>1. 0 \in 0 .. 2
    OBVIOUS
  <2>2. QED
    BY <1>1, <1>2, <1>4, <1>5, <2>1 DEF Pages
<1>7. ForgetButton(page') # 0
  BY DEF ForgetButton
<1>8. PageOk(page')
  BY <1>6, <1>7 DEF PageOk, ForgetShown
<1>9. QED
  BY <1>1, <1>8, PlSame, KeyCounted, DrawnKept

\* The keys of the learning, and its end.
LEMMA MapKeyKept == ASSUME LearnInv, MapKey PROVE LearnInv'
<1>1. UNCHANGED <<padAt, pads2>> /\ drawn' = Content(page', pl')
  BY DEF MapKey, LearnKey, Draw
<1>2. PageOk(page) /\ page \in Pages /\ pads2 \in PortPads
  BY PageIsOk DEF PageOk
<1>3. CASE \E q \in {pl_skip(pl), pl_back(pl), pl_save(pl, TRUE), pl_save(pl, FALSE)} :
             /\ pl' = q /\ UNCHANGED <<capture, hashes, page>>
             /\ learnPast' = [Count("keys") EXCEPT !.released = @ /\ ~(pl.state = "release" /\ q # pl)]
  <2>1. PlKeeps /\ page' = page
    BY <1>3, PlKeyed
  <2>2. PICK b \in BOOLEAN : learnPast' = [Count("keys") EXCEPT !.released = b]
    <3>1. Count("keys") \in PastTypes
      BY Counted DEF LearnInv, PastTypes
    <3>2. PICK q : learnPast' = [Count("keys") EXCEPT !.released = @ /\ ~(pl.state = "release" /\ q # pl)]
      BY <1>3
    <3>3. (Count("keys").released /\ ~(pl.state = "release" /\ q # pl)) \in BOOLEAN
      OBVIOUS
    <3>4. QED
      BY <3>2, <3>3
  <2>3. learnPast' \in PastTypes /\ learnPast'.steady = learnPast.steady /\ learnPast'.swaps = learnPast.swaps
    <3>1. Count("keys") \in PastTypes /\ Count("keys").steady = learnPast.steady /\ Count("keys").swaps = learnPast.swaps
      BY Counted DEF LearnInv, PastTypes
    <3>2. QED
      BY <2>2, <3>1 DEF PastTypes
  <2>4. QED
    BY <1>1, <1>2, <2>1, <2>3, DrawnKept
<1>4. CASE page' = show_list(page) /\ pl_stop /\ learnPast' = Count("keys")
  <2>1. PageOk(page')
    BY <1>2, <1>4, ListOf
  <2>2. QED
    BY <1>1, <1>4, <2>1, PlStopped, KeyCounted, DrawnKept
<1>5. QED
  BY <1>3, <1>4 DEF MapKey

\* The test ends on the list.
LEMMA EndTestKept == ASSUME LearnInv, EndTest PROVE LearnInv'
<1>1. /\ learnPast' = Count("keys") /\ UNCHANGED <<padAt, pads2>> /\ pl_stop /\ page.view = "test"
      /\ drawn' = Content(page', pl')
  BY DEF EndTest, LearnKey, Draw
<1>2. page \in Pages /\ page.kind = "graphic" /\ pads2 \in PortPads
  BY <1>1, PageIsOk DEF PageOk
<1> DEFINE g == show_list(page)
<1>3. g \in Pages /\ g.view = "list" /\ g.kind = "graphic" /\ PageOk(g)
  BY <1>2, ListOf
<1> HIDE DEF g
<1>4. PageOk(page')
  <2>1. CASE page' = g
    BY <1>3, <2>1
  <2>2. CASE page' = [g EXCEPT !.btn = 1]
    <3>1. 1 \in 0 .. 2
      OBVIOUS
    <3>2. page' \in Pages /\ page'.view = "list" /\ page'.btn = 1 /\ page'.kind = "graphic"
      BY <1>3, <2>2, <3>1 DEF Pages
    <3>3. ForgetButton(page') = 2
      BY <3>2 DEF ForgetButton
    <3>4. QED
      BY <3>2, <3>3 DEF PageOk, ForgetShown
  <2>3. QED
    BY <2>1, <2>2 DEF EndTest, g
<1>5. QED
  BY <1>1, <1>4, PlStopped, KeyCounted, DrawnKept

\* The list takes the pads there are, a button that is gone gives way.
LEMMA RefreshKept == ASSUME LearnInv, RefreshPads PROVE LearnInv'
<1>1. /\ page.view \in {"list", "test"} /\ page' = Fit([page EXCEPT !.pads = pads2])
      /\ drawn' = Content(page', pl')
      /\ UNCHANGED <<padAt, pads2>> /\ UNCHANGED <<pl, capture>> /\ learnPast' = learnPast
  BY DEF RefreshPads, redrawn, Draw
<1>2. page \in Pages /\ (page.view = "test" => page.kind = "graphic") /\ pads2 \in PortPads
  BY PageIsOk DEF PageOk
<1> DEFINE g == [page EXCEPT !.pads = pads2]
<1>3. g \in Pages /\ (g.view = "test" => g.kind = "graphic")
  BY <1>2 DEF Pages
<1> HIDE DEF g
<1>4. PageOk(page')
  BY <1>1, <1>3, FitOf DEF g
<1>5. learnPast' \in PastTypes
  BY <1>1 DEF LearnInv, LearnTypes, PastTypes
<1>6. QED
  BY <1>1, <1>4, <1>5, PlSame, DrawnKept

\* The test shows what is held.
LEMMA JoyTickKept == ASSUME LearnInv, JoyTick PROVE LearnInv'
<1>1. /\ page.view = "test" /\ drawn' = Content(page', pl') /\ learnPast' = Count("keys")
      /\ UNCHANGED <<padAt, pads2>> /\ UNCHANGED <<pl, capture>>
  BY DEF JoyTick, Draw
<1>2. PICK j \in {"none", "exit"} : page' = [page EXCEPT !.joy = j]
  BY DEF JoyTick
<1>3. page \in Pages /\ page.kind = "graphic"
  BY <1>1, PageIsOk DEF PageOk
<1>4. page' \in Pages /\ page'.view = "test" /\ page'.kind = "graphic"
  BY <1>1, <1>2, <1>3 DEF Pages
<1>5. PageOk(page')
  BY <1>4 DEF PageOk, ForgetShown
<1>6. QED
  BY <1>1, <1>5, PlSame, KeyCounted, DrawnKept

\* A turn of APP: the latest report, the step, the screen if something changed.
LEMMA LearnTickKept == ASSUME LearnInv, pl_tick PROVE LearnInv'
<1>1. /\ page.view = "mapping" /\ pl.state # "idle"
      /\ padAt' = padAt /\ capture' = capture /\ pads2' = pads2 /\ page' = page
  BY DEF pl_tick
<1> DEFINE fresh == capture.seq # 0 /\ capture.seq # pl.last_seq
           q     == [pl EXCEPT !.rep = IF capture.seq # 0 THEN capture.rep ELSE @,
                               !.last_seq = IF fresh THEN capture.seq ELSE @]
<1>2. PICK late \in BOOLEAN :
        LET r == step(q, fresh, late)
        IN /\ pl' = [r EXCEPT !.changed = FALSE]
           /\ drawn' = IF r.changed THEN Content(page, r) ELSE drawn
           /\ learnPast' = [learnPast EXCEPT !.late = IF late THEN @ + 1 ELSE @,
                !.released = IF pl.state = "release" THEN TRUE ELSE @,
                !.steady = IF pl.state = "settle" THEN TRUE
                           ELSE @ /\ ~(pl.state = "rest" /\ late /\ pressed_in(pl.rest, q.rep))]
  BY DEF pl_tick
<1> DEFINE r == step(q, fresh, late)
<1>3. /\ pl \in Learnings /\ Asking(pl) /\ CaptureOn /\ LearnTypes
      /\ capture.seq \in Nat /\ capture.rep \in Reps
  BY DEF LearnInv, LearnTypes
<1>4. q \in Learnings
  BY <1>3 DEF Learnings
<1>5. /\ q.rep = (IF capture.seq # 0 THEN capture.rep ELSE pl.rep) /\ q.state = pl.state /\ q.btn = pl.btn
      /\ q.rest = pl.rest /\ q.mapped = pl.mapped /\ q.rules = pl.rules /\ q.live = pl.live
      /\ q.changed = pl.changed
  BY <1>3 DEF Learnings
<1>6. fresh \in BOOLEAN /\ (fresh => capture.seq # 0)
  OBVIOUS
<1> HIDE DEF q, fresh
<1>7. Asking(q)
  BY <1>3, <1>5 DEF Asking
<1>8. StepRight(q, r, fresh, late)
  BY <1>1, <1>4, <1>5, <1>6, <1>7, StepOf
<1>9. /\ pl' = [r EXCEPT !.changed = FALSE]
      /\ drawn' = IF r.changed THEN Content(page, r) ELSE drawn
  BY <1>2
<1> HIDE DEF r
<1>10. r \in Learnings /\ Asking(r) /\ r.state # "idle" /\ r.rep = q.rep
  BY <1>1, <1>5, <1>8 DEF StepRight, Goes
<1>11. /\ pl' \in Learnings /\ pl'.state = r.state /\ pl'.btn = r.btn /\ pl'.rep = r.rep /\ pl'.rest = r.rest
       /\ pl'.mapped = r.mapped /\ pl'.rules = r.rules /\ pl'.live = r.live /\ ~pl'.changed
  BY <1>9, <1>10 DEF Learnings
<1>12. Asking(pl') /\ CaptureOn'
  BY <1>1, <1>3, <1>10, <1>11 DEF Asking, CaptureOn
<1>13. /\ learnPast' \in PastTypes /\ learnPast'.swaps = learnPast.swaps
       /\ learnPast'.steady => (pl.state = "settle" \/ (learnPast.steady /\ ~(pl.state = "rest" /\ late /\ pressed_in(pl.rest, q.rep))))
  <2> DEFINE n == IF late THEN learnPast.late + 1 ELSE learnPast.late
             a == IF pl.state = "release" THEN TRUE ELSE learnPast.released
             b == IF pl.state = "settle" THEN TRUE
                  ELSE learnPast.steady /\ ~(pl.state = "rest" /\ late /\ pressed_in(pl.rest, q.rep))
  <2>1. learnPast \in PastTypes
    BY <1>3 DEF LearnTypes, PastTypes
  <2>2. n \in Nat /\ a \in BOOLEAN /\ b \in BOOLEAN
    <3>1. learnPast.late \in Nat /\ learnPast.released \in BOOLEAN /\ learnPast.steady \in BOOLEAN
      BY <2>1 DEF PastTypes
    <3>2. n \in Nat
      BY <3>1
    <3>3. a \in BOOLEAN /\ b \in BOOLEAN
      BY <3>1, Zenon
    <3>4. QED
      BY <3>2, <3>3
  <2>3. b => (pl.state = "settle" \/ (learnPast.steady /\ ~(pl.state = "rest" /\ late /\ pressed_in(pl.rest, q.rep))))
    BY <2>1 DEF PastTypes
  <2>4. learnPast' = [learnPast EXCEPT !.late = n, !.released = a, !.steady = b]
    BY <1>2
  <2> HIDE DEF n, a, b
  <2>5. learnPast' \in PastTypes /\ learnPast'.swaps = learnPast.swaps /\ learnPast'.steady = b
    BY <2>1, <2>2, <2>4 DEF PastTypes
  <2>6. QED
    BY <2>3, <2>5
<1>14. (learnPast.steady => OneSeen(pl.rest))'
  <2>1. Steady(q, r, late) /\ (learnPast.steady => OneSeen(pl.rest))
    BY <1>8 DEF StepRight, LearnInv
  <2>2. QED
    BY <1>5, <1>11, <1>13, <2>1 DEF Steady
<1>15. (learnPast.swaps = 0 => SamePad)'
  <2>1. SUFFICES ASSUME SamePad PROVE SamePad'
    BY <1>13 DEF LearnInv
  <2>2. capture.seq # 0 => q.rep.pad = padAt[capture.inst]
    BY <1>5, <2>1 DEF SamePad
  <2>3. pl.mapped # {} => capture.seq # 0 /\ \A b \in pl.mapped : pl.rules[b].pad = padAt[capture.inst]
    BY <2>1 DEF SamePad
  <2>4. CASE r.mapped \subseteq q.mapped /\ r.rules = q.rules
    BY <1>1, <1>5, <1>10, <1>11, <2>1, <2>2, <2>3, <2>4 DEF SamePad
  <2>5. CASE fresh /\ r.mapped = q.mapped \cup {q.btn} /\ r.rules = [q.rules EXCEPT ![q.btn] = q.rep]
    <3>1. q.rules \in [Asked -> Reps]
      BY <1>4 DEF Learnings
    <3>2. \A b \in r.mapped : b \in Asked
      BY <1>10 DEF Learnings
    <3>3. \A b \in r.mapped : r.rules[b].pad = q.rep.pad
      BY <1>5, <1>6, <2>2, <2>3, <2>5, <3>1, <3>2
    <3>4. QED
      BY <1>1, <1>6, <1>10, <1>11, <2>1, <2>2, <2>5, <3>3 DEF SamePad
  <2>6. QED
    BY <1>8, <2>4, <2>5 DEF StepRight, Learns
<1>16. ScreenInv'
  <2>1. SameShown(r, pl') \/ r.changed
    BY <1>11, <1>10 DEF SameShown, Learnings
  <2>2. Content(page, pl') = Content(page, r)
    <3> DEFINE s == [r EXCEPT !.changed = FALSE]
    <3>1. StepContent(s) = StepContent(r) /\ s.live = r.live /\ s.state = r.state
      BY <1>10 DEF StepContent, Learnings
    <3>2. PadContent(s) = PadContent(r)
      BY <3>1 DEF PadContent
    <3>3. pl' = s
      BY <1>9
    <3> HIDE DEF s
    <3>4. QED
      BY <3>1, <3>2, <3>3 DEF Content
  <2>3. CASE r.changed
    BY <1>1, <1>9, <2>2, <2>3 DEF LearnInv, ScreenInv
  <2>4. CASE ~r.changed
    <3>1. SameShown(q, r)
      BY <1>8, <2>4 DEF StepRight, Draws
    <3>2. SameShown(pl, r)
      BY <1>5, <3>1 DEF SameShown
    <3>3. Content(page, r) = Content(page, pl)
      BY <3>2, ShownOf
    <3>4. ~pl.changed
      BY <2>4, <3>2 DEF SameShown
    <3>5. QED
      BY <1>1, <1>9, <2>2, <2>4, <3>3, <3>4 DEF LearnInv, ScreenInv
  <2>5. QED
    BY <2>3, <2>4
<1>17. LearnTypes'
  BY <1>1, <1>3, <1>11, <1>13 DEF LearnTypes, PastTypes
<1>18. QED
  BY <1>12, <1>14, <1>15, <1>16, <1>17 DEF LearnInv

\* The learning of a pad keeps to one pad and one rest, whatever the reports, the
\* keys and the ports do, and its two screens show it.
THEOREM LearnInvariant == LearnSpec => []LearnInv
<1>1. LearnInit => LearnInv
  <2> SUFFICES ASSUME LearnInit PROVE LearnInv
    OBVIOUS
  <2>1. 0 \in 0 .. LearnButtons /\ NoRep \in Reps /\ NoRest \in Rests /\ "none" \in HeldData
        /\ "idle" \in LearnStates /\ {} \in SUBSET Asked
    BY LearnAssumption DEF NoRep, Reps, NoRest, Rests, HeldData, LearnStates
  <2>2. [b \in Asked |-> NoRep] \in [Asked -> Reps]
    BY <2>1
  <2>3. pl \in Learnings /\ pl.state = "idle" /\ pl.mapped = {} /\ pl.rest = NoRest
    BY <2>1, <2>2 DEF LearnInit, Learnings
  <2>4. padAt \in [LearnIndex -> LearnPads]
    BY DEF LearnInit
  <2>5. capture \in [on : BOOLEAN, inst : LearnIndex \cup {0}, seq : Nat, rep : Reps]
        /\ ~capture.on /\ capture.seq = 0
    BY <2>1 DEF LearnInit
  <2>6. pads2 \in PortPads
    BY DEF LearnInit, PortPads
  <2>7. page \in Pages /\ page.view = "idle"
    BY <2>6 DEF LearnInit, Pages
  <2>8. learnPast \in [feeds : Nat, keys : Nat, swaps : Nat, late : Nat, ports : Nat,
                       released : BOOLEAN, steady : BOOLEAN]
    BY DEF LearnInit
  <2>9. LearnTypes
    BY <2>3, <2>4, <2>5, <2>6, <2>7, <2>8 DEF LearnTypes
  <2>10. Asking(pl) /\ OneSeen(pl.rest) /\ CaptureOn /\ SamePad
    BY <2>3, <2>5 DEF Asking, OneSeen, NoRest, CaptureOn, SamePad
  <2>11. ScreenInv
    BY <2>7 DEF LearnInit, ScreenInv, ForgetShown, Content
  <2>12. QED
    BY <2>9, <2>10, <2>11 DEF LearnInv
<1>2. LearnInv /\ [LearnNext]_learnVars => LearnInv'
  <2> SUFFICES ASSUME LearnInv, [LearnNext]_learnVars PROVE LearnInv'
    OBVIOUS
  <2>1. CASE UNCHANGED learnVars
    BY <2>1 DEF learnVars, LearnInv, LearnTypes, CaptureOn, SamePad, ScreenInv
  <2>2. CASE LearnNext
    BY <2>2, FeedKept, SwapKept, PortsKept, OpenKept, LeaveKept, ListKeyKept, ForgetKept, MapKeyKept,
       EndTestKept, RefreshKept, JoyTickKept, LearnTickKept DEF LearnNext
  <2>3. QED
    BY <2>1, <2>2
<1>3. QED
  BY <1>1, <1>2, PTL DEF LearnSpec

\* What is learned comes from one pad and one rest, the reports are captured while
\* it is learned, and the screen shows what there is.
THEOREM LearnIsRight == LearnSpec => []LearnRight
<1>1. LearnInv => LearnRight
  <2> SUFFICES ASSUME LearnInv PROVE LearnRight
    OBVIOUS
  <2>1. OnePad /\ RulesPress /\ CaptureOn /\ ScreenRight
    BY DEF LearnInv, SamePad, Asking, ScreenInv, ForgetShown, OnePad, RulesPress, ScreenRight
  <2>2. RestSteady
    <3>1. OneSeen(pl.rest) => Cardinality(pl.rest.seen) <= 1
      <4>1. Cardinality({}) = 0 /\ \A d : Cardinality({d}) = 1
        BY FS_EmptySet, FS_Singleton
      <4>2. QED
        BY <4>1, SMTT(30) DEF OneSeen
    <3>2. QED
      BY <3>1 DEF LearnInv, RestSteady
  <2>3. QED
    BY <2>1, <2>2 DEF LearnRight
<1>2. QED
  BY <1>1, LearnInvariant, PTL
=============================================================================
