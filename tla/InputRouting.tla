---------------------------- MODULE InputRouting ----------------------------
(***************************************************************************)
(* The way of a key: the USB task (core1) takes a report, shares it and    *)
(* queues its bytes; INPUT (core0, above APP) sends them to the core and   *)
(* hands every press to APP, which looks at the shared report; for a       *)
(* hotkey INPUT waits until APP has looked, at most 500 ms.  APP opens and *)
(* hides the OSD, which stops the bytes.  The joysticks go the short way.  *)
(* A report is its modifier and its first key; the other five keys are     *)
(* sent as the modifier is.                                                *)
(*                                                                         *)
(* Below it the on-board buttons: APP reads each in every turn, takes a    *)
(* change that lasts for the debounce time, and runs the press or the hold *)
(* action that the core file gives it; a press "core" goes to the core     *)
(* with its release.  One button is modelled: they share nothing.          *)
(***************************************************************************)
EXTENDS Integers, Sequences

CONSTANTS
  KeyReports,   \* the reports a keyboard makes, [mod, key]
  JoyStates,    \* "none", "button", "hotkey" (start + c)
  EventQueue,   \* SPI_EVENT_QUEUE_SIZE
  MaxReports,   \* bound: reports of the keyboard
  MaxJoy,       \* bound: changes of the joysticks
  MaxLoads,     \* bound: core loads
  MaxInputs     \* bound: the three together

ASSUME InputAssumption == KeyReports \subseteq [mod : STRING, key : STRING] /\ EventQueue \in Nat

Up == [mod |-> "none", key |-> "none"]  \* nothing is held

VARIABLES
  held,      \* kbd_report_shared, and prev_report of process_kbd_report()
  out,       \* the packets of it that core1 has not queued yet
  queue,     \* spi_event_queue
  joy,       \* the joysticks, board and USB
  input,     \* INPUT: [at, pkt, target, hot, why]
  joyL,      \* the joysticks as INPUT has polled them
  ui,        \* [posted, done]: ui_posted, ui_done
  app,       \* APP: [at, target]
  report,    \* usb_keyboard_report, APP's copy
  osd,       \* [open, hiding, esc_held]: is_osd, is_osd_hiding, esc_held
  coreHas,   \* what the core was sent: [mod, key, joy]
  loads,     \* core loads so far
  skipped,   \* history: the bytes that INPUT last dropped for the OSD
  unqueued,  \* history: the bytes that the queue or a core load last lost
  past       \* history: [looked, saw, letGo, turns, presses, reports, joys]

routeVars == <<held, out, queue, joy, input, joyL, ui, app, report, osd, coreHas, loads,
               skipped, unqueued, past>>
usb  == <<held, out, joy>>
apps == <<app, report, osd>>

-----------------------------------------------------------------------------
\* hotkey_find(): menu + esc and its joystick form open and close the OSD, "sw"
\* is the hotkey of a switch, "file" that of a file item.
hotkey_find(r, j) ==
  IF (r.mod = "menu" /\ r.key = "esc") \/ j = "hotkey" THEN "toggle"
  ELSE IF r.key \in {"sw", "file"} THEN r.key ELSE "none"
nav_esc(r, j) == r.key = "esc" \/ (r.key = "none" /\ j = "hotkey")

InputIdle == [at |-> "idle", pkt |-> [addr |-> "mod", data |-> "none"], target |-> 0,
              hot |-> "none", why |-> "none"]

RouteInit ==
  /\ held = Up /\ out = <<>> /\ queue = <<>> /\ joy = "none" /\ input = InputIdle
  /\ joyL = "none" /\ ui = [posted |-> 0, done |-> 0] /\ app = [at |-> "loop", target |-> 0]
  /\ report = Up /\ osd = [open |-> FALSE, hiding |-> FALSE, esc_held |-> FALSE]
  /\ coreHas = [mod |-> "none", key |-> "none", joy |-> "none"] /\ loads = 0
  /\ skipped = {} /\ unqueued = {}
  /\ past = [looked |-> 0, saw |-> "none", letGo |-> FALSE, turns |-> 0, presses |-> 0,
             reports |-> 0, joys |-> 0]

-----------------------------------------------------------------------------
(* core1.                                                                  *)

MoreInputs == past.reports + past.joys + loads < MaxInputs

\* A report that differs is shared, then queued byte by byte.
\* Mutant: a release makes no difference.
differs_pressed(r) == r.mod # held.mod \/ (r.key # held.key /\ r.key # "none")
differs(r) == r # held

process_kbd_report ==
  /\ out = <<>> /\ past.reports < MaxReports /\ MoreInputs
  /\ \E r \in KeyReports :
       /\ r # held
       /\ IF differs(r)
          THEN /\ held' = r
               /\ out' = <<[addr |-> "mod", data |-> r.mod], [addr |-> "key", data |-> r.key]>>
          ELSE held' = r /\ out' = <<>>
       /\ past' = [past EXCEPT !.reports = @ + 1, !.letGo = @ \/ ~nav_esc(r, joyL),
                     !.presses = @ + (IF r.key = "sw" /\ held.key # "sw" THEN 1 ELSE 0)]
  /\ UNCHANGED <<queue, joy, input, joyL, ui, apps, coreHas, loads, skipped, unqueued>>

\* spi_queue(): a full queue drops the packet.
spi_queue ==
  /\ out # <<>> /\ out' = Tail(out)
  /\ IF Len(queue) < EventQueue
     THEN queue' = Append(queue, Head(out)) /\ unqueued' = unqueued \ {Head(out).addr}
     ELSE UNCHANGED queue /\ unqueued' = unqueued \cup {Head(out).addr}
  /\ UNCHANGED <<held, joy, input, joyL, ui, apps, coreHas, loads, skipped, past>>

\* The buttons of a joystick.
JoyMoves ==
  /\ past.joys < MaxJoy /\ MoreInputs /\ past' = [past EXCEPT !.joys = @ + 1] /\ joy' \in JoyStates \ {joy}
  /\ UNCHANGED <<held, out, queue, input, joyL, ui, apps, coreHas, loads, skipped, unqueued>>

-----------------------------------------------------------------------------
(* INPUT.  APP does not run before INPUT waits or blocks on the bus.       *)

\* joy_poll(), joy_send(): the event is posted before the core gets the state.
JoyPoll ==
  /\ input.at = "idle" /\ joy # joyL
  /\ joyL' = joy /\ ui' = [ui EXCEPT !.posted = @ + 1] /\ coreHas' = [coreHas EXCEPT !.joy = joy]
  /\ past' = [past EXCEPT !.letGo = @ \/ ~nav_esc(held, joy) \/ ~nav_esc(report, joy)]
  /\ UNCHANGED <<usb, queue, input, apps, loads, skipped, unqueued>>

\* event_forward(): not while the OSD is open; what is sent may wait for the bus.
event_forward(i) ==
  IF osd.open THEN input' = InputIdle /\ skipped' = skipped \cup {i.pkt.addr}
  ELSE input' = [i EXCEPT !.at = "send"] /\ UNCHANGED skipped

\* Mutant: INPUT does not wait for a hotkey.
waits_never(hot) == FALSE
waits(hot) == hot # "none"

\* input_route(): a press is posted; the hotkey is the one of the report as it is now.
input_route ==
  /\ input.at = "idle" /\ joy = joyL /\ queue # <<>> /\ queue' = Tail(queue)
  /\ LET pkt   == Head(queue)
         press == pkt.addr = "key" /\ pkt.data # "none"
         hot   == IF press /\ ~osd.open THEN hotkey_find(held, joyL) ELSE "none"
         i     == [InputIdle EXCEPT !.pkt = pkt, !.target = ui.posted + 1, !.hot = hot]
     IN /\ ui' = (IF press THEN [ui EXCEPT !.posted = @ + 1] ELSE ui)
        /\ IF waits(hot) THEN input' = [i EXCEPT !.at = "wait"] /\ UNCHANGED skipped
           ELSE event_forward(i)
  /\ UNCHANGED <<usb, joyL, apps, coreHas, loads, unqueued, past>>

\* post_to_app(): the wait ends with the answer or with its 500 ms.
Waited ==
  /\ input.at = "wait"
  /\ event_forward([input EXCEPT !.why =
       IF input.target > ui.done THEN "late" ELSE IF past.saw = input.hot THEN "seen" ELSE "gone"])
  /\ UNCHANGED <<usb, queue, joyL, ui, apps, coreHas, loads, unqueued, past>>

spi_send ==
  /\ input.at = "send"
  /\ coreHas' = [coreHas EXCEPT ![input.pkt.addr] = input.pkt.data]
  /\ skipped' = skipped \ {input.pkt.addr} /\ input' = InputIdle
  /\ UNCHANGED <<usb, queue, joyL, ui, apps, loads, unqueued, past>>

-----------------------------------------------------------------------------
(* APP.  Between its steps it may be anywhere else in its loop, in a core  *)
(* load or in a save, for as long as it likes.                             *)

\* input_tick_ui(): the events that wait are handled once, together.
Take ==
  /\ app.at = "loop" /\ ui.done # ui.posted
  /\ app' = [at |-> "look", target |-> ui.posted]
  /\ UNCHANGED <<usb, queue, input, joyL, ui, report, osd, coreHas, loads, skipped, unqueued, past>>

\* osd_toggle(), ui_osd_opened(), ui_osd_hide().
\* Mutant: the Esc that opened the OSD is not remembered.
opened_fresh(o) == [o EXCEPT !.open = TRUE]
opened(o) == [o EXCEPT !.open = TRUE, !.esc_held = TRUE]
osd_toggle(o) == IF o.open THEN [o EXCEPT !.hiding = TRUE] ELSE opened(o)

\* on_global_hotkeys(), then ui_on_keyboard(): a new Esc on the root hides the OSD.
on_global_hotkeys(o, hot) ==
  CASE hot = "toggle" -> osd_toggle(o)
    [] hot = "file" -> [o EXCEPT !.open = TRUE]
    [] OTHER -> o
ui_on_keyboard(o, esc) ==
  [o EXCEPT !.esc_held = @ \/ esc, !.hiding = @ \/ (o.open /\ esc /\ ~o.esc_held)]

on_keyboard ==
  /\ app.at = "look" /\ app' = [app EXCEPT !.at = "done"]
  /\ report' = held
  /\ LET hot == hotkey_find(held, joyL)
         o   == on_global_hotkeys(osd, hot)
     IN /\ osd' = ui_on_keyboard(o, nav_esc(held, joyL))
        /\ past' = [past EXCEPT !.looked = ui.posted, !.saw = hot,
                      !.letGo = IF o.open /\ ~osd.open THEN ~nav_esc(held, joyL) ELSE @,
                      !.turns = @ + (IF hot = "sw" THEN 1 ELSE 0)]
  /\ UNCHANGED <<usb, queue, input, joyL, ui, coreHas, loads, skipped, unqueued>>

\* What counts as handled is what was there before APP looked.
\* Mutant: all that is there by now.
handled_now == ui.posted
handled == app.target

Answer ==
  /\ app.at = "done"
  /\ ui' = [ui EXCEPT !.done = handled] /\ app' = [app EXCEPT !.at = "loop"]
  /\ UNCHANGED <<usb, queue, input, joyL, report, osd, coreHas, loads, skipped, unqueued, past>>

\* ui_tick(): Esc let go, the OSD off 200 ms after it was hidden.  INPUT, which
\* goes on within a tick of the answer, has done so by then.
ui_tick ==
  /\ app.at = "loop"
  /\ \E timer \in IF input.at = "wait" /\ input.target <= ui.done THEN {FALSE} ELSE BOOLEAN :
       osd' = [open |-> osd.open /\ ~(osd.hiding /\ timer), hiding |-> osd.hiding /\ ~timer,
               esc_held |-> osd.esc_held /\ nav_esc(report, joyL)]
  /\ osd' # osd
  /\ UNCHANGED <<usb, queue, input, joyL, ui, app, report, coreHas, loads, skipped, unqueued, past>>

\* input_tick_ui() copies the report in every turn.
Sync ==
  /\ app.at = "loop" /\ report # held /\ report' = held
  /\ UNCHANGED <<usb, queue, input, joyL, ui, app, osd, coreHas, loads, skipped, unqueued, past>>

\* A core load holds the bus, INPUT sends nothing; it ends with the keys released.
configure ==
  /\ app.at = "loop" /\ loads < MaxLoads /\ MoreInputs /\ loads' = loads + 1
  /\ coreHas' = [coreHas EXCEPT !.mod = "none", !.key = "none"]
  /\ LET room == EventQueue - Len(queue)
         up   == <<[addr |-> "mod", data |-> "none"], [addr |-> "key", data |-> "none"]>>
     IN /\ queue' = queue \o SubSeq(up, 1, IF room < 2 THEN room ELSE 2)
        /\ unqueued' = {a \in {"mod", "key"} : held[a] # "none"} \cup {up[i].addr : i \in room + 1 .. 2}
  /\ UNCHANGED <<usb, input, joyL, ui, apps, skipped, past>>

RouteNext ==
  \/ process_kbd_report \/ spi_queue \/ JoyMoves
  \/ JoyPoll \/ input_route \/ Waited \/ spi_send
  \/ Take \/ on_keyboard \/ Answer \/ ui_tick \/ Sync \/ configure

RouteSpec == RouteInit /\ [][RouteNext]_routeVars

-----------------------------------------------------------------------------
(* Properties.                                                             *)

\* INPUT is told that an event is handled only when APP has copied the reports
\* after it was posted.
LookedAt == ui.done <= past.looked

\* The press that opens the OSD does not reach the core, unless APP did not
\* look within 500 ms or the keys were up again when it did.
HotkeyKept ==
  input.at = "send" /\ input.hot \in {"toggle", "file"} => input.why \in {"late", "gone"}

\* Once nothing moves the core has the keys that are held, but for a byte whose
\* last packet met the OSD or a full queue or was followed by a core load; the
\* joysticks always.
HeldRight ==
  out = <<>> /\ queue = <<>> /\ input.at = "idle" =>
    /\ \A a \in {"mod", "key"} \ (skipped \cup unqueued) : coreHas[a] = held[a]
    /\ coreHas.joy = joyL

\* The Esc that opened the OSD never closes it: it was let go in between.
ClosesOnNewEsc ==
  [][osd'.hiding /\ ~osd.hiding => (osd.open /\ past'.saw = "toggle") \/ past'.letGo]_routeVars

\* What a user of the keyboard and the pads relies on (input.c 9-15).
InputRight == [](LookedAt /\ HotkeyKept /\ HeldRight) /\ ClosesOnNewEsc

\* A press of a switch's hotkey turns it once.
TurnedOnce == past.turns <= past.presses

-----------------------------------------------------------------------------
(* The on-board buttons.                                                   *)

CONSTANTS
  Debounce,    \* BTN_DEBOUNCE_MS in turns of the loop
  HoldTimes,   \* b->hold_ms of the core files in turns
  BtnActions,  \* b->press, b->hold: "core", "none" and others
  MaxTurns     \* bound: turns of the loop

VARIABLES
  btn,         \* the button: [press, hold, hold_ms]
  level,       \* what btn_read() will say
  pressed,     \* state, held, debounce and pressed_for of the code:
               \* [state, held, debounce, since]
  now,
  hears,       \* history: what the core was told last
  press,       \* history: the actions of this press, [runs, what]
  seen         \* history: [long, differs]: a turn of the loop found the press down
               \* for the hold time; since when the level differs from the state

btnVars == <<btn, level, pressed, now, hears, press, seen>>

NoPress == [runs |-> 0, what |-> "none"]

ButtonInit ==
  /\ btn \in {[press |-> p, hold |-> h, hold_ms |-> t] :
               p \in BtnActions, h \in BtnActions \ {"core"}, t \in HoldTimes}
  /\ level = FALSE /\ now = 0 /\ hears = FALSE /\ press = NoPress
  /\ seen = [long |-> FALSE, differs |-> 0]
  /\ pressed = [state |-> FALSE, held |-> FALSE, debounce |-> 0, since |-> 0]

\* btn_run(): an action of the MCU; "none" and the core's own do nothing here.
btn_run(p, a) == IF a \in {"none", "core"} THEN p ELSE [p EXCEPT !.runs = @ + 1, !.what = a]

\* The hold action runs while the button is held, once.
\* Mutant: it is not remembered that it ran.
once_forgotten == pressed.held
once == TRUE

hold_due == btn.hold # "none" /\ ~pressed.held /\ now - pressed.since >= btn.hold_ms

\* A change that has lasted: the press action at once when there is no hold, else
\* on a release before the hold.
press_due == IF level THEN btn.hold = "none" ELSE btn.hold # "none" /\ ~pressed.held

Same ==
  /\ level = pressed.state
  /\ IF level /\ hold_due
     THEN pressed' = [pressed EXCEPT !.debounce = now, !.held = once] /\ press' = btn_run(press, btn.hold)
     ELSE pressed' = [pressed EXCEPT !.debounce = now] /\ UNCHANGED press
  /\ UNCHANGED hears
Bounce ==
  level # pressed.state /\ now - pressed.debounce < Debounce /\ UNCHANGED <<pressed, press, hears>>
Change ==
  /\ level # pressed.state /\ now - pressed.debounce >= Debounce
  /\ pressed' = IF level THEN [pressed EXCEPT !.state = TRUE, !.held = FALSE, !.since = now]
                ELSE [pressed EXCEPT !.state = FALSE]
  /\ LET p == IF level THEN NoPress ELSE press
     IN IF btn.press = "core" THEN hears' = level /\ press' = p
        ELSE press' = (IF press_due THEN btn_run(p, btn.press) ELSE p) /\ UNCHANGED hears

\* input_tick_buttons() in a turn of APP's loop; the finger and the bouncing
\* contact are anything.  A turn may be long: the action, a save, a drawing.
ButtonNext ==
  /\ now < MaxTurns
  /\ \E l \in BOOLEAN, t \in {1, 2} : level' = l /\ now' = now + t
  /\ Same \/ Bounce \/ Change
  /\ LET fresh == pressed'.state /\ ~pressed.state
         long  == pressed.state /\ level /\ now - pressed.since >= btn.hold_ms
     IN seen' = [long |-> long \/ (seen.long /\ ~fresh),
                 differs |-> IF level' = pressed'.state \/ level = pressed'.state THEN now'
                             ELSE seen.differs]
  /\ UNCHANGED btn

ButtonSpec == ButtonInit /\ [][ButtonNext]_btnVars

-----------------------------------------------------------------------------
(* Properties.                                                             *)

\* A press that is over ran one action: the hold action if the loop found it held
\* that long, else the press action; "core" is no action of the MCU.
OneAction ==
  /\ press.runs <= 1
  /\ ~pressed.state /\ pressed.since > 0 =>
       press.what = IF seen.long /\ btn.hold # "none" THEN btn.hold
                    ELSE IF btn.press = "core" THEN "none" ELSE btn.press

\* A button of the core's: the core was told the state it has (input.c 120-123).
CoreHears == btn.press = "core" => hears = pressed.state

ButtonsRight == OneAction /\ CoreHears

\* A change of the button has lasted for the debounce time.
Debounced ==
  [][pressed'.state # pressed.state => now - seen.differs >= Debounce]_btnVars
=============================================================================
