------------------------------- MODULE Matrix --------------------------------
(***************************************************************************)
(* The LED matrix (periph/matrix.c): what is on it while the core of APP   *)
(* draws, is loaded and set up, and the task MATRIX makes frames, polls    *)
(* the buttons and reports them to the core.                               *)
(*                                                                         *)
(* MATRIX is above APP on one core and waits for nothing inside the I2C    *)
(* lock, so the locked part of a frame is one step; APP may be preempted   *)
(* anywhere.  Of the bus lock of the link only its owner is kept (SpiLink  *)
(* has the rest).  What is on the matrix is the set of what was drawn      *)
(* there; colors are left out.                                             *)
(***************************************************************************)
EXTENDS Integers, FiniteSets

CONSTANTS
  MatrixCores,  \* the cores: [mode, text, repeat, then, frames, boot] as in their files
  MxButtons,    \* the buttons, 1 .. 4 in the code
  ScrollSteps,  \* the steps of a pass of the text
  MaxMxLoads, MaxMxEdits, MaxPresses, MaxDraws  \* bounds

\* The bytes of a core's file are what they are, also those never written; the buttons are
\* numbered from 1.
ASSUME MatrixAssumption ==
  /\ \A c \in MatrixCores : c.text \in BOOLEAN /\ c.boot \in BOOLEAN /\ c.repeat \in 0 .. 255
  /\ MxButtons \subseteq Nat /\ \E n \in MxButtons : MxButtons = 1 .. n
  /\ ScrollSteps \in Nat

VARIABLES
  mx,     \* [mode, enabled, preview, passes, repeat, left, image]
  cfg,    \* the parsed settings of a core
  bootCore, \* cfg_core_type is CORE_TYPE_BOOT
  led,    \* [rows, shown]: the buffer of ht16k33.c and the display
  appTask,    \* [at, next, id]: APP in a core load; the core that runs is id
  task,   \* [at, btns, i]: MATRIX
  btn,    \* [held, prev, heard]: held on the board, prev_btns, by the core
  mxPast  \* history: [loads, edits, presses, draws, carried, saved, asked]; saved is hw_setup

mxVars == <<mx, cfg, bootCore, led, appTask, task, btn, mxPast>>

KG_MATRIX_FRAMES == 4
Never == 255  \* a byte that was not written

\* kg_matrix_parse().
parse_frames(n) == IF n \in 1 .. KG_MATRIX_FRAMES THEN n ELSE 1
kg_matrix_parse(b) ==
  [mode |-> IF b.mode \notin {"scroll", "effect", "image", "blank"} \/ (b.mode = "scroll" /\ ~b.text) THEN "core" ELSE b.mode,
   repeat |-> IF b.repeat = Never THEN 0 ELSE b.repeat,
   then |-> IF b.then \in {"effect", "blank"} THEN b.then ELSE "core",
   frames |-> parse_frames(b.frames), boot |-> b.boot]

-----------------------------------------------------------------------------
(* Modes.  Each operator gives the new <<mx, led>>.                        *)

Dark == [rows |-> {}, shown |-> {}]
\* A picture is what it shows and the core it was drawn under.
Pic(what) == <<what, appTask.id>>
Draws(what) == [rows |-> {Pic(what)}, shown |-> {Pic(what)}]
pixel(l, what) == [l EXCEPT !.rows = @ \cup {Pic(what)}]
show(l) == [l EXCEPT !.shown = l.rows]

Scroll(m, repeat) == <<[m EXCEPT !.mode = "scroll", !.passes = 0, !.repeat = repeat, !.left = ScrollSteps], Dark>>
StartAudio(m) == <<[m EXCEPT !.mode = "audio", !.passes = 0], Dark>>

\* matrix_start_mode().
matrix_start_mode(m, mode, c, boot) ==
  CASE mode = "scroll" -> Scroll(m, c.repeat)
    [] mode = "effect" -> <<[m EXCEPT !.mode = "effect", !.passes = 0], Dark>>
    [] mode = "image"  -> <<[m EXCEPT !.mode = "image", !.passes = 0, !.image = 0], Draws("image")>>
    [] mode = "blank"  -> <<[m EXCEPT !.mode = "blank", !.passes = 0], Dark>>
    [] OTHER -> IF boot THEN Scroll(m, 0) ELSE StartAudio(m)

matrix_start_preview(m) ==
  IF m.preview = "clock" THEN <<[m EXCEPT !.mode = "effect", !.passes = 0], Dark>> ELSE StartAudio(m)

\* matrix_start(): a matrix that is switched off is dark in every mode.
matrix_start(m, mode, c, boot) ==
  IF m.enabled /\ m.preview # "none" THEN matrix_start_preview(m)
  ELSE matrix_start_mode(m, IF m.enabled THEN mode ELSE "blank", c, boot)

\* matrix_pass_done(): after the repeats, `then`.
pass_over(m, repeat) == repeat > 0 /\ m.passes + 1 >= repeat
matrix_pass_done(m, l, repeat) ==
  IF pass_over(m, repeat) THEN matrix_start([m EXCEPT !.passes = 0], cfg.then, cfg, bootCore)
  ELSE <<[m EXCEPT !.passes = IF repeat = 0 THEN 0 ELSE @ + 1], l>>

\* matrix_frame() between the locks; a step may take more frames than one.
Scrolled ==
  IF mx.left > 0 THEN <<[mx EXCEPT !.left = @ - 1], Draws("text")>>
  ELSE matrix_pass_done([mx EXCEPT !.left = ScrollSteps], Draws("text"), mx.repeat)

next_image(n) == (n + 1) % cfg.frames
Turned ==
  LET n == next_image(mx.image)
      m == [mx EXCEPT !.image = n]
      l == IF cfg.frames > 1 THEN Draws("image") ELSE led
  IN IF n = 0 THEN matrix_pass_done(m, l, cfg.repeat) ELSE <<m, l>>

Framed ==
  {<<mx, led>>} \cup
  CASE mx.mode = "audio"  -> {<<mx, Draws("meters")>>}
    [] mx.mode = "scroll" -> {Scrolled}
    [] mx.mode = "effect" -> {<<mx, Draws("effect")>>}
    [] mx.mode = "image"  -> {Turned}
    [] OTHER -> {}

-----------------------------------------------------------------------------
MxInit ==
  /\ cfg = [mode |-> "core", repeat |-> 0, then |-> "core", frames |-> 0, boot |-> TRUE]
  /\ bootCore = TRUE
  /\ LET m == [mode |-> "scroll", enabled |-> TRUE, preview |-> "none", passes |-> 0, repeat |-> 0, left |-> 0, image |-> 0]
         s == matrix_start_mode(m, "core", cfg, TRUE)
     IN mx = s[1] /\ led = s[2]
  /\ appTask = [at |-> "runs", next |-> cfg, id |-> 0]
  /\ task = [at |-> "sleeps", btns |-> {}, i |-> 0]
  /\ btn = [held |-> {}, prev |-> {}, heard |-> {}]
  /\ mxPast = [loads |-> 0, edits |-> 0, presses |-> 0, draws |-> 0, carried |-> {}, saved |-> TRUE, asked |-> "none"]

-----------------------------------------------------------------------------
(* The task MATRIX.                                                        *)

\* It is above APP: while it runs, APP does not, but for the time it waits for a lock.
LinkFree == appTask.at \in {"runs", "reboots"}
Differs == (task.i \in task.btns) # (task.i \in btn.prev)
MatrixRuns == task.at = "tell" /\ (task.i \in MxButtons /\ Differs => LinkFree)

\* A frame; every few of them ask the buttons.
matrix_frame ==
  /\ task.at = "sleeps"
  /\ \E f \in Framed : mx' = f[1] /\ led' = f[2]
  /\ \E b \in {btn.prev, btn.held} : task' = [at |-> "tell", btns |-> b, i |-> 1]
  /\ UNCHANGED <<cfg, bootCore, appTask, btn, mxPast>>

\* The change of a button goes over the link, which a core load holds to its end.
Reports(i) == Differs
ReportButton ==
  /\ task.at = "tell" /\ task.i \in MxButtons /\ MatrixRuns
  /\ btn' = IF ~Reports(task.i) THEN btn
            ELSE [btn EXCEPT !.heard = IF task.i \in task.btns THEN @ \cup {task.i} ELSE @ \ {task.i}]
  /\ task' = [task EXCEPT !.i = @ + 1]
  /\ mxPast' = [mxPast EXCEPT !.carried = @ \ {b \in {task.i} : b \notin task.btns}]
  /\ UNCHANGED <<mx, cfg, bootCore, led, appTask>>

FrameEnds ==
  /\ task.at = "tell" /\ task.i \notin MxButtons
  /\ btn' = [btn EXCEPT !.prev = task.btns] /\ task' = [at |-> "sleeps", btns |-> {}, i |-> 0]
  /\ UNCHANGED <<mx, cfg, bootCore, led, appTask, mxPast>>

\* A hand on the buttons; external.
Press ==
  /\ mxPast.presses < MaxPresses
  /\ \E b \in MxButtons : btn' = [btn EXCEPT !.held = IF b \in @ THEN @ \ {b} ELSE @ \cup {b}]
  /\ mxPast' = [mxPast EXCEPT !.presses = @ + 1]
  /\ UNCHANGED <<mx, cfg, bootCore, led, appTask, task>>

-----------------------------------------------------------------------------
(* The commands of the core, handled by APP; also inside bk_flush() of a   *)
(* load that has begun.                                                    *)

core_owns_matrix(m) == m.mode \in {"audio", "draw"}
Hears == appTask.at \in {"runs", "flushes"} /\ ~MatrixRuns /\ mxPast.draws < MaxDraws
Draw ==
  /\ mxPast' = [mxPast EXCEPT !.draws = @ + 1]
  /\ UNCHANGED <<cfg, bootCore, appTask, task, btn>>

\* CMD_MATRIX_PIXEL, CMD_MATRIX_BITPLAN.
matrix_pixel_data ==
  /\ Hears /\ core_owns_matrix(mx)
  /\ mx' = [mx EXCEPT !.mode = "draw"] /\ led' = pixel(led, "core") /\ Draw

\* CMD_MATRIX_CTL: clear, show, the meters on and off.
matrix_ctl_data ==
  /\ Hears /\ core_owns_matrix(mx)
  /\ \E clear, shows, meters \in BOOLEAN :
       LET cleared == IF clear THEN [led EXCEPT !.rows = {}] ELSE led
       IN /\ mx' = [mx EXCEPT !.mode = IF meters THEN "audio" ELSE "draw"]
          /\ led' = IF mx'.mode # mx.mode THEN Dark ELSE IF shows THEN show(cleared) ELSE cleared
  /\ Draw

-----------------------------------------------------------------------------
(* APP: Settings, which the boot core has, and a core load.                *)

AppActs == appTask.at = "runs" /\ ~MatrixRuns
Settled == mx.mode \in {"icon", "loading"}

\* Settings with the matrix on or off, a brightness, a style: shown at once.
matrix_setup(on) ==
  /\ LET m == [mx EXCEPT !.enabled = on]
         s == IF Settled \/ on = mx.enabled THEN <<m, led>> ELSE matrix_start(m, cfg.mode, cfg, bootCore)
     IN mx' = s[1] /\ led' = s[2]
  /\ UNCHANGED <<cfg, bootCore, appTask, task, btn>>
matrix_preview(what) ==
  LET m == [mx EXCEPT !.preview = what]
      s == IF what = mx.preview \/ Settled THEN <<m, led>> ELSE matrix_start(m, cfg.mode, cfg, bootCore)
  IN mx' = s[1] /\ led' = s[2]

Edit ==
  /\ AppActs /\ bootCore /\ mxPast.edits < MaxMxEdits
  /\ \E on \in BOOLEAN : matrix_setup(on)
  /\ \E keeps \in BOOLEAN : mxPast' = [mxPast EXCEPT !.edits = @ + 1, !.saved = IF keeps THEN mx'.enabled ELSE @]
settings_preview ==
  /\ AppActs /\ bootCore /\ mxPast.edits < MaxMxEdits
  /\ \E what \in {"none", "clock", "meter"} : matrix_preview(what)
  /\ mxPast' = [mxPast EXCEPT !.edits = @ + 1, !.asked = mx'.preview]
  /\ UNCHANGED <<cfg, bootCore, appTask, task, btn>>

\* matrix_icon(), before a reboot: nothing comes after it but that.
matrix_icon ==
  /\ AppActs /\ mx.enabled /\ mx.mode # "icon"
  /\ mx' = [mx EXCEPT !.mode = "icon"] /\ led' = Draws("icon")
  /\ appTask' = [appTask EXCEPT !.at = "reboots"]
  /\ UNCHANGED <<cfg, bootCore, task, btn, mxPast>>

\* configure(), with the bus lock from begin to end: the mode, then the I2C lock.
LoadBegins ==
  /\ appTask.at = "runs" /\ ~MatrixRuns /\ mxPast.loads < MaxMxLoads
  /\ \E c \in MatrixCores : appTask' = [appTask EXCEPT !.at = "begins", !.next = kg_matrix_parse(c)]
  /\ mxPast' = [mxPast EXCEPT !.loads = @ + 1]
  /\ UNCHANGED <<mx, cfg, bootCore, led, task, btn>>

\* Mutant: the mode stays what it was.
loading_not(m) == m
loading(m) == [m EXCEPT !.mode = "loading"]
ModeLoading ==
  /\ appTask.at = "begins" /\ ~MatrixRuns
  /\ mx' = loading(mx) /\ appTask' = [appTask EXCEPT !.at = "clears"]
  /\ UNCHANGED <<cfg, bootCore, led, task, btn, mxPast>>
matrix_on_configure_start ==
  /\ appTask.at = "clears" /\ ~MatrixRuns
  /\ led' = Dark /\ appTask' = [appTask EXCEPT !.at = "flushes"]
  /\ UNCHANGED <<mx, cfg, bootCore, task, btn, mxPast>>
RxOff ==
  /\ appTask.at = "flushes" /\ ~MatrixRuns /\ appTask' = [appTask EXCEPT !.at = "sends"]
  /\ UNCHANGED <<mx, cfg, bootCore, led, task, btn, mxPast>>

\* The bitstream, that of the boot core before it when the SRAM is to be cleared.
matrix_progress ==
  /\ appTask.at = "sends" /\ ~MatrixRuns
  /\ led' = IF mx.enabled THEN show(pixel(led, "bar")) ELSE led
  /\ UNCHANGED <<mx, cfg, bootCore, appTask, task, btn, mxPast>>
\* The core that starts has heard of no button.
CoreStarts ==
  /\ appTask.at = "sends" /\ ~MatrixRuns
  /\ appTask' = [appTask EXCEPT !.at = "reads", !.id = @ + 1]
  /\ btn' = [btn EXCEPT !.heard = {}]
  /\ mxPast' = [mxPast EXCEPT !.carried = btn.prev \cup task.btns]
  /\ UNCHANGED <<mx, cfg, bootCore, led, task>>
matrix_set_config ==
  /\ appTask.at = "reads" /\ ~MatrixRuns
  /\ cfg' = appTask.next /\ appTask' = [appTask EXCEPT !.at = "ends"]
  /\ UNCHANGED <<mx, bootCore, led, task, btn, mxPast>>

after_load(m) == [m EXCEPT !.enabled = mxPast.saved, !.preview = "none"]
matrix_on_configure_done ==
  /\ appTask.at = "ends" /\ ~MatrixRuns
  /\ bootCore' = cfg.boot
  /\ LET s == matrix_start(after_load(mx), cfg.mode, cfg, cfg.boot)
     IN mx' = s[1] /\ led' = s[2]
  /\ appTask' = [appTask EXCEPT !.at = "runs"] /\ mxPast' = [mxPast EXCEPT !.asked = "none"]
  /\ UNCHANGED <<cfg, task, btn>>

MxNext ==
  \/ matrix_frame \/ ReportButton \/ FrameEnds \/ Press
  \/ matrix_pixel_data \/ matrix_ctl_data \/ Edit \/ settings_preview \/ matrix_icon
  \/ LoadBegins \/ ModeLoading \/ matrix_on_configure_start \/ RxOff \/ matrix_progress
  \/ CoreStarts \/ matrix_set_config \/ matrix_on_configure_done
MxSpec == MxInit /\ [][MxNext]_mxVars

-----------------------------------------------------------------------------
(* Properties.                                                             *)

\* A core that is loaded shows its progress, and nothing of the one before goes on over
\* it: text, meters or what that core draws while its save is flushed.
OnlyTheBar == appTask.at \in {"flushes", "sends", "reads", "ends"} => \A p \in led.shown : p[1] = "bar"

\* A matrix that is switched off is dark whatever its mode is.
DarkWhenOff == ~mx.enabled => led.shown = {} \/ appTask.at \in {"begins", "clears"}

\* Only the core that runs draws, and only where its settings leave the matrix to it, or
\* while Settings shows the meters.
OnlyItsCore ==
  /\ appTask.at # "reads" => \A p \in led.shown : p[1] # "core" \/ p[2] = appTask.id
  /\ Pic("core") \in led.shown =>
       cfg.mode = "core" \/ (cfg.repeat > 0 /\ cfg.then = "core") \/ mx.preview = "meter"

\* The text and the pictures go on as often as the core says, never more, and no picture
\* is shown that there is not.
Repeated ==
  /\ mx.mode = "scroll" /\ mx.repeat > 0 => mx.passes < mx.repeat
  /\ mx.mode = "image" => mx.image < cfg.frames /\ (cfg.repeat > 0 => mx.passes < cfg.repeat)

\* What runs is what the core has in its settings, the end of its repeats or the preview
\* that was asked for since it started.
Shows(mode, boot) ==
  CASE mode = "core" -> IF boot THEN {"scroll"} ELSE {"audio", "draw"} [] OTHER -> {mode}
ModeFits ==
  appTask.at = "runs" /\ mx.enabled =>
    \/ mxPast.asked = "none" /\ mx.mode \in Shows(cfg.mode, bootCore)
    \/ mxPast.asked = "none" /\ cfg.repeat > 0 /\ mx.mode \in Shows(cfg.then, bootCore)
    \/ mxPast.asked = "clock" /\ mx.mode = "effect"
    \/ mxPast.asked = "meter" /\ mx.mode \in {"audio", "draw"}

\* Between two frames the core has heard of the buttons what the last poll saw, but of
\* those that were held when it started.
ButtonsHeard == task.at = "sleeps" => btn.heard \ mxPast.carried = btn.prev \ mxPast.carried

MatrixRight == OnlyTheBar /\ DarkWhenOff /\ OnlyItsCore /\ Repeated /\ ModeFits /\ ButtonsHeard

-----------------------------------------------------------------------------
(***************************************************************************)
(* The effects of the LED matrix (lib/common/matrix_fx.c) and its audio    *)
(* meters (matrix_meter.c) on a small display: what a step writes is in    *)
(* the buffer, the game goes on, nothing stands for ever.  xorshift32 is a *)
(* choice of every number it is reduced to.  The clock, the plasma and *)
(* the fire fill the buffer cell by cell and are left out.                 *)
(***************************************************************************)

CONSTANTS
  KG_MATRIX_W, KG_MATRIX_H,  \* 16, 8
  PongRow,      \* 16: the parts of a row the ball moves by
  ServeSpeeds,  \* 6 .. 12
  Slope, Spins, \* 5, -2 .. 2: what the place of a hit adds
  ServeWait,    \* 10
  LifeW, LifeH, \* the torus of Life, that of the display
  MaxStill, MaxLife,  \* 15, 500
  TailLength,         \* 3: the pixels behind a drop
  Drives, LedSteps,   \* 0 .. 7, 8
  HoldFrames, FallFrames,  \* 50, 3
  SomePeaks,    \* what the core says of a channel
  MaxAccesses, MaxRaises  \* bounds

VARIABLES
  fx,   \* the fields of the effect that runs, and effect
  fb    \* the buffer: the pixels that are lit, as <<y, x>>

fxVars == <<fx, fb>>

Xs == 0 .. KG_MATRIX_W - 1
Ys == 0 .. KG_MATRIX_H - 1
Sign(up) == IF up THEN 1 ELSE -1

-----------------------------------------------------------------------------
(* Pong.                                                                   *)

pong_serve(p) ==
  {[p EXCEPT !.x = KG_MATRIX_W \div 2, !.y = row * PongRow, !.dx = Sign(right), !.dy = speed * Sign(down), !.wait = 0] :
     row \in {2, 5}, right \in BOOLEAN, speed \in ServeSpeeds, down \in BOOLEAN}

Side(p) == IF p.dx < 0 THEN 0 ELSE 1
Target(p) == p.y \div PongRow - 1

paddle_up(q) == q < KG_MATRIX_H - 3
Followed(p) ==
  LET side == Side(p)
      q == p.paddle[side]
  IN {p, [p EXCEPT !.paddle[side] =
            IF q < Target(p) /\ paddle_up(q) THEN q + 1 ELSE IF q > Target(p) /\ q > 0 THEN q - 1 ELSE q]}

\* The ball bounces off the top and the bottom.
Moved(p) ==
  LET y == p.y + p.dy
      last == (KG_MATRIX_H - 1) * PongRow
      m == [p EXCEPT !.x = @ + p.dx]
  IN CASE y < 0 -> [m EXCEPT !.y = -y, !.dy = -@]
       [] y > last -> [m EXCEPT !.y = 2 * last - y, !.dy = -@]
       [] OTHER -> [m EXCEPT !.y = y]

Limited(v) == IF v > PongRow THEN PongRow ELSE IF v < -PongRow THEN -PongRow ELSE v
Edge(p) == IF Side(p) = 0 THEN 1 ELSE KG_MATRIX_W - 2
Hit(p) ==
  LET hit == p.y \div PongRow - p.paddle[Side(p)]
  IN IF p.x = Edge(p)
     THEN IF hit \in 0 .. 2 THEN {[p EXCEPT !.dx = -@, !.dy = Limited(@ + (hit - 1) * Slope + spin)] : spin \in Spins} ELSE {p}
     ELSE IF p.x \notin 1 .. KG_MATRIX_W - 2 THEN {[p EXCEPT !.wait = ServeWait]} ELSE {p}

step_pong(p) ==
  IF p.wait = 1 THEN pong_serve(p)
  ELSE IF p.wait > 0 THEN {[p EXCEPT !.wait = @ - 1]}
  ELSE UNION {Hit(Moved(f)) : f \in Followed(p)}
PongPixels(p) ==
  {<<p.paddle[0] + i, 0>> : i \in 0 .. 2} \cup {<<p.paddle[1] + i, KG_MATRIX_W - 1>> : i \in 0 .. 2}
  \cup (IF p.x \in Xs THEN {<<p.y \div PongRow, p.x>>} ELSE {})

-----------------------------------------------------------------------------
(* The scanner: the dot turns at the sides; a tail of two, none outside.   *)

step_scanner(s) ==
  LET turned == (s.pos = KG_MATRIX_W - 1 /\ s.dir > 0) \/ (s.pos = 0 /\ s.dir < 0)
      dir == IF turned THEN -s.dir ELSE s.dir
  IN [s EXCEPT !.dir = dir, !.pos = @ + dir]
ScannerPixels(s) ==
  LET pos(i) == s.pos - i * s.dir
  IN UNION {{<<y, pos(i)>> : y \in (IF i = 2 THEN 3 .. 3 ELSE (2 + i) .. (5 - i))} : i \in {j \in 0 .. 2 : pos(j) \in Xs}}

-----------------------------------------------------------------------------
(* The rain, a column of it; a slow drop moves every other step.           *)

Fallen(y) == IF y + 1 - TailLength >= KG_MATRIX_H THEN -1 ELSE y + 1
step_rain(d) ==
  LET odd == ~d.odd
  IN IF d.y < 0 THEN {[d EXCEPT !.odd = odd]} \cup {[odd |-> odd, y |-> 0, slow |-> slow, effect |-> "rain"] : slow \in BOOLEAN}
     ELSE {[d EXCEPT !.odd = odd, !.y = IF ~d.slow \/ odd THEN Fallen(@) ELSE @]}
RainPixels(d) == IF d.y < 0 THEN {} ELSE {<<d.y - i, 0>> : i \in {j \in 0 .. TailLength : d.y - j \in Ys}}

-----------------------------------------------------------------------------
(* The stars, one of them, in 1/16 of a column: 4, 8 or 16 a step.         *)

Speed(layer) == 4 * 2^layer
around(x, v) == x < v
step_stars(s) ==
  LET v == Speed(s.layer)
  IN IF around(s.x, v) THEN {[s EXCEPT !.x = @ + KG_MATRIX_W * 16 - v, !.y = y] : y \in Ys} ELSE {[s EXCEPT !.x = @ - v]}
StarPixels(s) == {<<s.y, s.x \div 16>>}

-----------------------------------------------------------------------------
(* Life, on a torus.                                                       *)

Cells == (0 .. LifeH - 1) \X (0 .. LifeW - 1)
Around == {-1, 0, 1} \X {-1, 0, 1} \ {<<0, 0>>}
Alive(cells, p) == Cardinality({d \in Around : <<(p[1] + d[1]) % LifeH, (p[2] + d[2]) % LifeW>> \in cells})
matrix_fx_life_next(cells) == {p \in Cells : Alive(cells, p) = 3 \/ (p \in cells /\ Alive(cells, p) = 2)}

life_seed == {[effect |-> "life", cells |-> c, prev |-> {}, still |-> 0, step |-> 0] : c \in SUBSET Cells}

\* A field that stands, blinks, dies out or goes on for long is sown again.
stands(c, l) == c = l.cells \/ c = l.prev
step_life(l) ==
  LET c == matrix_fx_life_next(l.cells)
      next == [l EXCEPT !.cells = c, !.prev = l.cells, !.step = @ + 1, !.still = IF stands(c, l) THEN @ + 1 ELSE 0]
  IN IF c = {} \/ next.still > MaxStill \/ next.step > MaxLife THEN life_seed ELSE {next}
LifePixels(l) == l.cells \cup l.prev

-----------------------------------------------------------------------------
(* The drives: a dot for an access, the place of the head; d is what       *)
(* img_mount.c says of the images.                                         *)

Count(n) == (n + 1) % 256
step_drive(l) ==
  LET changed(i) == l.reads[i] # l.seenReads[i] \/ l.writes[i] # l.seenWrites[i]
  IN [l EXCEPT !.steps = [i \in Drives |-> IF changed(i) THEN LedSteps ELSE IF @[i] > 0 THEN @[i] - 1 ELSE 0],
               !.color = [i \in Drives |-> IF ~changed(i) THEN @[i] ELSE IF l.writes[i] # l.seenWrites[i] THEN "red" ELSE "green"],
               !.seenReads = l.reads, !.seenWrites = l.writes]

\* An image may be replaced by a shorter one while the head is far in it.
HeadAt(l, i) == LET pos == (l.lba[i] * 13) \div l.sectors[i] IN IF pos > 12 THEN 12 ELSE pos
\* The first four images share the rows.
Slots(l) == LET used == {i \in Drives : l.sectors[i] > 0} IN {i \in used : Cardinality({j \in used : j < i}) < 4}
Place(l, i) == Cardinality({j \in Slots(l) : j < i})
RowsOf(l, i) ==
  LET n == Cardinality(Slots(l))
      top == IF n = 1 THEN 2 ELSE Place(l, i) * (8 \div n)
  IN top .. (top + (IF n = 1 THEN 4 ELSE IF n = 2 THEN 3 ELSE 2) - 1)
DrivePixels(l) ==
  IF Slots(l) = {} THEN {<<3, x>> : x \in {1, 3, 5, 7, 9, 11, 13, 15}}
  ELSE UNION {(RowsOf(l, i) \X {3 + HeadAt(l, i)}) \cup (IF l.steps[i] > 0 THEN RowsOf(l, i) \X {0, 1} ELSE {}) : i \in Slots(l)}

\* matrix_drive_mount() and matrix_drive_access().
Mounted(l) == {[l EXCEPT !.sectors[i] = n, !.lba[i] = 0] : i \in Drives, n \in {0, 1, 100}}
Accessed(l) ==
  UNION {{[l EXCEPT !.lba[i] = a, !.reads[i] = Count(@)], [l EXCEPT !.lba[i] = a, !.writes[i] = Count(@)]} :
           i \in {j \in Drives : l.sectors[j] > 0}, a \in {0, 99}}

-----------------------------------------------------------------------------
(* The meters.                                                             *)

KG_METER_MAX == 16
Steps == {20000, 16000, 10000, 8000, 6500, 5000, 3500, 3000, 2000, 1500, 1000, 750, 600, 500, 350, 200}
kg_meter_level(v) == Cardinality({s \in Steps : v >= s})

Decays == {"slow", "normal", "fast"}
Part(decay) == CASE decay = "slow" -> 32 [] decay = "fast" -> 8 [] OTHER -> 16
kg_meter_decay(v, decay) == v - (IF v > 0 /\ v \div Part(decay) = 0 THEN 1 ELSE v \div Part(decay))

\* The peak stays, then falls.
peak_move(m, lvl) ==
  CASE lvl >= m.peak -> [m EXCEPT !.peak = lvl, !.hold = HoldFrames, !.fall = FallFrames]
    [] lvl < m.peak /\ m.hold > 0 -> [m EXCEPT !.hold = @ - 1]
    [] OTHER -> IF m.fall = 1 THEN [m EXCEPT !.peak = @ - 1, !.fall = FallFrames] ELSE [m EXCEPT !.fall = @ - 1]

\* The cells of a bar of n of them, and its peak dot.
Half(v) == (v + 1) \div 2
bar_right(lvl, peak) == 0 .. lvl - 1 \cup (IF peak > lvl THEN {peak - 1} ELSE {})
bar_half(dir, lvl, peak) ==
  LET n == 8
  IN {IF dir < 0 THEN n - 1 - i ELSE n + i : i \in 0 .. Half(lvl) - 1}
     \cup (IF Half(peak) > Half(lvl) THEN {IF dir < 0 THEN n - Half(peak) ELSE n + Half(peak) - 1} ELSE {})
bar_up(lvl, peak) == {7 - i : i \in 0 .. Half(lvl) - 1} \cup (IF Half(peak) > Half(lvl) THEN {8 - Half(peak)} ELSE {})

kg_meter_draw(m) ==
  [peak_move(m, kg_meter_level(m.v)) EXCEPT !.lvl = kg_meter_level(m.v), !.v = kg_meter_decay(m.v, m.decay)]
Raised(m) == {[m EXCEPT !.v = IF v > @ THEN v ELSE @, !.raises = @ + 1] : v \in SomePeaks}

-----------------------------------------------------------------------------
\* matrix_fx_init() of each effect.
AllDrives(v) == [i \in Drives |-> v]
matrix_fx_init ==
  pong_serve([effect |-> "pong", x |-> 0, y |-> 0, dx |-> 0, dy |-> 0, paddle |-> [i \in 0 .. 1 |-> 2], wait |-> 0])
  \cup {[effect |-> "scanner", pos |-> 0, dir |-> 1], [effect |-> "rain", y |-> -1, slow |-> FALSE, odd |-> FALSE]}
  \cup {[effect |-> "stars", x |-> x, y |-> y, layer |-> l] : x \in 0 .. KG_MATRIX_W * 16 - 1, y \in {0, KG_MATRIX_H - 1}, l \in 0 .. 2}
  \cup {[effect |-> "drive", reads |-> AllDrives(n), writes |-> AllDrives(n), sectors |-> AllDrives(0), lba |-> AllDrives(0),
         seenReads |-> AllDrives(0), seenWrites |-> AllDrives(0), steps |-> AllDrives(0), color |-> AllDrives("off"), accesses |-> 0] : n \in {0, 7}}
  \cup life_seed
  \cup {[effect |-> "meter", v |-> 0, lvl |-> 0, peak |-> 0, hold |-> 0, fall |-> 0, decay |-> d, raises |-> 0] : d \in Decays}

FxPixels(f) ==
  CASE f.effect = "pong" -> PongPixels(f) [] f.effect = "scanner" -> ScannerPixels(f) [] f.effect = "rain" -> RainPixels(f)
    [] f.effect = "stars" -> StarPixels(f) [] f.effect = "life" -> LifePixels(f)
    [] f.effect = "drive" -> DrivePixels(f) [] OTHER -> {}

matrix_fx_step ==
  /\ fx' \in CASE fx.effect = "pong" -> step_pong(fx) [] fx.effect = "scanner" -> {step_scanner(fx)}
               [] fx.effect = "rain" -> step_rain(fx) [] fx.effect = "stars" -> step_stars(fx)
               [] fx.effect = "life" -> step_life(fx)
               [] fx.effect = "drive" -> {step_drive(fx)} [] OTHER -> {kg_meter_draw(fx)}
  /\ fb' = FxPixels(IF fx.effect = "scanner" THEN fx ELSE fx')

\* What the core and the images do between two steps.
FxHears ==
  /\ \/ fx.effect = "drive" /\ fx.accesses < MaxAccesses
        /\ \E f \in Mounted(fx) \cup Accessed(fx) : fx' = [f EXCEPT !.accesses = @ + 1]
     \/ fx.effect = "meter" /\ fx.raises < MaxRaises /\ fx' \in Raised(fx)
  /\ UNCHANGED fb

FxInit == fx \in matrix_fx_init /\ fb = {}
FxNext == matrix_fx_step \/ FxHears

-----------------------------------------------------------------------------
(* Properties.                                                             *)

\* No step writes beside the buffer.
InBuffer ==
  CASE fx.effect = "drive" -> fb \subseteq (0 .. 7) \X (0 .. 15)
    [] fx.effect = "life"  -> fb \subseteq Cells
    [] fx.effect = "meter" ->
         /\ bar_right(fx.lvl, fx.peak) \subseteq 0 .. 15 /\ bar_up(fx.lvl, fx.peak) \subseteq 0 .. 7
         /\ bar_half(-1, fx.lvl, fx.peak) \subseteq 0 .. 7 /\ bar_half(1, fx.lvl, fx.peak) \subseteq 8 .. 15
    [] OTHER -> fb \subseteq Ys \X Xs

\* The game can always go on: the paddles are whole on the display, the ball is on it and
\* comes back after a miss.
PongPlays ==
  fx.effect = "pong" =>
    /\ \A side \in {0, 1} : fx.paddle[side] \in 0 .. KG_MATRIX_H - 3
    /\ fx.x \in Xs /\ fx.y \in 0 .. (KG_MATRIX_H - 1) * PongRow
    /\ (fx.x \in {0, KG_MATRIX_W - 1} => fx.wait > 0)

\* A field of Life that stands or blinks is sown again in time, a drop falls out.
NothingStands ==
  /\ fx.effect = "life" => fx.still <= MaxStill /\ (fx.still > 1 => matrix_fx_life_next(matrix_fx_life_next(fx.cells)) = fx.cells)
  /\ fx.effect = "rain" => fx.y < KG_MATRIX_H + TailLength

\* The peak of a meter is never under its level, nor above what was heard last but for the
\* time it is held; without sound both go down to nothing.
MeterTrue ==
  fx.effect = "meter" =>
    /\ fx.peak >= fx.lvl /\ (fx.hold + fx.fall > 0 \/ fx.peak = 0)
    /\ fx.v > 0 => kg_meter_decay(fx.v, fx.decay) \in 0 .. fx.v - 1

\* A drive's dot is red only when it was written to.
LedsTrue ==
  fx.effect = "drive" => \A i \in Drives : fx.steps[i] > 0 =>
    IF fx.color[i] = "red" THEN fx.seenWrites[i] > 0 ELSE fx.color[i] = "green" /\ fx.seenReads[i] > 0

FxRight == InBuffer /\ PongPlays /\ NothingStands /\ MeterTrue /\ LedsTrue
=============================================================================
