----------------------------- MODULE MousePointer -----------------------------
(***************************************************************************)
(* The mouse: core1 sends its reports to the core and sums its moves, APP  *)
(* takes them for the pointer of the graphic screens.  A screen draws a    *)
(* frame with its clickable areas; a move alone draws the kept frame with  *)
(* the pointer at its new place.  One axis, the left button; the areas of  *)
(* a screen depend on what it shows.  Clocks run freely.                   *)
(***************************************************************************)
EXTENDS Integers

CONSTANTS
  Width,      \* ft_width(): the places of the pointer are 0 .. Width - 1
  Deltas,     \* the moves of a report
  ByteRange,  \* the values of a byte, the core gets one for a move: 256
  Speeds,     \* ft_mouse_speed: the quarters of a place for each count of a move
  MaxMouseReports, MaxMouseKeys  \* bounds

ASSUME MouseAssumption == Width \in Nat \ {0} /\ Deltas \subseteq Int /\ Speeds \subseteq Nat

Hidden == -1    \* no pointer is drawn
NoHit  == "none"
Screens == {"browser", "setup"}

VARIABLES
  mouse,      \* mouse_shared: [d, buttons, pressed, changed]
  core_mouse, \* [sum, buttons, said]: what the core summed up; said: the buttons of the last report sent
  ptr,        \* [x, rem, visible, pending, buttons]: px, rx, visible, frame_pending, buttons
  ft_screen,  \* [name, content, speed, cores]: the screen; cores: the browser has some
  shown,      \* [name, content, at, hover]: the frame on the display and its pointer
  mousePast   \* history: [reports, keys, moved, asked, all, down, act]

mouseVars == <<mouse, core_mouse, ptr, ft_screen, shown, mousePast>>

NoMoves == [d |-> 0, buttons |-> FALSE, pressed |-> FALSE, changed |-> FALSE]

Clip(x)   == IF x < 0 THEN 0 ELSE IF x >= Width THEN Width - 1 ELSE x
Quot(v)   == IF v >= 0 THEN v \div 4 ELSE -((-v) \div 4)  \* as C divides
Signed(b) == IF b >= ByteRange \div 2 THEN b - ByteRange ELSE b

-----------------------------------------------------------------------------
(* The frame of a screen: its areas and what the mouse is over.            *)

\* ft_hit_at() with the areas of a frame: the left half, and an area of the content.
ft_hit_at(content, x) == IF x < Width \div 2 THEN "left" ELSE IF content = 1 THEN "right" ELSE NoHit
ft_hover(content, p) == IF p.visible THEN ft_hit_at(content, p.x) ELSE NoHit

\* app_ft_setup_draw(), app_core_browser_ft_menu() to ft_frame_end().
Frame(s, p) ==
  [name |-> s.name, content |-> s.content, at |-> IF p.visible THEN p.x ELSE Hidden, hover |-> ft_hover(s.content, p)]
\* ft_pointer_frame(): the kept frame.
PointerFrame(p) == [shown EXCEPT !.at = IF p.visible THEN p.x ELSE Hidden]

\* ft_mouse_reset() of the browser when it opens.
Reset(p) == [p EXCEPT !.rem = 0, !.visible = FALSE, !.pending = FALSE]

MouseInit ==
  /\ mouse = NoMoves /\ core_mouse = [sum |-> 0, buttons |-> FALSE, said |-> FALSE]
  /\ ptr = [x |-> 0, rem |-> 0, visible |-> FALSE, pending |-> FALSE, buttons |-> FALSE]
  /\ ft_screen \in [name : {"browser"}, content : {0}, speed : Speeds, cores : BOOLEAN]
  /\ shown = Frame(ft_screen, ptr)
  /\ mousePast = [reports |-> 0, keys |-> 0, moved |-> 0, asked |-> 0, all |-> 0, down |-> FALSE, act |-> FALSE]

-----------------------------------------------------------------------------
(* core1.                                                                  *)

mouse_add(d, b) ==
  mouse' = [d |-> mouse.d + d, buttons |-> b, pressed |-> mouse.pressed \/ (b /\ ~mouse.buttons), changed |-> TRUE]

\* process_mouse_report(), _ext(): a report that changes nothing is dropped.
process_mouse_report ==
  /\ mousePast.reports < MaxMouseReports
  /\ \E d \in Deltas \cup {0}, b \in BOOLEAN :
       /\ mouse_add(d, b)
       /\ core_mouse' = IF d # 0 \/ b # core_mouse.said
                        THEN [sum |-> core_mouse.sum + Signed(d % ByteRange), buttons |-> b, said |-> b]
                        ELSE core_mouse
       /\ mousePast' = [mousePast EXCEPT !.reports = @ + 1, !.all = @ + d, !.down = @ \/ (b /\ ~mouse.buttons)]
  /\ UNCHANGED <<ptr, ft_screen, shown>>

-----------------------------------------------------------------------------
(* APP: the poll of a screen's tick and what the screen does with it.      *)

\* scale(), the remainder kept; the mutant forgets it.
scale_rounds(d) == [step |-> Quot(d * ft_screen.speed + ptr.rem), rem |-> 0]
scale(d) ==
  LET v == d * ft_screen.speed + ptr.rem
  IN [step |-> Quot(v), rem |-> v - 4 * Quot(v)]

\* ft_mouse_poll(): late, the pointer has not moved for HIDE_MS; due, FRAME_MS have passed.
poll(late, due) ==
  LET s    == scale(mouse.d)
      here == mouse.changed /\ (s.step # 0 \/ mouse.pressed)
      p    == IF ~mouse.changed THEN ptr
              ELSE [ptr EXCEPT !.x = IF s.step # 0 THEN Clip(@ + s.step) ELSE @, !.rem = s.rem,
                               !.visible = @ \/ here, !.buttons = mouse.buttons,
                               !.pending = @ \/ s.step # 0 \/ (here /\ ~ptr.visible)]
      q    == IF p.visible /\ late /\ ~here THEN [p EXCEPT !.visible = FALSE, !.pending = TRUE] ELSE p
  IN [ptr |-> [q EXCEPT !.pending = @ /\ ~due], moved |-> q.pending /\ due,
      pressed |-> mouse.changed /\ ptr.visible /\ mouse.pressed, step |-> IF mouse.changed THEN s.step ELSE 0]

\* What a click does: something else is shown, another screen or speed.
Clicked(id) ==
  IF id = NoHit THEN {ft_screen}
  ELSE [name : Screens, content : {0, 1}, speed : Speeds, cores : {ft_screen.cores}]

\* The screen that opens hides the pointer, the browser drops the moves too.
Opened(p, name) == IF name = "browser" THEN Reset(p) ELSE [p EXCEPT !.visible = FALSE]

\* What the screen does with what the poll says.
ft_tick(e) ==
  LET p == e.ptr
  IN /\ IF e.pressed
        THEN \E to \in Clicked(ft_hover(shown.content, p)) :
               LET r == IF to.name # ft_screen.name THEN Opened(p, to.name) ELSE p
               IN ft_screen' = to /\ ptr' = r /\ shown' = Frame(to, r)
        ELSE /\ ft_screen' = ft_screen /\ ptr' = p
             /\ shown' = IF ft_hover(shown.content, p) # shown.hover THEN Frame(ft_screen, p)
                         ELSE IF e.moved THEN PointerFrame(p) ELSE shown
     /\ mouse' = [mouse EXCEPT !.d = 0, !.pressed = FALSE, !.changed = FALSE]
     /\ mousePast' =
          LET back == ft_screen'.name = "browser" /\ ft_screen.name # "browser"
          IN [mousePast EXCEPT !.moved = IF back THEN 0 ELSE @ + e.step,
                               !.asked = IF back THEN 0 ELSE @ + mouse.d * ft_screen.speed,
                               !.down = FALSE, !.act = e.pressed /\ ~ptr.visible]
     /\ UNCHANGED core_mouse

mouse_tick == \E late, due \in BOOLEAN : ft_tick(poll(late, due))

\* A key hides the pointer; the browser draws for it only if it has cores.
Key ==
  /\ mousePast.keys < MaxMouseKeys
  /\ \E to \in Clicked("key") :
       LET hid  == [ptr EXCEPT !.visible = FALSE]
           back == to.name = "browser" /\ ft_screen.name # "browser"
           r    == IF back THEN Reset(hid) ELSE hid
       IN /\ ft_screen.name = "browser" /\ ~ft_screen.cores => to.content = ft_screen.content /\ to.speed = ft_screen.speed
          /\ ft_screen' = to /\ ptr' = r
          /\ shown' = IF ft_screen.name = "browser" /\ to.name = "browser" /\ ~ft_screen.cores THEN shown ELSE Frame(to, r)
          /\ mouse' = IF back THEN [mouse EXCEPT !.d = 0, !.pressed = FALSE, !.changed = FALSE] ELSE mouse
          /\ mousePast' = [mousePast EXCEPT !.keys = @ + 1, !.moved = IF back THEN 0 ELSE @,
                                            !.asked = IF back THEN 0 ELSE @, !.down = IF back THEN FALSE ELSE @]
  /\ UNCHANGED core_mouse

MouseNext == process_mouse_report \/ mouse_tick \/ Key

MouseSpec == MouseInit /\ [][MouseNext]_mouseVars

-----------------------------------------------------------------------------
(* Properties.                                                             *)

\* The pointer goes as far as the mouse did, however the reports are summed up:
\* what is less than a place is kept.
MovesSum == 4 * mousePast.moved + ptr.rem = mousePast.asked

\* A press between two takes is not lost although the button is up again, and a
\* hidden pointer never clicks.
PressesKept == mouse.pressed = mousePast.down /\ ~mousePast.act

\* With no redraw pending the display has the pointer where it is and the frame of
\* the screen, its area highlighted, but for a browser without cores after a key.
ShownIsTrue ==
  /\ shown.name = ft_screen.name /\ shown.content = ft_screen.content
  /\ ~ptr.pending /\ (ft_screen.cores \/ mousePast.keys = 0) => shown = Frame(ft_screen, ptr)

\* The core sums up the same moves, while a report has no more than a byte: one of
\* 16 bits reaches the core turned around.
CoreMoves == core_mouse.sum = mousePast.all /\ core_mouse.buttons = mouse.buttons

PointerRight == MovesSum /\ PressesKept /\ ShownIsTrue /\ CoreMoves
=============================================================================
