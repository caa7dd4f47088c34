---------------------------- MODULE SetupScreens ----------------------------
(***************************************************************************)
(* The settings of karabas.ini and the screens that edit them: the text    *)
(* one (app_settings.c, app_setup.c, app_rtc.c) and the graphic one of the *)
(* FT812 (app_ft_setup.c) with its page for the clock (clock_edit.c).      *)
(*                                                                         *)
(* A screen edits a copy of hw_setup.  A change shows at once: the matrix  *)
(* is set up with the copy, a video mode is tried with a way back.  Save   *)
(* writes karabas.ini; Cancel, Esc and every other way out drop the copy.  *)
(* Of the settings there are four: the video mode, what the matrix shows,  *)
(* the order of the cores and a color; the time zone is saved by the clock *)
(* page behind the back of the copy.  Layout is left out.                  *)
(***************************************************************************)
EXTENDS Integers

CONSTANTS
  VideoModes,  \* the modes of ft_mode_count()
  BadModes     \* those in which the FT812 does not come up here

ASSUME SetupAssumption == BadModes \subseteq VideoModes /\ VideoModes \ BadModes # {}

Bit == {0, 1}
Setup == [mode : VideoModes, matrix : Bit, sort : Bit, color : Bit, tz : Bit]

VARIABLES
  hw_setup,    \* what the firmware works with
  ini,         \* what karabas.ini has
  shown,       \* the values in effect: [mode (of the FT812), matrix, sort, preview]
  graphic,     \* has_ft: the menu is the FT812's
  screen_at,   \* "browser", "setup", "settings", "rtc", "ft_setup"
  s,           \* the edited copy
  pane,        \* focus of the graphic setup: [on, tab, mx, dialog, left]
  modes,       \* [cur, old, pick]: mode_cur, mode_old, mode_pick
  color_old,
  edit_tz      \* the zone picked on the clock page

setupVars == <<hw_setup, ini, shown, graphic, screen_at, s, pane, modes, color_old, edit_tz>>

Tabs == {"page", "clock", "save", "cancel"}
Panes == [on : {"tabs", "page", "color", "dialog", "custom"}, tab : Tabs, mx : BOOLEAN,
          dialog : {"mode", "drop"}, left : BOOLEAN]

SetupTypeOK ==
  /\ {hw_setup, ini, s} \subseteq Setup
  /\ shown \in [mode : VideoModes, matrix : Bit, sort : Bit, preview : BOOLEAN]
  /\ graphic \in BOOLEAN /\ pane \in Panes
  /\ screen_at \in {"browser", "setup", "settings", "rtc", "ft_setup"}
  /\ modes \in [{"cur", "old", "pick"} -> VideoModes]
  /\ color_old \in Bit /\ edit_tz \in Bit

\* What a screen keeps of its last use is not read again: it is reset here.
AnyMode == CHOOSE m \in VideoModes : TRUE
NoModes == [k \in {"cur", "old", "pick"} |-> AnyMode]

TopPane == [on |-> "tabs", tab |-> "page", mx |-> FALSE, dialog |-> "drop", left |-> FALSE]

SetupInit ==
  /\ hw_setup \in [mode : VideoModes, matrix : {0}, sort : {0}, color : {0}, tz : {0}]
  /\ ini = hw_setup /\ s = hw_setup
  /\ shown = [mode |-> hw_setup.mode, matrix |-> 0, sort |-> 0, preview |-> FALSE]
  /\ graphic = (hw_setup.mode \notin BadModes)
  /\ screen_at = "browser" /\ pane = TopPane
  /\ modes = NoModes
  /\ color_old = 0 /\ edit_tz = 0

-----------------------------------------------------------------------------
\* The browser: S, the Setup button; Space leaves the graphic menu, G starts it.
OpenSetup ==
  /\ screen_at = "browser"
  /\ IF graphic
     THEN /\ screen_at' = "ft_setup" /\ s' = hw_setup /\ pane' = [TopPane EXCEPT !.mx = pane.mx]
          /\ shown' = [shown EXCEPT !.matrix = hw_setup.matrix, !.preview = FALSE]
          /\ modes' = [modes EXCEPT !["cur"] = hw_setup.mode, !["pick"] = hw_setup.mode]
     ELSE screen_at' = "setup" /\ UNCHANGED <<s, pane, shown, modes>>
  /\ UNCHANGED <<hw_setup, ini, graphic, color_old, edit_tz>>

GraphicMenu ==
  /\ screen_at = "browser"
  /\ graphic' = (~graphic /\ hw_setup.mode \notin BadModes)
  /\ shown' = IF graphic' THEN [shown EXCEPT !.mode = hw_setup.mode] ELSE shown
  /\ UNCHANGED <<hw_setup, ini, screen_at, s, pane, modes, color_old, edit_tz>>

-----------------------------------------------------------------------------
\* save_setup(): nothing to write, written, or karabas.ini stays as it is.  The
\* matrix and the order of the cores follow at once.
\* Mutant: the firmware takes the values over before they are in the file.
save_setup_first(new, ok) ==
  /\ ini' = IF ok THEN new ELSE ini
  /\ hw_setup' = new
save_setup(new, ok) ==
  /\ ini' = IF ok THEN new ELSE ini
  /\ hw_setup' = IF ok THEN new ELSE hw_setup

SavedShown(old, new, ok) ==
  IF new = old \/ ~ok THEN shown
  ELSE [shown EXCEPT !.matrix = new.matrix, !.sort = IF new.sort # old.sort THEN new.sort ELSE @]

Saves(old, new) == {ok \in BOOLEAN : new = old => ok}

\* settings_end()
Dropped(sh) == [sh EXCEPT !.matrix = hw_setup.matrix, !.preview = FALSE]

\* settings_change(): the next value; the matrix shows its own at once.
settings_change(id) ==
  \E v \in Bit :
    /\ s' = [s EXCEPT ![id] = v]
    /\ shown' = [shown EXCEPT !.matrix = IF id = "matrix" THEN v ELSE @]

-----------------------------------------------------------------------------
(* The text screens.                                                       *)

app_setup_on_keyboard ==
  /\ screen_at = "setup"
  /\ \/ /\ screen_at' = "settings" /\ s' = hw_setup
        /\ shown' = Dropped(shown) /\ UNCHANGED edit_tz
     \/ screen_at' = "rtc" /\ edit_tz' = hw_setup.tz /\ UNCHANGED <<s, shown>>
     \/ screen_at' = "browser" /\ UNCHANGED <<s, shown, edit_tz>>
  /\ UNCHANGED <<hw_setup, ini, graphic, pane, modes, color_old>>

SettingsChange ==
  /\ screen_at = "settings"
  /\ \/ \E id \in {"matrix", "sort"} : settings_change(id)
     \/ \E m \in VideoModes : s' = [s EXCEPT !.mode = m] /\ UNCHANGED shown
  /\ UNCHANGED <<hw_setup, ini, graphic, screen_at, pane, modes, color_old, edit_tz>>

\* The Matrix effects page is opened or left with Esc.
SettingsPage ==
  /\ screen_at = "settings" /\ shown' = [shown EXCEPT !.preview = ~@]
  /\ UNCHANGED <<hw_setup, ini, graphic, screen_at, s, pane, modes, color_old, edit_tz>>

SettingsSave ==
  /\ screen_at = "settings" /\ ~shown.preview
  /\ \E ok \in Saves(hw_setup, s) :
       /\ save_setup(s, ok) /\ shown' = SavedShown(hw_setup, s, ok)
       /\ screen_at' = IF ok THEN "setup" ELSE "settings"
  /\ UNCHANGED <<graphic, s, pane, modes, color_old, edit_tz>>

\* Mutant: Esc leaves without settings_end().
settings_left_as_is == UNCHANGED shown
settings_left == shown' = Dropped(shown)

SettingsCancel ==
  /\ screen_at = "settings" /\ ~shown.preview
  /\ screen_at' = "setup" /\ settings_left /\ s' = hw_setup
  /\ UNCHANGED <<hw_setup, ini, graphic, pane, modes, color_old, edit_tz>>

-----------------------------------------------------------------------------
(* The clock, on its own screen or as a page of the graphic setup.         *)

clock_open == screen_at = "rtc" \/ (screen_at = "ft_setup" /\ pane.on = "custom")

ce_tz_step ==
  /\ clock_open /\ edit_tz' \in Bit
  /\ UNCHANGED <<hw_setup, ini, shown, graphic, screen_at, s, pane, modes, color_old>>

\* ce_save_tz(): hw_setup with the zone is saved, not the copy, which gets it too.
\* Mutant: the copy of the graphic setup does not.
app_ft_setup_tz_saved_not(tz) == s' = s
app_ft_setup_tz_saved(tz) == s' = [s EXCEPT !.tz = tz]

ce_save_tz ==
  /\ clock_open /\ edit_tz # hw_setup.tz
  /\ LET new == [hw_setup EXCEPT !.tz = edit_tz]
     IN \E ok \in BOOLEAN :
          /\ save_setup(new, ok) /\ shown' = SavedShown(hw_setup, new, ok)
          /\ IF ok THEN app_ft_setup_tz_saved(edit_tz) ELSE s' = s
  /\ UNCHANGED <<graphic, screen_at, pane, modes, color_old, edit_tz>>

RtcLeave ==
  /\ screen_at = "rtc" /\ screen_at' = "setup" /\ edit_tz' = 0
  /\ UNCHANGED <<hw_setup, ini, shown, graphic, s, pane, modes, color_old>>

-----------------------------------------------------------------------------
(* The graphic setup.  Each action ends with its redraw: the preview of    *)
(* the matrix follows the focus.                                           *)

ft_open == screen_at = "ft_setup"

app_ft_setup_draw(sh, p) == [sh EXCEPT !.preview = p.on = "page" /\ p.mx]

\* set_mode(): a mode that does not come up leaves the one before.
set_mode(cur, m) == IF m \in BadModes THEN cur ELSE m

\* leave(): the mode goes back if it is not the one that is kept.
\* Mutant: the mode that was tried stays.
leave_mode_stays(hw, sh) == [Dropped(sh) EXCEPT !.matrix = hw.matrix]
leave_mode(hw, sh) ==
  [Dropped(sh) EXCEPT !.matrix = hw.matrix,
     !.mode = IF modes["cur"] # hw.mode THEN set_mode(modes["cur"], hw.mode) ELSE @]

leave(hw) ==
  /\ screen_at' = "browser"
  /\ pane' = TopPane /\ modes' = NoModes /\ s' = hw /\ color_old' = 0 /\ edit_tz' = 0

\* What can be clicked: the dialog alone, or the tabs and what the panel has.
areas ==
  IF pane.on = "dialog" THEN {"left", "right"}
  ELSE {"tab"} \cup (IF pane.on = "color" THEN {"slider"}
                     ELSE IF pane.tab = "page" THEN {"row"}
                     ELSE IF pane.tab = "clock" /\ pane.on = "tabs" THEN {"panel"} ELSE {})

\* open_tab() of a page: with the keys, or a click on its panel or its rows.
OpenPage ==
  /\ ft_open /\ pane.tab \in {"page", "clock"}
  /\ pane.on = "tabs" \/ "row" \in areas
  /\ pane' = [pane EXCEPT !.on = IF pane.tab = "clock" THEN "custom" ELSE "page",
                          !.mx = IF pane.tab = "clock" THEN @
                                 ELSE pane.on = "page" /\ @]
  /\ edit_tz' = IF pane.tab = "clock" THEN hw_setup.tz ELSE edit_tz
  /\ modes' = [modes EXCEPT !["pick"] = IF pane.tab = "clock" THEN @ ELSE s.mode]
  /\ shown' = app_ft_setup_draw(shown, pane')
  /\ UNCHANGED <<hw_setup, ini, graphic, screen_at, s, color_old>>

\* Up, Down, Tab, the wheel or a click on a section.
PickTab ==
  /\ ft_open /\ (pane.on = "tabs" \/ "tab" \in areas)
  /\ \E t \in {"page", "clock"} : pane' = [pane EXCEPT !.on = "tabs", !.tab = t, !.mx = FALSE]
  /\ shown' = app_ft_setup_draw(shown, pane') /\ color_old' = 0 /\ edit_tz' = 0
  /\ UNCHANGED <<hw_setup, ini, graphic, screen_at, s, modes>>

Save ==
  /\ ft_open /\ "tab" \in areas
  /\ \E ok \in Saves(hw_setup, s) :
       /\ save_setup(s, ok)
       /\ IF ok THEN /\ leave(s)
                     /\ shown' = leave_mode(s, SavedShown(hw_setup, s, ok))
          ELSE /\ pane' = [pane EXCEPT !.on = "tabs", !.tab = "save", !.mx = FALSE]
               /\ shown' = app_ft_setup_draw(shown, pane') 
               /\ UNCHANGED <<screen_at, modes, s, color_old, edit_tz>>
  /\ UNCHANGED graphic

\* The Cancel tab; Esc, Left or the right button on the tabs when nothing
\* differs; Enter on Drop.  settings_differ() does not look at the zone.
settings_differ == [s EXCEPT !.tz = 0] # [hw_setup EXCEPT !.tz = 0]
Cancel ==
  /\ ft_open
  /\ \/ "tab" \in areas
     \/ pane.on = "dialog" /\ pane.dialog = "drop" /\ pane.left
  /\ leave(hw_setup) /\ shown' = leave_mode(hw_setup, shown)
  /\ UNCHANGED <<hw_setup, ini, graphic>>

AskDrop ==
  /\ ft_open /\ pane.on = "tabs" /\ settings_differ
  /\ pane' = [pane EXCEPT !.on = "dialog", !.dialog = "drop", !.left = FALSE]
  /\ UNCHANGED <<hw_setup, ini, shown, graphic, screen_at, s, modes, color_old, edit_tz>>

\* A row: the next value, the page of the matrix effects or the next mode to try.
ChangeRow ==
  /\ ft_open /\ "row" \in areas
  /\ \/ /\ settings_change(IF pane.mx THEN "matrix" ELSE "sort")
        /\ pane' = [pane EXCEPT !.on = "page"] /\ UNCHANGED modes
     \/ /\ ~pane.mx /\ pane' = [pane EXCEPT !.on = "page", !.mx = TRUE]
        /\ shown' = app_ft_setup_draw(shown, pane') /\ UNCHANGED <<s, modes>>
     \/ /\ ~pane.mx /\ pane' = [pane EXCEPT !.on = "page"]
        /\ \E m \in VideoModes : modes' = [modes EXCEPT !["pick"] = m]
        /\ UNCHANGED <<s, shown>>
  /\ UNCHANGED <<hw_setup, ini, graphic, screen_at, color_old, edit_tz>>

\* Esc or the right button on a page: from the matrix effects, then to the tabs.
PageBack ==
  /\ ft_open /\ pane.on = "page"
  /\ pane' = IF pane.mx THEN [pane EXCEPT !.mx = FALSE] ELSE [pane EXCEPT !.on = "tabs"]
  /\ shown' = app_ft_setup_draw(shown, pane')
  /\ UNCHANGED <<hw_setup, ini, graphic, screen_at, s, modes, color_old, edit_tz>>

ClockBack ==
  /\ ft_open /\ pane.on = "custom"
  /\ pane' = [pane EXCEPT !.on = "tabs", !.mx = FALSE] /\ edit_tz' = 0
  /\ UNCHANGED <<hw_setup, ini, shown, graphic, screen_at, s, modes, color_old>>

EnterColor ==
  /\ ft_open /\ pane.on = "page" /\ ~pane.mx
  /\ pane' = [pane EXCEPT !.on = "color"] /\ color_old' = s.color
  /\ UNCHANGED <<hw_setup, ini, shown, graphic, screen_at, s, modes, edit_tz>>

change_color ==
  /\ ft_open /\ pane.on = "color" /\ s' \in {[s EXCEPT !.color = c] : c \in Bit}
  /\ UNCHANGED <<hw_setup, ini, shown, graphic, screen_at, pane, modes, color_old, edit_tz>>

ColorEnd ==
  /\ ft_open /\ pane.on = "color" /\ pane' = [pane EXCEPT !.on = "page"]
  /\ s' \in {s, [s EXCEPT !.color = color_old]} /\ color_old' = 0
  /\ UNCHANGED <<hw_setup, ini, shown, graphic, screen_at, modes, edit_tz>>

TryMode ==
  /\ ft_open /\ pane.on = "page" /\ ~pane.mx /\ modes["pick"] # modes["cur"]
  /\ LET now == set_mode(modes["cur"], modes["pick"])
     IN /\ modes' = [modes EXCEPT !["cur"] = now,
                             !["old"] = IF now = modes["pick"] THEN modes["cur"] ELSE @]
        /\ shown' = [shown EXCEPT !.mode = now]
        /\ pane' = IF now # modes["pick"] THEN pane
                   ELSE [pane EXCEPT !.on = "dialog", !.dialog = "mode", !.left = FALSE]
  /\ UNCHANGED <<hw_setup, ini, graphic, screen_at, s, color_old, edit_tz>>

DialogSide ==
  /\ ft_open /\ pane.on = "dialog" /\ pane' = [pane EXCEPT !.left = ~@]
  /\ UNCHANGED <<hw_setup, ini, shown, graphic, screen_at, s, modes, color_old, edit_tz>>

KeepMode ==
  /\ ft_open /\ pane.on = "dialog" /\ pane.dialog = "mode" /\ pane.left
  /\ s' = [s EXCEPT !.mode = modes["cur"]] /\ pane' = [pane EXCEPT !.on = "page"]
  /\ modes' = [modes EXCEPT !["old"] = AnyMode]
  /\ UNCHANGED <<hw_setup, ini, shown, graphic, screen_at, color_old, edit_tz>>

\* Revert, Esc, the right button or 10 s without an answer.
RevertMode ==
  /\ ft_open /\ pane.on = "dialog" /\ pane.dialog = "mode"
  /\ LET now == set_mode(modes["cur"], modes["old"])
     IN modes' = [modes EXCEPT !["cur"] = now, !["old"] = AnyMode] /\ shown' = [shown EXCEPT !.mode = now]
  /\ pane' = [pane EXCEPT !.on = "page"]
  /\ UNCHANGED <<hw_setup, ini, graphic, screen_at, s, color_old, edit_tz>>

StayHere ==
  /\ ft_open /\ pane.on = "dialog" /\ pane.dialog = "drop"
  /\ pane' = [pane EXCEPT !.on = "tabs"]
  /\ UNCHANGED <<hw_setup, ini, shown, graphic, screen_at, s, modes, color_old, edit_tz>>

\* The reload button: the boot core comes again, the screen that is open starts anew.
Reload ==
  /\ screen_at # "browser" /\ (graphic => hw_setup.mode \notin BadModes)
  /\ s' = IF screen_at \in {"settings", "ft_setup"} THEN hw_setup ELSE s
  /\ pane' = IF ft_open THEN [TopPane EXCEPT !.mx = pane.mx] ELSE pane
  /\ shown' = [shown EXCEPT !.mode = IF graphic THEN hw_setup.mode ELSE @,
                 !.matrix = IF screen_at \in {"settings", "ft_setup"} THEN hw_setup.matrix ELSE @,
                 !.preview = FALSE]
  /\ modes' = IF ft_open THEN [k \in {"cur", "old", "pick"} |-> IF k = "old" THEN AnyMode ELSE hw_setup.mode]
              ELSE modes
  /\ edit_tz' = IF screen_at = "rtc" THEN hw_setup.tz ELSE 0
  /\ color_old' = 0
  /\ UNCHANGED <<hw_setup, ini, graphic, screen_at>>

SetupNext ==
  \/ OpenSetup \/ GraphicMenu \/ app_setup_on_keyboard
  \/ SettingsChange \/ SettingsPage \/ SettingsSave \/ SettingsCancel
  \/ ce_tz_step \/ ce_save_tz \/ RtcLeave
  \/ OpenPage \/ PickTab \/ Save \/ Cancel \/ AskDrop \/ ChangeRow \/ PageBack \/ ClockBack
  \/ EnterColor \/ change_color \/ ColorEnd
  \/ TryMode \/ DialogSide \/ KeepMode \/ RevertMode \/ StayHere \/ Reload
SetupSpec == SetupInit /\ [][SetupNext]_setupVars

-----------------------------------------------------------------------------
\* Nothing that was not saved lives on: outside the screens that edit settings
\* the FT812 runs the mode, the matrix shows the look and the cores have the
\* order of karabas.ini, whatever was tried, previewed, refused by the card or
\* dropped before; in the graphic setup a mode that was not confirmed runs only
\* while its dialog is open, and Save never takes back the time zone that the
\* clock page has saved (settings_end(), leave(), app_ft_setup_tz_saved()).
SettingsHonest ==
  /\ hw_setup = ini /\ shown.sort = ini.sort
  /\ screen_at \notin {"settings", "ft_setup"} =>
       /\ shown.matrix = ini.matrix /\ ~shown.preview
       /\ graphic => shown.mode = ini.mode
  /\ screen_at = "ft_setup" =>
       /\ modes["cur"] = shown.mode /\ s.tz = ini.tz
       /\ shown.mode # s.mode => pane.on = "dialog" /\ pane.dialog = "mode"
=============================================================================
