------------------------------ MODULE MenuProofs ------------------------------
(***************************************************************************)
(* Theorems of the screens, for all video modes, lists and files: what the *)
(* setup screens leave behind is what karabas.ini has, the file a core     *)
(* gets by itself is the one that was saved last, the core that starts is  *)
(* the one that was meant, and the scrollbar says where a list is.         *)
(***************************************************************************)
EXTENDS BootMenu, FileLoader, SetupScreens, TLAPS

-----------------------------------------------------------------------------
(* The setup screens.                                                      *)

\* What a screen leaves behind it.  Kept: the firmware has what karabas.ini has,
\* and the graphic menu runs in a mode that comes up.  TextScreens: the matrix
\* shows the copy while the copy is edited.  Outside: SettingsHonest of the other
\* screens.  GraphicSetup: what is tried has a way back, to the mode of the copy,
\* which came up when it was tried, while its dialog is open.
Kept ==
  /\ hw_setup = ini /\ shown.sort = hw_setup.sort
  /\ graphic => hw_setup.mode \notin BadModes
TextScreens ==
  /\ screen_at \in {"setup", "settings", "rtc"} => ~graphic
  /\ screen_at = "settings" => shown.matrix = s.matrix
Outside ==
  screen_at \notin {"settings", "ft_setup"} =>
    /\ shown.matrix = hw_setup.matrix /\ ~shown.preview
    /\ graphic => shown.mode = hw_setup.mode
GraphicSetup ==
  screen_at = "ft_setup" =>
    /\ graphic /\ modes["cur"] = shown.mode /\ s.tz = hw_setup.tz
    /\ s.mode \notin BadModes /\ shown.mode \notin BadModes
    /\ IF pane.on = "dialog" /\ pane.dialog = "mode" THEN modes["old"] = s.mode
       ELSE shown.mode = s.mode
SetupInv == SetupTypeOK /\ Kept /\ TextScreens /\ Outside /\ GraphicSetup

ShownValues == [mode : VideoModes, matrix : Bit, sort : Bit, preview : BOOLEAN]
ModeFields == [{"cur", "old", "pick"} -> VideoModes]

\* AnyMode is a mode: there is one.
LEMMA ModesFacts == AnyMode \in VideoModes /\ NoModes \in ModeFields
<1>1. PICK m \in VideoModes : m \notin BadModes
  BY SetupAssumption
<1>2. AnyMode \in VideoModes
  BY <1>1 DEF AnyMode
<1> QED
  BY <1>2 DEF NoModes, ModeFields

\* The focus that a screen starts with.
LEMMA TopPaneFacts ==
  /\ TopPane \in Panes /\ TopPane.on = "tabs"
  /\ \A b \in BOOLEAN : [TopPane EXCEPT !.mx = b] \in Panes /\ [TopPane EXCEPT !.mx = b].on = "tabs"
BY DEF TopPane, Panes, Tabs

\* A copy of the settings with another value of one of them.
LEMMA SetupUpdates ==
  \A x \in Setup :
    /\ x.mode \in VideoModes /\ x.matrix \in Bit /\ x.sort \in Bit /\ x.color \in Bit /\ x.tz \in Bit
    /\ \A m \in VideoModes : [x EXCEPT !.mode = m] \in Setup
    /\ \A b \in Bit : /\ [x EXCEPT !.color = b] \in Setup
                      /\ [x EXCEPT !.tz = b] \in Setup
                      /\ [x EXCEPT !.matrix = b] \in Setup
                      /\ [x EXCEPT !.sort = b] \in Setup
BY DEF Setup

\* What is in effect, with another value.
LEMMA ShownUpdates ==
  \A x \in ShownValues :
    /\ x.mode \in VideoModes /\ x.matrix \in Bit /\ x.sort \in Bit /\ x.preview \in BOOLEAN
    /\ \A m \in VideoModes : [x EXCEPT !.mode = m] \in ShownValues
    /\ \A p \in BOOLEAN : [x EXCEPT !.preview = p] \in ShownValues
    /\ \A b \in Bit : /\ [x EXCEPT !.matrix = b] \in ShownValues
                      /\ [x EXCEPT !.matrix = b, !.preview = FALSE] \in ShownValues
    /\ \A b, c \in Bit : [x EXCEPT !.matrix = b, !.sort = c] \in ShownValues
    /\ \A m \in VideoModes, b \in Bit :
         /\ [x EXCEPT !.mode = m, !.matrix = b, !.preview = FALSE] \in ShownValues
         /\ [x EXCEPT !.matrix = b, !.mode = m] \in ShownValues
BY DEF ShownValues

\* The fields of the state that the steps read.
LEMMA SetupFields ==
  ASSUME SetupTypeOK
  PROVE  /\ hw_setup \in Setup /\ ini \in Setup /\ s \in Setup
         /\ shown \in ShownValues /\ pane \in Panes /\ modes \in ModeFields
         /\ pane.mx \in BOOLEAN /\ pane.left \in BOOLEAN
         /\ modes["cur"] \in VideoModes /\ modes["old"] \in VideoModes /\ modes["pick"] \in VideoModes
         /\ edit_tz \in Bit /\ color_old \in Bit
BY DEF SetupTypeOK, ShownValues, Panes, ModeFields

\* settings_end() drops what was previewed.
LEMMA DroppedFields ==
  ASSUME hw_setup \in Setup, NEW sh \in ShownValues
  PROVE  /\ Dropped(sh) \in ShownValues
         /\ Dropped(sh).mode = sh.mode /\ Dropped(sh).sort = sh.sort
         /\ Dropped(sh).matrix = hw_setup.matrix /\ Dropped(sh).preview = FALSE
<1>1. Dropped(sh) \in ShownValues
  BY ShownUpdates, SetupUpdates DEF Dropped
<1> QED
  BY <1>1 DEF Dropped, ShownValues

\* What save_setup() shows: what it saved, or what was there.
LEMMA SavedShownFields ==
  ASSUME shown \in ShownValues, NEW old \in Setup, NEW new \in Setup, NEW ok \in BOOLEAN
  PROVE  LET sh == SavedShown(old, new, ok)
         IN /\ sh \in ShownValues
            /\ sh.mode = shown.mode /\ sh.preview = shown.preview
            /\ sh.matrix = IF new = old \/ ~ok THEN shown.matrix ELSE new.matrix
            /\ sh.sort = IF new.sort = old.sort \/ ~ok THEN shown.sort ELSE new.sort
<1> DEFINE sh == SavedShown(old, new, ok)
<1>1. CASE new = old \/ ~ok
  BY <1>1 DEF SavedShown
<1>2. CASE ~(new = old \/ ~ok)
  <2> DEFINE v == IF new.sort # old.sort THEN new.sort ELSE shown.sort
  <2>1. v \in Bit /\ new.matrix \in Bit
    BY SetupUpdates, ShownUpdates
  <2>2. sh = [shown EXCEPT !.matrix = new.matrix, !.sort = v]
    BY <1>2 DEF SavedShown, ShownValues
  <2> HIDE DEF sh
  <2>3. sh \in ShownValues
    BY <2>1, <2>2, ShownUpdates
  <2>4. sh.mode = shown.mode /\ sh.preview = shown.preview /\ sh.matrix = new.matrix /\ sh.sort = v
    BY <2>2, <2>3 DEF ShownValues
  <2> QED
    BY <1>2, <2>3, <2>4 DEF sh
<1> QED
  BY <1>1, <1>2

\* leave() drops what was previewed and goes back to the mode that is kept.
LEMMA LeaveModeFields ==
  ASSUME SetupTypeOK, NEW hw \in Setup, NEW sh \in ShownValues
  PROVE  LET end == leave_mode(hw, sh)
         IN /\ end \in ShownValues
            /\ end.sort = sh.sort /\ end.matrix = hw.matrix /\ end.preview = FALSE
            /\ end.mode = IF modes["cur"] # hw.mode THEN set_mode(modes["cur"], hw.mode) ELSE sh.mode
<1> DEFINE end == leave_mode(hw, sh)
           m == IF modes["cur"] # hw.mode THEN set_mode(modes["cur"], hw.mode) ELSE sh.mode
<1>1. m \in VideoModes /\ hw.matrix \in Bit
  BY SetupFields, SetupUpdates, ShownUpdates DEF set_mode
<1>2. /\ Dropped(sh) \in ShownValues /\ Dropped(sh).sort = sh.sort /\ Dropped(sh).preview = FALSE
      /\ Dropped(sh).mode = sh.mode
  BY SetupFields, DroppedFields
<1>3. end = [Dropped(sh) EXCEPT !.matrix = hw.matrix, !.mode = m]
  BY <1>2 DEF leave_mode, ShownValues
<1> HIDE DEF end, m
<1>4. end \in ShownValues
  BY <1>1, <1>2, <1>3, ShownUpdates
<1>5. end.sort = sh.sort /\ end.matrix = hw.matrix /\ end.preview = FALSE /\ end.mode = m
  BY <1>2, <1>3, <1>4 DEF ShownValues
<1> QED
  BY <1>4, <1>5 DEF end, m

\* A change of the matrix or of the order: the copy gets it, and the matrix shows it.
LEMMA SettingsChangeFields ==
  ASSUME SetupTypeOK, NEW id \in {"matrix", "sort"}, settings_change(id)
  PROVE  /\ s' \in Setup /\ shown' \in ShownValues
         /\ s'.mode = s.mode /\ s'.tz = s.tz
         /\ shown'.mode = shown.mode /\ shown'.sort = shown.sort /\ shown'.preview = shown.preview
         /\ shown.matrix = s.matrix => shown'.matrix = s'.matrix
<1>1. PICK v \in Bit : /\ s' = [s EXCEPT ![id] = v]
                       /\ shown' = [shown EXCEPT !.matrix = IF id = "matrix" THEN v ELSE shown.matrix]
  BY SetupFields DEF settings_change, ShownValues
<1>2. /\ s \in Setup /\ shown \in ShownValues /\ shown.matrix \in Bit
      /\ (IF id = "matrix" THEN v ELSE shown.matrix) \in Bit
  BY SetupFields, ShownUpdates
<1>3. shown' \in ShownValues /\ s' \in Setup
  <2>1. shown' \in ShownValues
    BY <1>1, <1>2, ShownUpdates
  <2>2. CASE id = "matrix"
    BY <1>1, <1>2, <2>1, <2>2, SetupUpdates
  <2>3. CASE id = "sort"
    BY <1>1, <1>2, <2>1, <2>3, SetupUpdates
  <2> QED
    BY <2>2, <2>3
<1>4. /\ shown'.mode = shown.mode /\ shown'.sort = shown.sort /\ shown'.preview = shown.preview
      /\ shown'.matrix = IF id = "matrix" THEN v ELSE shown.matrix
  BY <1>1, <1>2, <1>3 DEF ShownValues
<1>5. /\ s'.mode = s.mode /\ s'.tz = s.tz
      /\ s'.matrix = IF id = "matrix" THEN v ELSE s.matrix
  BY <1>1, <1>2, <1>3 DEF Setup
<1> QED
  BY <1>3, <1>4, <1>5

\* The screens start with what karabas.ini has.
LEMMA SetupStarts == SetupInit => SetupInv
<1> SUFFICES ASSUME SetupInit PROVE SetupInv
  OBVIOUS
<1>1. SetupTypeOK
  BY ModesFacts, TopPaneFacts DEF SetupInit, SetupTypeOK, Setup, Bit, ModeFields
<1>2. Kept /\ TextScreens /\ Outside /\ GraphicSetup
  BY DEF SetupInit, Kept, TextScreens, Outside, GraphicSetup
<1> QED
  BY <1>1, <1>2 DEF SetupInv

\* The Setup button opens a screen with a fresh copy.
LEMMA StepOpenSetup == SetupInv /\ OpenSetup => SetupInv'
<1> SUFFICES ASSUME SetupTypeOK, Kept, TextScreens, Outside, GraphicSetup, OpenSetup
             PROVE  SetupInv'
  BY DEF SetupInv
<1>1. s' \in Setup
  BY SetupUpdates, SetupFields DEF OpenSetup
<1>2. shown' \in ShownValues
  BY ShownUpdates, SetupUpdates, SetupFields, ZenonT(60) DEF OpenSetup
<1>3. pane' \in Panes
  BY SetupFields, TopPaneFacts DEF OpenSetup, Panes, Tabs
<1>4. modes' \in ModeFields
  BY SetupFields, ModesFacts, SetupUpdates DEF OpenSetup, ModeFields
<1>5. SetupTypeOK'
  BY <1>1, <1>2, <1>3, <1>4, SetupFields, SetupUpdates DEF OpenSetup, SetupTypeOK, ShownValues,
     ModeFields, Bit
<1>6. Kept'
  BY DEF SetupTypeOK, OpenSetup, Kept, Setup
<1>7. TextScreens'
  BY DEF SetupTypeOK, OpenSetup, TextScreens, Setup
<1>8. Outside'
  BY DEF SetupTypeOK, OpenSetup, Outside, TextScreens, GraphicSetup, Kept, Setup
<1>9. GraphicSetup'
  BY ZenonT(60) DEF SetupTypeOK, OpenSetup, GraphicSetup, Kept, Outside, TopPane, Setup, Panes
<1> QED
  BY <1>5, <1>6, <1>7, <1>8, <1>9 DEF SetupInv

\* The graphic menu is left, or started with the mode that is kept.
LEMMA StepGraphicMenu == SetupInv /\ GraphicMenu => SetupInv'
<1> SUFFICES ASSUME SetupTypeOK, Kept, TextScreens, Outside, GraphicSetup, GraphicMenu
             PROVE  SetupInv'
  BY DEF SetupInv
<1>1. shown' \in ShownValues
  BY ShownUpdates, SetupUpdates, SetupFields DEF GraphicMenu
<1>2. SetupTypeOK'
  BY <1>1, SetupFields, SetupUpdates DEF GraphicMenu, SetupTypeOK, ShownValues, ModeFields, Bit
<1>3. Kept'
  BY DEF SetupTypeOK, GraphicMenu, Kept, Setup
<1>4. TextScreens'
  BY DEF SetupTypeOK, GraphicMenu, TextScreens, Setup
<1>5. Outside'
  BY DEF SetupTypeOK, GraphicMenu, Outside, TextScreens, GraphicSetup, Kept, Setup
<1>6. GraphicSetup'
  BY DEF SetupTypeOK, GraphicMenu, GraphicSetup, Kept, Outside, TopPane, Setup, Panes
<1> QED
  BY <1>2, <1>3, <1>4, <1>5, <1>6 DEF SetupInv

\* From the setup screen to the settings, the clock or back.
LEMMA StepSetupKey == SetupInv /\ app_setup_on_keyboard => SetupInv'
<1> SUFFICES ASSUME SetupTypeOK, Kept, TextScreens, Outside, GraphicSetup, app_setup_on_keyboard
             PROVE  SetupInv'
  BY DEF SetupInv
<1>1. s' \in Setup
  BY SetupUpdates, SetupFields DEF app_setup_on_keyboard, Dropped
<1>2. shown' \in ShownValues
  BY ShownUpdates, SetupUpdates, SetupFields, ZenonT(60) DEF app_setup_on_keyboard, Dropped
<1>3. SetupTypeOK'
  BY <1>1, <1>2, SetupFields, SetupUpdates DEF app_setup_on_keyboard, Dropped, SetupTypeOK,
     ShownValues, ModeFields, Bit
<1>4. Kept'
  BY DEF SetupTypeOK, app_setup_on_keyboard, Dropped, Kept, Setup
<1>5. TextScreens'
  BY DEF SetupTypeOK, app_setup_on_keyboard, Dropped, TextScreens, Setup
<1>6. Outside'
  BY DEF SetupTypeOK, app_setup_on_keyboard, Dropped, Outside, TextScreens, GraphicSetup, Kept,
     Setup
<1>7. GraphicSetup'
  BY DEF SetupTypeOK, app_setup_on_keyboard, Dropped, GraphicSetup, Kept, Outside, TopPane,
     Setup, Panes
<1> QED
  BY <1>3, <1>4, <1>5, <1>6, <1>7 DEF SetupInv

\* A row of the settings changes its value.
LEMMA StepSettingsChange == SetupInv /\ SettingsChange => SetupInv'
<1> SUFFICES ASSUME SetupTypeOK, Kept, TextScreens, Outside, GraphicSetup, SettingsChange
             PROVE  SetupInv'
  BY DEF SetupInv
<1>1. /\ s' \in Setup /\ shown' \in ShownValues
      /\ shown'.sort = shown.sort /\ shown'.matrix = s'.matrix
  <2>1. CASE \E id \in {"matrix", "sort"} : settings_change(id)
    BY <2>1, SettingsChangeFields DEF SettingsChange, TextScreens
  <2>2. CASE \E m \in VideoModes : s' = [s EXCEPT !.mode = m] /\ UNCHANGED shown
    <3>1. PICK m \in VideoModes : s' = [s EXCEPT !.mode = m] /\ UNCHANGED shown
      BY <2>2
    <3>2. s' \in Setup /\ shown' \in ShownValues
      BY <3>1, SetupFields, SetupUpdates
    <3> QED
      BY <3>1, <3>2, SetupFields DEF Setup, SettingsChange, TextScreens
  <2> QED
    BY <2>1, <2>2 DEF SettingsChange
<1>2. SetupTypeOK'
  BY <1>1 DEF SettingsChange, SetupTypeOK, ShownValues
<1>3. Kept' /\ TextScreens' /\ Outside' /\ GraphicSetup'
  BY <1>1 DEF SettingsChange, Kept, TextScreens, Outside, GraphicSetup
<1> QED
  BY <1>2, <1>3 DEF SetupInv

\* The page of the matrix effects previews the matrix.
LEMMA StepSettingsPage == SetupInv /\ SettingsPage => SetupInv'
<1> SUFFICES ASSUME SetupTypeOK, Kept, TextScreens, Outside, GraphicSetup, SettingsPage
             PROVE  SetupInv'
  BY DEF SetupInv
<1>1. shown' \in ShownValues
  BY ShownUpdates, SetupUpdates, SetupFields DEF SettingsPage
<1>2. SetupTypeOK'
  BY <1>1, SetupFields, SetupUpdates DEF SettingsPage, SetupTypeOK, ShownValues, ModeFields, Bit
<1>3. Kept'
  BY DEF SetupTypeOK, SettingsPage, Kept, Setup
<1>4. TextScreens'
  BY DEF SetupTypeOK, SettingsPage, TextScreens, Setup
<1>5. Outside'
  BY DEF SetupTypeOK, SettingsPage, Outside, TextScreens, GraphicSetup, Kept, Setup
<1>6. GraphicSetup'
  BY DEF SetupTypeOK, SettingsPage, GraphicSetup, Kept, Outside, TopPane, Setup, Panes
<1> QED
  BY <1>2, <1>3, <1>4, <1>5, <1>6 DEF SetupInv

\* Save of the text screen: the copy is in karabas.ini, or nothing changed.
LEMMA StepSettingsSave == SetupInv /\ SettingsSave => SetupInv'
<1> SUFFICES ASSUME SetupTypeOK, Kept, TextScreens, Outside, GraphicSetup, SettingsSave
             PROVE  SetupInv'
  BY DEF SetupInv
<1>1. PICK ok \in Saves(hw_setup, s) :
        /\ save_setup(s, ok) /\ shown' = SavedShown(hw_setup, s, ok)
        /\ screen_at' = IF ok THEN "setup" ELSE "settings"
  BY DEF SettingsSave
<1>2. ok \in BOOLEAN /\ (s = hw_setup => ok)
  BY DEF Saves
<1>3. /\ shown' \in ShownValues
      /\ shown'.mode = shown.mode /\ shown'.preview = shown.preview
      /\ shown'.matrix = IF s = hw_setup \/ ~ok THEN shown.matrix ELSE s.matrix
      /\ shown'.sort = IF s.sort = hw_setup.sort \/ ~ok THEN shown.sort ELSE s.sort
  BY <1>1, <1>2, SetupFields, SavedShownFields
<1>4. /\ hw_setup' = (IF ok THEN s ELSE hw_setup) /\ ini' = (IF ok THEN s ELSE ini)
  BY <1>1 DEF save_setup
<1>5. SetupTypeOK'
  BY <1>1, <1>3, <1>4, SetupFields DEF SettingsSave, SetupTypeOK, ShownValues
<1>6. Kept' /\ TextScreens' /\ Outside' /\ GraphicSetup'
  BY <1>1, <1>2, <1>3, <1>4 DEF SettingsSave, Kept, TextScreens, Outside, GraphicSetup
<1> QED
  BY <1>5, <1>6 DEF SetupInv

\* Esc drops the copy and what it shows.
LEMMA StepSettingsCancel == SetupInv /\ SettingsCancel => SetupInv'
<1> SUFFICES ASSUME SetupTypeOK, Kept, TextScreens, Outside, GraphicSetup, SettingsCancel
             PROVE  SetupInv'
  BY DEF SetupInv
<1>1. s' \in Setup
  BY SetupUpdates, SetupFields DEF SettingsCancel, settings_left, Dropped
<1>2. shown' \in ShownValues
  BY ShownUpdates, SetupUpdates, SetupFields DEF SettingsCancel, settings_left, Dropped
<1>3. SetupTypeOK'
  BY <1>1, <1>2, SetupFields, SetupUpdates DEF SettingsCancel, settings_left, Dropped,
     SetupTypeOK, ShownValues, ModeFields, Bit
<1>4. Kept'
  BY DEF SetupTypeOK, SettingsCancel, settings_left, Dropped, Kept, Setup
<1>5. TextScreens'
  BY DEF SetupTypeOK, SettingsCancel, settings_left, Dropped, TextScreens, Setup
<1>6. Outside'
  BY DEF SetupTypeOK, SettingsCancel, settings_left, Dropped, Outside, TextScreens,
     GraphicSetup, Kept, Setup
<1>7. GraphicSetup'
  BY DEF SetupTypeOK, SettingsCancel, settings_left, Dropped, GraphicSetup, Kept, Outside,
     TopPane, Setup, Panes
<1> QED
  BY <1>3, <1>4, <1>5, <1>6, <1>7 DEF SetupInv

\* A zone is picked; nothing else knows.
LEMMA StepTzStep == SetupInv /\ ce_tz_step => SetupInv'
<1> SUFFICES ASSUME SetupTypeOK, Kept, TextScreens, Outside, GraphicSetup, ce_tz_step
             PROVE  SetupInv'
  BY DEF SetupInv
<1>1. SetupTypeOK'
  BY SetupFields, SetupUpdates DEF ce_tz_step, clock_open, SetupTypeOK, ShownValues, ModeFields, Bit
<1>2. Kept'
  BY DEF SetupTypeOK, ce_tz_step, clock_open, Kept, Setup
<1>3. TextScreens'
  BY DEF SetupTypeOK, ce_tz_step, clock_open, TextScreens, Setup
<1>4. Outside'
  BY DEF SetupTypeOK, ce_tz_step, clock_open, Outside, TextScreens, GraphicSetup, Kept, Setup
<1>5. GraphicSetup'
  BY DEF SetupTypeOK, ce_tz_step, clock_open, GraphicSetup, Kept, Outside, TopPane, Setup, Panes
<1> QED
  BY <1>1, <1>2, <1>3, <1>4, <1>5 DEF SetupInv

\* The clock page saves the zone in hw_setup, and the copy gets it.
LEMMA StepSaveTz == SetupInv /\ ce_save_tz => SetupInv'
<1> SUFFICES ASSUME SetupTypeOK, Kept, TextScreens, Outside, GraphicSetup, ce_save_tz
             PROVE  SetupInv'
  BY DEF SetupInv
<1> DEFINE new == [hw_setup EXCEPT !.tz = edit_tz]
<1>1. /\ new \in Setup /\ new.mode = hw_setup.mode /\ new.matrix = hw_setup.matrix
      /\ new.sort = hw_setup.sort /\ new.tz = edit_tz
  BY SetupFields, SetupUpdates DEF Setup
<1>2. PICK ok \in BOOLEAN :
        /\ save_setup(new, ok) /\ shown' = SavedShown(hw_setup, new, ok)
        /\ IF ok THEN app_ft_setup_tz_saved(edit_tz) ELSE s' = s
  BY DEF ce_save_tz
<1> HIDE DEF new
<1>3. /\ shown' \in ShownValues
      /\ shown'.mode = shown.mode /\ shown'.preview = shown.preview
      /\ shown'.matrix = IF new = hw_setup \/ ~ok THEN shown.matrix ELSE new.matrix
      /\ shown'.sort = IF new.sort = hw_setup.sort \/ ~ok THEN shown.sort ELSE new.sort
  BY <1>1, <1>2, SetupFields, SavedShownFields
<1>4. /\ hw_setup' = (IF ok THEN new ELSE hw_setup) /\ ini' = (IF ok THEN new ELSE ini)
  BY <1>2 DEF save_setup
<1>5. /\ s' \in Setup /\ s'.mode = s.mode /\ s'.matrix = s.matrix
      /\ s'.tz = IF ok THEN edit_tz ELSE s.tz
  <2>1. CASE ok
    <3>1. s' = [s EXCEPT !.tz = edit_tz]
      BY <1>2, <2>1 DEF app_ft_setup_tz_saved
    <3>2. s' \in Setup
      BY <3>1, SetupFields, SetupUpdates
    <3> QED
      BY <2>1, <3>1, <3>2, SetupFields DEF Setup
  <2>2. CASE ~ok
    BY <1>2, <2>2, SetupFields
  <2> QED
    BY <2>1, <2>2
<1>6. SetupTypeOK'
  BY <1>1, <1>3, <1>4, <1>5, SetupFields DEF ce_save_tz, SetupTypeOK, ShownValues
<1>7. Kept' /\ TextScreens' /\ Outside' /\ GraphicSetup'
  BY <1>1, <1>3, <1>4, <1>5 DEF ce_save_tz, clock_open, Kept, TextScreens, Outside, GraphicSetup
<1> QED
  BY <1>6, <1>7 DEF SetupInv

\* The clock screen is left.
LEMMA StepRtcLeave == SetupInv /\ RtcLeave => SetupInv'
<1> SUFFICES ASSUME SetupTypeOK, Kept, TextScreens, Outside, GraphicSetup, RtcLeave
             PROVE  SetupInv'
  BY DEF SetupInv
<1>1. SetupTypeOK'
  BY SetupFields, SetupUpdates DEF RtcLeave, SetupTypeOK, ShownValues, ModeFields, Bit
<1>2. Kept'
  BY DEF SetupTypeOK, RtcLeave, Kept, Setup
<1>3. TextScreens'
  BY DEF SetupTypeOK, RtcLeave, TextScreens, Setup
<1>4. Outside'
  BY DEF SetupTypeOK, RtcLeave, Outside, TextScreens, GraphicSetup, Kept, Setup
<1>5. GraphicSetup'
  BY DEF SetupTypeOK, RtcLeave, GraphicSetup, Kept, Outside, TopPane, Setup, Panes
<1> QED
  BY <1>1, <1>2, <1>3, <1>4, <1>5 DEF SetupInv

\* A page of the graphic setup is opened; no dialog is open.
LEMMA StepOpenPage == SetupInv /\ OpenPage => SetupInv'
<1> SUFFICES ASSUME SetupTypeOK, Kept, TextScreens, Outside, GraphicSetup, OpenPage
             PROVE  SetupInv'
  BY DEF SetupInv
<1>1. shown' \in ShownValues
  BY ShownUpdates, SetupUpdates, SetupFields DEF OpenPage, app_ft_setup_draw, ft_open, areas
<1>2. pane' \in Panes
  BY SetupFields, TopPaneFacts DEF OpenPage, app_ft_setup_draw, ft_open, areas, Panes, Tabs
<1>3. modes' \in ModeFields
  BY SetupFields, ModesFacts, SetupUpdates DEF OpenPage, app_ft_setup_draw, ft_open, areas,
     ModeFields
<1>4. SetupTypeOK'
  BY <1>1, <1>2, <1>3, SetupFields, SetupUpdates DEF OpenPage, app_ft_setup_draw, ft_open,
     areas, SetupTypeOK, ShownValues, ModeFields, Bit
<1>5. Kept'
  BY DEF SetupTypeOK, OpenPage, app_ft_setup_draw, ft_open, areas, Kept, Setup
<1>6. TextScreens'
  BY DEF SetupTypeOK, OpenPage, app_ft_setup_draw, ft_open, areas, TextScreens, Setup
<1>7. Outside'
  BY DEF SetupTypeOK, OpenPage, app_ft_setup_draw, ft_open, areas, Outside, TextScreens,
     GraphicSetup, Kept, Setup
<1>8. GraphicSetup'
  BY DEF SetupTypeOK, OpenPage, app_ft_setup_draw, ft_open, areas, GraphicSetup, Kept, Outside,
     TopPane, Setup, Panes
<1> QED
  BY <1>4, <1>5, <1>6, <1>7, <1>8 DEF SetupInv

\* A section is picked; no dialog is open.
LEMMA StepPickTab == SetupInv /\ PickTab => SetupInv'
<1> SUFFICES ASSUME SetupTypeOK, Kept, TextScreens, Outside, GraphicSetup, PickTab
             PROVE  SetupInv'
  BY DEF SetupInv
<1>1. shown' \in ShownValues
  BY ShownUpdates, SetupUpdates, SetupFields DEF PickTab, app_ft_setup_draw, ft_open, areas
<1>2. pane' \in Panes
  BY SetupFields, TopPaneFacts DEF PickTab, app_ft_setup_draw, ft_open, areas, Panes, Tabs
<1>3. SetupTypeOK'
  BY <1>1, <1>2, SetupFields, SetupUpdates DEF PickTab, app_ft_setup_draw, ft_open, areas,
     SetupTypeOK, ShownValues, ModeFields, Bit
<1>4. Kept'
  BY DEF SetupTypeOK, PickTab, app_ft_setup_draw, ft_open, areas, Kept, Setup
<1>5. TextScreens'
  BY DEF SetupTypeOK, PickTab, app_ft_setup_draw, ft_open, areas, TextScreens, Setup
<1>6. Outside'
  BY DEF SetupTypeOK, PickTab, app_ft_setup_draw, ft_open, areas, Outside, TextScreens,
     GraphicSetup, Kept, Setup
<1>7. GraphicSetup'
  BY DEF SetupTypeOK, PickTab, app_ft_setup_draw, ft_open, areas, GraphicSetup, Kept, Outside,
     TopPane, Setup, Panes
<1> QED
  BY <1>3, <1>4, <1>5, <1>6, <1>7 DEF SetupInv

\* Save of the graphic setup, with no dialog open: the copy is in karabas.ini and the
\* screen is left with its mode, or all stays but the focus.
LEMMA StepSave == SetupInv /\ Save => SetupInv'
<1> SUFFICES ASSUME SetupTypeOK, Kept, TextScreens, Outside, GraphicSetup, Save
             PROVE  SetupInv'
  BY DEF SetupInv
<1>1. /\ screen_at = "ft_setup" /\ pane.on # "dialog"
      /\ modes["cur"] = shown.mode /\ shown.mode = s.mode /\ s.tz = hw_setup.tz
      /\ s.mode \notin BadModes
  BY DEF Save, ft_open, areas, GraphicSetup
<1>2. PICK ok \in Saves(hw_setup, s) :
        /\ save_setup(s, ok)
        /\ IF ok THEN /\ leave(s)
                      /\ shown' = leave_mode(s, SavedShown(hw_setup, s, ok))
           ELSE /\ pane' = [pane EXCEPT !.on = "tabs", !.tab = "save", !.mx = FALSE]
                /\ shown' = app_ft_setup_draw(shown, pane')
                /\ UNCHANGED <<screen_at, modes, s, color_old, edit_tz>>
  BY DEF Save
<1>3. ok \in BOOLEAN
  BY DEF Saves
<1>4. /\ hw_setup' = (IF ok THEN s ELSE hw_setup) /\ ini' = (IF ok THEN s ELSE ini)
      /\ graphic' = graphic
  BY <1>2 DEF save_setup, Save
<1>5. CASE ok
  <2> DEFINE sh == SavedShown(hw_setup, s, ok)
  <2>1. /\ sh \in ShownValues /\ sh.mode = shown.mode
        /\ sh.sort = IF s.sort = hw_setup.sort THEN shown.sort ELSE s.sort
    BY <1>3, <1>5, SetupFields, SavedShownFields, ZenonT(60)
  <2>2. shown' = leave_mode(s, sh)
    BY <1>2, <1>5
  <2> HIDE DEF sh
  <2>3. /\ shown' \in ShownValues /\ shown'.sort = sh.sort /\ shown'.matrix = s.matrix
        /\ shown'.preview = FALSE /\ shown'.mode = s.mode
    BY <1>1, <2>1, <2>2, SetupFields, LeaveModeFields, ZenonT(60)
  <2>4. /\ screen_at' = "browser" /\ pane' = TopPane /\ modes' = NoModes /\ s' = s
        /\ color_old' = 0 /\ edit_tz' = 0
    BY <1>2, <1>5 DEF leave
  <2>5. SetupTypeOK'
    BY <1>4, <1>5, <2>3, <2>4, SetupFields, ModesFacts, TopPaneFacts
       DEF SetupTypeOK, ShownValues, ModeFields, Bit
  <2>6. Kept' /\ TextScreens' /\ Outside' /\ GraphicSetup'
    BY <1>1, <1>4, <1>5, <2>1, <2>3, <2>4 DEF Kept, TextScreens, Outside, GraphicSetup
  <2> QED
    BY <2>5, <2>6 DEF SetupInv
<1>6. CASE ~ok
  <2>1. /\ pane' = [pane EXCEPT !.on = "tabs", !.tab = "save", !.mx = FALSE]
        /\ shown' = [shown EXCEPT !.preview = pane'.on = "page" /\ pane'.mx]
        /\ UNCHANGED <<screen_at, modes, s, color_old, edit_tz>>
    BY <1>2, <1>6 DEF app_ft_setup_draw
  <2>2. pane' \in Panes /\ pane'.on = "tabs"
    BY <2>1, SetupFields DEF Panes, Tabs
  <2>3. shown' = [shown EXCEPT !.preview = FALSE]
    BY <2>1, <2>2
  <2>4. shown' \in ShownValues /\ shown'.mode = shown.mode /\ shown'.sort = shown.sort
    BY <2>3, SetupFields, ShownUpdates DEF ShownValues
  <2>5. SetupTypeOK'
    BY <1>4, <1>6, <2>1, <2>2, <2>4, SetupFields DEF SetupTypeOK, ShownValues
  <2>6. Kept' /\ TextScreens' /\ Outside' /\ GraphicSetup'
    BY <1>1, <1>4, <1>6, <2>1, <2>2, <2>4 DEF Kept, TextScreens, Outside, GraphicSetup
  <2> QED
    BY <2>5, <2>6 DEF SetupInv
<1> QED
  BY <1>5, <1>6

\* The graphic setup is dropped: the mode that is kept comes back.
LEMMA StepCancel == SetupInv /\ Cancel => SetupInv'
<1> SUFFICES ASSUME SetupTypeOK, Kept, TextScreens, Outside, GraphicSetup, Cancel
             PROVE  SetupInv'
  BY DEF SetupInv
<1>1. s' \in Setup
  BY SetupUpdates, SetupFields DEF Cancel, leave, leave_mode, ft_open, areas, NoModes, Dropped,
     set_mode
<1>2. shown' \in ShownValues
  BY ShownUpdates, SetupUpdates, SetupFields DEF Cancel, leave, leave_mode, ft_open, areas,
     NoModes, Dropped, set_mode
<1>3. pane' \in Panes
  BY SetupFields, TopPaneFacts DEF Cancel, leave, leave_mode, ft_open, areas, NoModes, Dropped,
     set_mode, Panes, Tabs
<1>4. modes' \in ModeFields
  BY SetupFields, ModesFacts, SetupUpdates DEF Cancel, leave, leave_mode, ft_open, areas,
     NoModes, Dropped, set_mode, ModeFields
<1>5. SetupTypeOK'
  BY <1>1, <1>2, <1>3, <1>4, SetupFields, SetupUpdates DEF Cancel, leave, leave_mode, ft_open,
     areas, NoModes, Dropped, set_mode, SetupTypeOK, ShownValues, ModeFields, Bit
<1>6. Kept'
  BY DEF SetupTypeOK, Cancel, leave, leave_mode, ft_open, areas, NoModes, Dropped, set_mode,
     Kept, Setup
<1>7. TextScreens'
  BY DEF SetupTypeOK, Cancel, leave, leave_mode, ft_open, areas, NoModes, Dropped, set_mode,
     TextScreens, Setup
<1>8. Outside'
  BY DEF SetupTypeOK, Cancel, leave, leave_mode, ft_open, areas, NoModes, Dropped, set_mode,
     Outside, TextScreens, GraphicSetup, Kept, Setup
<1>9. GraphicSetup'
  BY DEF SetupTypeOK, Cancel, leave, leave_mode, ft_open, areas, NoModes, Dropped, set_mode,
     GraphicSetup, Kept, Outside, TopPane, Setup, Panes
<1> QED
  BY <1>5, <1>6, <1>7, <1>8, <1>9 DEF SetupInv

\* The question whether to drop the copy.
LEMMA StepAskDrop == SetupInv /\ AskDrop => SetupInv'
<1> SUFFICES ASSUME SetupTypeOK, Kept, TextScreens, Outside, GraphicSetup, AskDrop
             PROVE  SetupInv'
  BY DEF SetupInv
<1>1. pane' \in Panes
  BY SetupFields, TopPaneFacts DEF AskDrop, ft_open, Panes, Tabs
<1>2. SetupTypeOK'
  BY <1>1, SetupFields, SetupUpdates DEF AskDrop, ft_open, SetupTypeOK, ShownValues, ModeFields, Bit
<1>3. Kept'
  BY DEF SetupTypeOK, AskDrop, ft_open, Kept, Setup
<1>4. TextScreens'
  BY DEF SetupTypeOK, AskDrop, ft_open, TextScreens, Setup
<1>5. Outside'
  BY DEF SetupTypeOK, AskDrop, ft_open, Outside, TextScreens, GraphicSetup, Kept, Setup
<1>6. GraphicSetup'
  BY DEF SetupTypeOK, AskDrop, ft_open, GraphicSetup, Kept, Outside, TopPane, Setup, Panes
<1> QED
  BY <1>2, <1>3, <1>4, <1>5, <1>6 DEF SetupInv

\* A row of the graphic setup: a value, the page of the matrix effects, or a mode to try.
LEMMA StepChangeRow == SetupInv /\ ChangeRow => SetupInv'
<1> SUFFICES ASSUME SetupTypeOK, Kept, TextScreens, Outside, GraphicSetup, ChangeRow
             PROVE  SetupInv'
  BY DEF SetupInv
<1>1. /\ screen_at = "ft_setup" /\ pane.on # "dialog" /\ pane \in Panes
      /\ UNCHANGED <<hw_setup, ini, graphic, screen_at, color_old, edit_tz>>
  BY SetupFields DEF ChangeRow, ft_open, areas
<1>2. /\ s' \in Setup /\ shown' \in ShownValues /\ pane' \in Panes /\ modes' \in ModeFields
      /\ s'.mode = s.mode /\ s'.tz = s.tz /\ shown'.mode = shown.mode /\ shown'.sort = shown.sort
      /\ pane'.on = "page" /\ modes'["cur"] = modes["cur"]
  <2>1. CASE /\ settings_change(IF pane.mx THEN "matrix" ELSE "sort")
             /\ pane' = [pane EXCEPT !.on = "page"] /\ UNCHANGED modes
    <3>1. PICK id \in {"matrix", "sort"} : settings_change(id)
      BY <2>1
    <3>2. pane' \in Panes /\ pane'.on = "page"
      BY <1>1, <2>1 DEF Panes
    <3> QED
      BY <2>1, <3>1, <3>2, SetupFields, SettingsChangeFields
  <2>2. CASE /\ ~pane.mx /\ pane' = [pane EXCEPT !.on = "page", !.mx = TRUE]
             /\ shown' = app_ft_setup_draw(shown, pane') /\ UNCHANGED <<s, modes>>
    <3>1. pane' \in Panes /\ pane'.on = "page" /\ pane'.mx = TRUE
      BY <1>1, <2>2 DEF Panes
    <3>2. shown' = [shown EXCEPT !.preview = TRUE]
      BY <2>2, <3>1 DEF app_ft_setup_draw
    <3>3. shown' \in ShownValues /\ shown'.mode = shown.mode /\ shown'.sort = shown.sort
      BY <3>2, SetupFields, ShownUpdates DEF ShownValues
    <3> QED
      BY <2>2, <3>1, <3>3, SetupFields
  <2>3. CASE /\ ~pane.mx /\ pane' = [pane EXCEPT !.on = "page"]
             /\ \E m \in VideoModes : modes' = [modes EXCEPT !["pick"] = m]
             /\ UNCHANGED <<s, shown>>
    <3>1. pane' \in Panes /\ pane'.on = "page"
      BY <1>1, <2>3 DEF Panes
    <3>2. modes' \in ModeFields /\ modes'["cur"] = modes["cur"]
      BY <2>3, SetupFields DEF ModeFields
    <3> QED
      BY <2>3, <3>1, <3>2, SetupFields
  <2> QED
    BY <2>1, <2>2, <2>3 DEF ChangeRow
<1>3. SetupTypeOK'
  BY <1>1, <1>2, SetupFields DEF SetupTypeOK, ShownValues, ModeFields
<1>4. Kept' /\ TextScreens' /\ Outside' /\ GraphicSetup'
  BY <1>1, <1>2 DEF Kept, TextScreens, Outside, GraphicSetup
<1> QED
  BY <1>3, <1>4 DEF SetupInv

\* From the matrix effects, then to the tabs.
LEMMA StepPageBack == SetupInv /\ PageBack => SetupInv'
<1> SUFFICES ASSUME SetupTypeOK, Kept, TextScreens, Outside, GraphicSetup, PageBack
             PROVE  SetupInv'
  BY DEF SetupInv
<1>1. shown' \in ShownValues
  BY ShownUpdates, SetupUpdates, SetupFields DEF PageBack, app_ft_setup_draw, ft_open
<1>2. pane' \in Panes
  BY SetupFields, TopPaneFacts DEF PageBack, app_ft_setup_draw, ft_open, Panes, Tabs
<1>3. SetupTypeOK'
  BY <1>1, <1>2, SetupFields, SetupUpdates DEF PageBack, app_ft_setup_draw, ft_open,
     SetupTypeOK, ShownValues, ModeFields, Bit
<1>4. Kept'
  BY DEF SetupTypeOK, PageBack, app_ft_setup_draw, ft_open, Kept, Setup
<1>5. TextScreens'
  BY DEF SetupTypeOK, PageBack, app_ft_setup_draw, ft_open, TextScreens, Setup
<1>6. Outside'
  BY DEF SetupTypeOK, PageBack, app_ft_setup_draw, ft_open, Outside, TextScreens, GraphicSetup,
     Kept, Setup
<1>7. GraphicSetup'
  BY DEF SetupTypeOK, PageBack, app_ft_setup_draw, ft_open, GraphicSetup, Kept, Outside,
     TopPane, Setup, Panes
<1> QED
  BY <1>3, <1>4, <1>5, <1>6, <1>7 DEF SetupInv

\* From the clock to the tabs.
LEMMA StepClockBack == SetupInv /\ ClockBack => SetupInv'
<1> SUFFICES ASSUME SetupTypeOK, Kept, TextScreens, Outside, GraphicSetup, ClockBack
             PROVE  SetupInv'
  BY DEF SetupInv
<1>1. pane' \in Panes
  BY SetupFields, TopPaneFacts DEF ClockBack, ft_open, Panes, Tabs
<1>2. SetupTypeOK'
  BY <1>1, SetupFields, SetupUpdates DEF ClockBack, ft_open, SetupTypeOK, ShownValues, ModeFields, Bit
<1>3. Kept'
  BY DEF SetupTypeOK, ClockBack, ft_open, Kept, Setup
<1>4. TextScreens'
  BY DEF SetupTypeOK, ClockBack, ft_open, TextScreens, Setup
<1>5. Outside'
  BY DEF SetupTypeOK, ClockBack, ft_open, Outside, TextScreens, GraphicSetup, Kept, Setup
<1>6. GraphicSetup'
  BY DEF SetupTypeOK, ClockBack, ft_open, GraphicSetup, Kept, Outside, TopPane, Setup, Panes
<1> QED
  BY <1>2, <1>3, <1>4, <1>5, <1>6 DEF SetupInv

\* A color is opened.
LEMMA StepEnterColor == SetupInv /\ EnterColor => SetupInv'
<1> SUFFICES ASSUME SetupTypeOK, Kept, TextScreens, Outside, GraphicSetup, EnterColor
             PROVE  SetupInv'
  BY DEF SetupInv
<1>1. pane' \in Panes
  BY SetupFields, TopPaneFacts DEF EnterColor, ft_open, Panes, Tabs
<1>2. SetupTypeOK'
  BY <1>1, SetupFields, SetupUpdates DEF EnterColor, ft_open, SetupTypeOK, ShownValues, ModeFields,
     Bit
<1>3. Kept'
  BY DEF SetupTypeOK, EnterColor, ft_open, Kept, Setup
<1>4. TextScreens'
  BY DEF SetupTypeOK, EnterColor, ft_open, TextScreens, Setup
<1>5. Outside'
  BY DEF SetupTypeOK, EnterColor, ft_open, Outside, TextScreens, GraphicSetup, Kept, Setup
<1>6. GraphicSetup'
  BY DEF SetupTypeOK, EnterColor, ft_open, GraphicSetup, Kept, Outside, TopPane, Setup, Panes
<1> QED
  BY <1>2, <1>3, <1>4, <1>5, <1>6 DEF SetupInv

\* A color is tried in the copy.
LEMMA StepChangeColor == SetupInv /\ change_color => SetupInv'
<1> SUFFICES ASSUME SetupTypeOK, Kept, TextScreens, Outside, GraphicSetup, change_color
             PROVE  SetupInv'
  BY DEF SetupInv
<1>1. s' \in Setup
  BY SetupUpdates, SetupFields DEF change_color, ft_open
<1>2. SetupTypeOK'
  BY <1>1, SetupFields, SetupUpdates DEF change_color, ft_open, SetupTypeOK, ShownValues, ModeFields,
     Bit
<1>3. Kept'
  BY DEF SetupTypeOK, change_color, ft_open, Kept, Setup
<1>4. TextScreens'
  BY DEF SetupTypeOK, change_color, ft_open, TextScreens, Setup
<1>5. Outside'
  BY DEF SetupTypeOK, change_color, ft_open, Outside, TextScreens, GraphicSetup, Kept, Setup
<1>6. GraphicSetup'
  BY DEF SetupTypeOK, change_color, ft_open, GraphicSetup, Kept, Outside, TopPane, Setup, Panes
<1> QED
  BY <1>2, <1>3, <1>4, <1>5, <1>6 DEF SetupInv

\* A color is kept or put back, in the copy.
LEMMA StepColorEnd == SetupInv /\ ColorEnd => SetupInv'
<1> SUFFICES ASSUME SetupTypeOK, Kept, TextScreens, Outside, GraphicSetup, ColorEnd
             PROVE  SetupInv'
  BY DEF SetupInv
<1>1. s' \in Setup
  BY SetupUpdates, SetupFields, ZenonT(60) DEF ColorEnd, ft_open
<1>2. pane' \in Panes
  BY SetupFields, TopPaneFacts DEF ColorEnd, ft_open, Panes, Tabs
<1>3. SetupTypeOK'
  BY <1>1, <1>2, SetupFields, SetupUpdates DEF ColorEnd, ft_open, SetupTypeOK, ShownValues,
     ModeFields, Bit
<1>4. Kept'
  BY DEF SetupTypeOK, ColorEnd, ft_open, Kept, Setup
<1>5. TextScreens'
  BY DEF SetupTypeOK, ColorEnd, ft_open, TextScreens, Setup
<1>6. Outside'
  BY DEF SetupTypeOK, ColorEnd, ft_open, Outside, TextScreens, GraphicSetup, Kept, Setup
<1>7. GraphicSetup'
  BY DEF SetupTypeOK, ColorEnd, ft_open, GraphicSetup, Kept, Outside, TopPane, Setup, Panes
<1> QED
  BY <1>3, <1>4, <1>5, <1>6, <1>7 DEF SetupInv

\* A mode is tried: its dialog opens if the mode comes up, with the way back.
LEMMA StepTryMode == SetupInv /\ TryMode => SetupInv'
<1> SUFFICES ASSUME SetupTypeOK, Kept, TextScreens, Outside, GraphicSetup, TryMode
             PROVE  SetupInv'
  BY DEF SetupInv
<1>1. shown' \in ShownValues
  BY ShownUpdates, SetupUpdates, SetupFields DEF TryMode, set_mode, ft_open
<1>2. pane' \in Panes
  BY SetupFields, TopPaneFacts DEF TryMode, set_mode, ft_open, Panes, Tabs
<1>3. modes' \in ModeFields
  BY SetupFields, ModesFacts, SetupUpdates DEF TryMode, set_mode, ft_open, ModeFields
<1>4. SetupTypeOK'
  BY <1>1, <1>2, <1>3, SetupFields, SetupUpdates DEF TryMode, set_mode, ft_open, SetupTypeOK,
     ShownValues, ModeFields, Bit
<1>5. Kept'
  BY DEF SetupTypeOK, TryMode, set_mode, ft_open, Kept, Setup
<1>6. TextScreens'
  BY DEF SetupTypeOK, TryMode, set_mode, ft_open, TextScreens, Setup
<1>7. Outside'
  BY DEF SetupTypeOK, TryMode, set_mode, ft_open, Outside, TextScreens, GraphicSetup, Kept,
     Setup
<1>8. GraphicSetup'
  BY DEF SetupTypeOK, TryMode, set_mode, ft_open, GraphicSetup, Kept, Outside, TopPane, Setup,
     Panes
<1> QED
  BY <1>4, <1>5, <1>6, <1>7, <1>8 DEF SetupInv

\* The side of the dialog.
LEMMA StepDialogSide == SetupInv /\ DialogSide => SetupInv'
<1> SUFFICES ASSUME SetupTypeOK, Kept, TextScreens, Outside, GraphicSetup, DialogSide
             PROVE  SetupInv'
  BY DEF SetupInv
<1>1. pane' \in Panes
  BY SetupFields, TopPaneFacts DEF DialogSide, ft_open, Panes, Tabs
<1>2. SetupTypeOK'
  BY <1>1, SetupFields, SetupUpdates DEF DialogSide, ft_open, SetupTypeOK, ShownValues, ModeFields,
     Bit
<1>3. Kept'
  BY DEF SetupTypeOK, DialogSide, ft_open, Kept, Setup
<1>4. TextScreens'
  BY DEF SetupTypeOK, DialogSide, ft_open, TextScreens, Setup
<1>5. Outside'
  BY DEF SetupTypeOK, DialogSide, ft_open, Outside, TextScreens, GraphicSetup, Kept, Setup
<1>6. GraphicSetup'
  BY DEF SetupTypeOK, DialogSide, ft_open, GraphicSetup, Kept, Outside, TopPane, Setup, Panes
<1> QED
  BY <1>2, <1>3, <1>4, <1>5, <1>6 DEF SetupInv

\* The mode that is tried is kept in the copy.
LEMMA StepKeepMode == SetupInv /\ KeepMode => SetupInv'
<1> SUFFICES ASSUME SetupTypeOK, Kept, TextScreens, Outside, GraphicSetup, KeepMode
             PROVE  SetupInv'
  BY DEF SetupInv
<1>1. s' \in Setup
  BY SetupUpdates, SetupFields DEF KeepMode, ft_open
<1>2. pane' \in Panes
  BY SetupFields, TopPaneFacts DEF KeepMode, ft_open, Panes, Tabs
<1>3. modes' \in ModeFields
  BY SetupFields, ModesFacts, SetupUpdates DEF KeepMode, ft_open, ModeFields
<1>4. SetupTypeOK'
  BY <1>1, <1>2, <1>3, SetupFields, SetupUpdates DEF KeepMode, ft_open, SetupTypeOK, ShownValues,
     ModeFields, Bit
<1>5. Kept'
  BY DEF SetupTypeOK, KeepMode, ft_open, Kept, Setup
<1>6. TextScreens'
  BY DEF SetupTypeOK, KeepMode, ft_open, TextScreens, Setup
<1>7. Outside'
  BY DEF SetupTypeOK, KeepMode, ft_open, Outside, TextScreens, GraphicSetup, Kept, Setup
<1>8. GraphicSetup'
  BY DEF SetupTypeOK, KeepMode, ft_open, GraphicSetup, Kept, Outside, TopPane, Setup, Panes
<1> QED
  BY <1>4, <1>5, <1>6, <1>7, <1>8 DEF SetupInv

\* The way back: the mode of the copy, which came up before.
LEMMA StepRevertMode == SetupInv /\ RevertMode => SetupInv'
<1> SUFFICES ASSUME SetupTypeOK, Kept, TextScreens, Outside, GraphicSetup, RevertMode
             PROVE  SetupInv'
  BY DEF SetupInv
<1>1. shown' \in ShownValues
  BY ShownUpdates, SetupUpdates, SetupFields DEF RevertMode, set_mode, ft_open
<1>2. pane' \in Panes
  BY SetupFields, TopPaneFacts DEF RevertMode, set_mode, ft_open, Panes, Tabs
<1>3. modes' \in ModeFields
  BY SetupFields, ModesFacts, SetupUpdates DEF RevertMode, set_mode, ft_open, ModeFields
<1>4. SetupTypeOK'
  BY <1>1, <1>2, <1>3, SetupFields, SetupUpdates DEF RevertMode, set_mode, ft_open, SetupTypeOK,
     ShownValues, ModeFields, Bit
<1>5. Kept'
  BY DEF SetupTypeOK, RevertMode, set_mode, ft_open, Kept, Setup
<1>6. TextScreens'
  BY DEF SetupTypeOK, RevertMode, set_mode, ft_open, TextScreens, Setup
<1>7. Outside'
  BY DEF SetupTypeOK, RevertMode, set_mode, ft_open, Outside, TextScreens, GraphicSetup, Kept,
     Setup
<1>8. GraphicSetup'
  BY DEF SetupTypeOK, RevertMode, set_mode, ft_open, GraphicSetup, Kept, Outside, TopPane,
     Setup, Panes
<1> QED
  BY <1>4, <1>5, <1>6, <1>7, <1>8 DEF SetupInv

\* The copy is not dropped.
LEMMA StepStayHere == SetupInv /\ StayHere => SetupInv'
<1> SUFFICES ASSUME SetupTypeOK, Kept, TextScreens, Outside, GraphicSetup, StayHere
             PROVE  SetupInv'
  BY DEF SetupInv
<1>1. pane' \in Panes
  BY SetupFields, TopPaneFacts DEF StayHere, ft_open, Panes, Tabs
<1>2. SetupTypeOK'
  BY <1>1, SetupFields, SetupUpdates DEF StayHere, ft_open, SetupTypeOK, ShownValues, ModeFields, Bit
<1>3. Kept'
  BY DEF SetupTypeOK, StayHere, ft_open, Kept, Setup
<1>4. TextScreens'
  BY DEF SetupTypeOK, StayHere, ft_open, TextScreens, Setup
<1>5. Outside'
  BY DEF SetupTypeOK, StayHere, ft_open, Outside, TextScreens, GraphicSetup, Kept, Setup
<1>6. GraphicSetup'
  BY DEF SetupTypeOK, StayHere, ft_open, GraphicSetup, Kept, Outside, TopPane, Setup, Panes
<1> QED
  BY <1>2, <1>3, <1>4, <1>5, <1>6 DEF SetupInv

\* The boot core comes again, and the screen starts anew.
LEMMA StepReload == SetupInv /\ Reload => SetupInv'
<1> SUFFICES ASSUME SetupTypeOK, Kept, TextScreens, Outside, GraphicSetup, Reload
             PROVE  SetupInv'
  BY DEF SetupInv
<1>1. s' \in Setup
  BY SetupUpdates, SetupFields DEF Reload, ft_open
<1>2. shown' \in ShownValues
  BY ShownUpdates, SetupUpdates, SetupFields DEF Reload, ft_open
<1>3. pane' \in Panes
  BY SetupFields, TopPaneFacts DEF Reload, ft_open, Panes, Tabs
<1>4. modes' \in ModeFields
  BY SetupFields, ModesFacts, SetupUpdates DEF Reload, ft_open, ModeFields
<1>5. SetupTypeOK'
  BY <1>1, <1>2, <1>3, <1>4, SetupFields, SetupUpdates DEF Reload, ft_open, SetupTypeOK, ShownValues,
     ModeFields, Bit
<1>6. Kept'
  BY DEF SetupTypeOK, Reload, ft_open, Kept, Setup
<1>7. TextScreens'
  BY DEF SetupTypeOK, Reload, ft_open, TextScreens, Setup
<1>8. Outside'
  BY DEF SetupTypeOK, Reload, ft_open, Outside, TextScreens, GraphicSetup, Kept, Setup
<1>9. GraphicSetup'
  BY DEF SetupTypeOK, Reload, ft_open, GraphicSetup, Kept, Outside, TopPane, Setup, Panes
<1> QED
  BY <1>5, <1>6, <1>7, <1>8, <1>9 DEF SetupInv

\* The invariant holds on every screen of the setup: the 27 steps, one lemma each.
THEOREM SettingsInvariant == SetupSpec => []SetupInv
<1>1. SetupInit => SetupInv
  BY SetupStarts
<1>2. SetupInv /\ [SetupNext]_setupVars => SetupInv'
  <2> SUFFICES ASSUME SetupInv, [SetupNext]_setupVars PROVE SetupInv'
    OBVIOUS
  <2>1. CASE SetupNext
    BY <2>1, StepOpenSetup, StepGraphicMenu, StepSetupKey, StepSettingsChange, StepSettingsPage,
       StepSettingsSave, StepSettingsCancel, StepTzStep, StepSaveTz, StepRtcLeave, StepOpenPage,
       StepPickTab, StepSave, StepCancel, StepAskDrop, StepChangeRow, StepPageBack, StepClockBack,
       StepEnterColor, StepChangeColor, StepColorEnd, StepTryMode, StepDialogSide, StepKeepMode,
       StepRevertMode, StepStayHere, StepReload DEF SetupNext
  <2>2. CASE UNCHANGED setupVars
    BY <2>2 DEF setupVars, SetupInv, SetupTypeOK, Kept, TextScreens, Outside, GraphicSetup
  <2> QED
    BY <2>1, <2>2
<1> QED
  BY <1>1, <1>2, PTL DEF SetupSpec

\* Nothing that was not saved lives on, whatever was tried, previewed, refused by the
\* card or dropped before, and Save never takes back the zone of the clock page
\* (settings_end(), leave(), app_ft_setup_tz_saved()): for all modes, those that do not
\* come up too.
THEOREM SettingsAreHonest == SetupSpec => []SettingsHonest
<1>1. SetupInv => SettingsHonest
  BY DEF SetupInv, Kept, TextScreens, Outside, GraphicSetup, SettingsHonest
<1> QED
  BY <1>1, SettingsInvariant, PTL


-----------------------------------------------------------------------------
(* The file loader.                                                        *)

\* The dir that a pair of kgo1 means, and what the pair and the state look like.
DirOf(d) == IF d # "" THEN d ELSE start_dir
IsPair(p) == p = NoLoad \/ (p = <<p[1], p[2]>> /\ p[1] \in CardDirs)
FlFields(x) ==
  \E a, b, c, d, e : x = [loaded |-> a, autoload |-> b, sel |-> c, name |-> d, pending |-> e]
StateFields(x) ==
  /\ \E a, b, c, d, e, f : x = [dir |-> a, ini |-> b, last |-> c, list |-> d, fl |-> e, run |-> f]
  /\ FlFields(x.fl)

\* PairKgo1, PairKgo2: the pair of the card is the file of the last save that is done.
LoaderFields ==
  /\ format \in {"kgo1", "kgo2"} /\ power \in BOOLEAN /\ cur_dir \in CardDirs
  /\ power => FlFields(fl) /\ fl.pending = FALSE
  /\ card = [dir |-> card.dir, id |-> card.id, path |-> card.path]
  /\ card.dir \in CardDirs \cup {""} /\ IsPair(card.path) /\ IsPair(due)
PairKgo1 ==
  format = "kgo1" => /\ due = NoLoad
                     /\ power => ini_dir = card.dir
                     /\ card.id # 0 => chosen = <<DirOf(card.dir), card.id>>
PairKgo2 ==
  format = "kgo2" /\ card.path # NoLoad => chosen = card.path
LoaderInv == LoaderFields /\ PairKgo1 /\ PairKgo2

\* What stays of fl when some of it is set.
LEMMA FlUpdates ==
  ASSUME NEW f, FlFields(f), NEW g, NEW v,
         \/ g = [f EXCEPT !.loaded = TRUE, !.autoload = FALSE, !.sel = 0, !.name = 0]
         \/ g = [f EXCEPT !.name = v, !.sel = 0]
         \/ g = [f EXCEPT !.sel = v, !.loaded = FALSE]
  PROVE  FlFields(g) /\ g.pending = f.pending
<1>1. PICK a, b, c, d, e : f = [loaded |-> a, autoload |-> b, sel |-> c, name |-> d, pending |-> e]
  BY DEF FlFields
<1>2. CASE g = [f EXCEPT !.loaded = TRUE, !.autoload = FALSE, !.sel = 0, !.name = 0]
  <2>1. g = [loaded |-> TRUE, autoload |-> FALSE, sel |-> 0, name |-> 0, pending |-> e]
    BY <1>1, <1>2
  <2> QED
    BY <1>1, <2>1 DEF FlFields
<1>3. CASE g = [f EXCEPT !.name = v, !.sel = 0]
  <2>1. g = [loaded |-> a, autoload |-> b, sel |-> 0, name |-> v, pending |-> e]
    BY <1>1, <1>3
  <2> QED
    BY <1>1, <2>1 DEF FlFields
<1>4. CASE g = [f EXCEPT !.sel = v, !.loaded = FALSE]
  <2>1. g = [loaded |-> FALSE, autoload |-> b, sel |-> v, name |-> d, pending |-> e]
    BY <1>1, <1>4
  <2> QED
    BY <1>1, <2>1 DEF FlFields
<1> QED
  BY <1>2, <1>3, <1>4

Listed(x, v, w) == [x EXCEPT !.list = v, !.fl = w]
\* What stays of the state when its list is read.
LEMMA StateListed ==
  ASSUME NEW x, StateFields(x), NEW v, NEW w, FlFields(w), NEW y, y = Listed(x, v, w)
  PROVE  /\ StateFields(y) /\ y.dir = x.dir /\ y.ini = x.ini /\ y.last = x.last
         /\ y.fl = w /\ y.run = x.run
<1>1. PICK a, b, c, d, e, f : x = [dir |-> a, ini |-> b, last |-> c, list |-> d, fl |-> e, run |-> f]
  BY DEF StateFields
<1>2. y = [dir |-> a, ini |-> b, last |-> c, list |-> v, fl |-> w, run |-> f]
  BY <1>1 DEF Listed
<1>3. y.dir = x.dir /\ y.ini = x.ini /\ y.last = x.last /\ y.fl = w /\ y.run = x.run
  BY <1>1, <1>2
<1>4. StateFields(y)
  BY <1>2, <1>3 DEF StateFields
<1> QED
  BY <1>3, <1>4

Moved(x, v, w) == [x EXCEPT !.dir = v, !.fl = w]
\* And when the user goes to another dir.
LEMMA StateMoved ==
  ASSUME NEW x, StateFields(x), NEW v, NEW w, FlFields(w), NEW y, y = Moved(x, v, w)
  PROVE  StateFields(y) /\ y.dir = v /\ y.ini = x.ini /\ y.fl = w
<1>1. PICK a, b, c, d, e, f : x = [dir |-> a, ini |-> b, last |-> c, list |-> d, fl |-> e, run |-> f]
  BY DEF StateFields
<1>2. y = [dir |-> v, ini |-> b, last |-> c, list |-> d, fl |-> w, run |-> f]
  BY <1>1 DEF Moved
<1>3. y.dir = v /\ y.ini = x.ini /\ y.fl = w
  BY <1>1, <1>2
<1>4. StateFields(y)
  BY <1>2, <1>3 DEF StateFields
<1> QED
  BY <1>3, <1>4

\* Reading the list of a dir changes neither the dir nor the pair; the core gets the
\* last file of that dir, or nothing new.
LEMMA ReadFields ==
  ASSUME NEW x, StateFields(x), x.fl.pending = FALSE, NEW opens \in BOOLEAN
  PROVE  LET r == read_files(x, opens)
         IN /\ r.dir = x.dir /\ r.ini = x.ini /\ FlFields(r.fl) /\ r.fl.pending = FALSE
            /\ r.run = x.run \/ (r.run = <<x.dir, x.last>> /\ x.last # 0)
<1> DEFINE es   == Entries(x.dir)
           here == ini_dir_is(x, x.dir)
           id   == IF x.fl.name # 0 THEN x.fl.name ELSE IF x.fl.sel # 0 THEN x.fl.sel
                   ELSE IF here THEN x.last ELSE 0
           list == [dir |-> x.dir, entries |-> es, sel |-> Place(es, id)]
           f    == [x.fl EXCEPT !.loaded = TRUE, !.autoload = FALSE, !.sel = 0, !.name = 0]
           t    == [x EXCEPT !.list = list, !.fl = f]
           goes == x.fl.autoload /\ here /\ x.last # 0 /\ es[Place(es, id)] = Entry("file", x.last)
           r    == read_files(x, opens)
<1>1. r = IF goes THEN SendTo(t, x.last, opens) ELSE t
  BY DEF read_files
<1>2. f = [x.fl EXCEPT !.loaded = TRUE, !.autoload = FALSE, !.sel = 0, !.name = 0]
  OBVIOUS
<1> HIDE DEF es, here, id, list, f, goes, r
<1>3. FlFields(f) /\ f.pending = FALSE
  BY <1>2, FlUpdates DEF StateFields
<1> HIDE DEF t
<1>6. /\ StateFields(t) /\ t.dir = x.dir /\ t.ini = x.ini /\ t.last = x.last
      /\ t.fl = f /\ t.run = x.run
  <2>1. t = Listed(x, list, f)
    BY DEF t, Listed
  <2> QED
    BY <1>3, <2>1, StateListed
<1>4. CASE goes /\ opens
  <2>1. r = [t EXCEPT !.run = <<t.dir, x.last>>]
    BY <1>1, <1>4 DEF SendTo
  <2>2. x.last # 0
    BY <1>4 DEF goes
  <2>3. PICK a, b, c, d, e, g : t = [dir |-> a, ini |-> b, last |-> c, list |-> d, fl |-> e, run |-> g]
    BY <1>6 DEF StateFields
  <2>4. r.dir = t.dir /\ r.ini = t.ini /\ r.fl = t.fl /\ r.run = <<t.dir, x.last>>
    BY <2>1, <2>3
  <2> QED
    BY <1>3, <1>6, <2>2, <2>4 DEF r
<1>5. CASE ~(goes /\ opens)
  <2>1. r = t
    BY <1>1, <1>5 DEF SendTo
  <2> QED
    BY <1>3, <1>6, <2>1 DEF r
<1> QED
  BY <1>4, <1>5

\* While the core runs a list is read in the dir it is read for.
LEMMA OverlayFields ==
  ASSUME NEW x, StateFields(x), x.fl.pending = FALSE, NEW initSD \in BOOLEAN
  PROVE  LET r == app_file_loader_overlay(x, initSD, TRUE)
         IN r.dir = x.dir /\ r.ini = x.ini /\ FlFields(r.fl) /\ r.fl.pending = FALSE
<1>1. CASE initSD \/ ~x.fl.loaded
  <2>1. app_file_loader_overlay(x, initSD, TRUE) = read_files(x, TRUE)
    BY <1>1 DEF app_file_loader_overlay
  <2> QED
    BY <2>1, ReadFields
<1>2. CASE ~(initSD \/ ~x.fl.loaded)
  BY <1>2 DEF app_file_loader_overlay, StateFields
<1> QED
  BY <1>1, <1>2

\* What the steps read of the state as one record.
LEMMA StateIs ==
  ASSUME LoaderInv, power
  PROVE  /\ StateFields(State) /\ State.fl.pending = FALSE
         /\ State.dir = cur_dir /\ State.ini = ini_dir /\ State.fl = fl
BY DEF LoaderInv, LoaderFields, State, StateFields

\* A new card has no pair.
LEMMA LoaderStarts == ASSUME LoaderInit PROVE LoaderInv
BY LoaderAssumption DEF LoaderInit, LoaderInv, LoaderFields, PairKgo1, PairKgo2, IsPair, CardDirs, start_dir, NoLoad

\* Another dir is read: the pair stays.
LEMMA StepGo ==
  ASSUME LoaderInv, power, NEW d \in CardDirs, NEW child, go_dir(d, child),
         UNCHANGED <<format, power, card, due, chosen>>
  PROVE  LoaderInv'
<1> DEFINE x == [State EXCEPT !.dir = d, !.fl.name = child, !.fl.sel = 0]
           r == app_file_loader_overlay(x, TRUE, TRUE)
<1>1. StateFields(x) /\ x.fl.pending = FALSE /\ x.dir = d /\ x.ini = ini_dir
  <2> DEFINE f == [fl EXCEPT !.name = child, !.sel = 0]
  <2>1. StateFields(State) /\ FlFields(fl) /\ fl.pending = FALSE /\ State.ini = ini_dir
    BY StateIs DEF StateFields
  <2>2. x = Moved(State, d, f)
    BY DEF State, Moved
  <2>3. f = [fl EXCEPT !.name = child, !.sel = 0]
    OBVIOUS
  <2> HIDE DEF f, x
  <2>4. FlFields(f) /\ f.pending = FALSE
    BY <2>1, <2>3, FlUpdates
  <2> QED
    BY <2>1, <2>2, <2>4, StateMoved
<1>2. cur_dir' = r.dir /\ ini_dir' = r.ini /\ fl' = r.fl
  BY DEF go_dir, Becomes
<1> HIDE DEF x
<1>3. r.dir = d /\ r.ini = ini_dir /\ FlFields(r.fl) /\ r.fl.pending = FALSE
  BY <1>1, OverlayFields
<1> QED
  BY <1>2, <1>3 DEF LoaderInv, LoaderFields, PairKgo1, PairKgo2, IsPair

\* The list is read again, or it is the one that is there.
LEMMA StepShow ==
  ASSUME LoaderInv, power, NEW initSD \in BOOLEAN,
         Becomes(app_file_loader_overlay(State, initSD, TRUE)),
         UNCHANGED <<format, power, card, due, chosen>>
  PROVE  LoaderInv'
<1> DEFINE r == app_file_loader_overlay(State, initSD, TRUE)
<1>1. r.dir = cur_dir /\ r.ini = ini_dir /\ FlFields(r.fl) /\ r.fl.pending = FALSE
  BY StateIs, OverlayFields
<1>2. cur_dir' = r.dir /\ ini_dir' = r.ini /\ fl' = r.fl
  BY DEF Becomes
<1> QED
  BY <1>1, <1>2 DEF LoaderInv, LoaderFields, PairKgo1, PairKgo2, IsPair

\* A file is saved: in kgo1 the dir first and the id with it.
LEMMA StepLoadFile ==
  ASSUME CutInSave = FALSE, LoaderInv, LoadFile
  PROVE  LoaderInv'
<1> DEFINE id == fb.entries[fb.sel].id
<1>1. power /\ UNCHANGED <<format, power, cur_dir, fb, fl>>
  BY DEF LoadFile
<1>2. CASE format = "kgo2"
  <2>1. due' = <<cur_dir, id>> /\ UNCHANGED <<card, chosen>>
    BY <1>2 DEF LoadFile, SaveKgo2
  <2> HIDE DEF id
  <2>2. IsPair(due')
    BY <2>1 DEF IsPair, LoaderInv, LoaderFields
  <2> QED
    BY <1>1, <1>2, <2>1, <2>2 DEF LoaderInv, LoaderFields, PairKgo1, PairKgo2, IsPair
<1>3. CASE format = "kgo1"
  <2> DEFINE moved == ~ini_dir_is(State, cur_dir)
  <2>1. PICK saves \in BOOLEAN, opens \in BOOLEAN : SaveKgo1(id, saves, opens)
    BY <1>3 DEF LoadFile
  <2> DEFINE dir  == IF moved /\ saves THEN IniValue ELSE card.dir
             kept == SavedId(id, saves)
  <2>2. /\ ini_dir' = (IF moved /\ saves THEN IniValue ELSE ini_dir)
        /\ card' = [card EXCEPT !.dir = dir, !.id = IF opens THEN kept ELSE card.id]
        /\ chosen' = (IF ~opens THEN chosen ELSE IF kept = 0 THEN NoLoad ELSE <<cur_dir, id>>)
        /\ opens \/ dir = card.dir
        /\ due' = due
    BY <2>1 DEF SaveKgo1, LoaderInv, LoaderFields
  <2>3. /\ ini_dir = card.dir /\ cur_dir \in CardDirs /\ card.dir \in CardDirs \cup {""}
        /\ moved <=> cur_dir # DirOf(card.dir)
    BY <1>1, <1>3, StateIs DEF LoaderInv, LoaderFields, PairKgo1, ini_dir_is, DirOf
  <2>4. dir \in CardDirs \cup {""} /\ (moved /\ saves => DirOf(dir) = cur_dir)
    BY <2>3 DEF IniValue, DirOf, CardDirs, start_dir
  <2>5. kept # 0 => kept = id /\ DirOf(dir) = cur_dir
    BY <2>3, <2>4 DEF SavedId
  <2> HIDE DEF moved, dir, kept, id
  <2>6. /\ card' = [dir |-> dir, id |-> IF opens THEN kept ELSE card.id, path |-> card.path]
        /\ ini_dir' = dir
    BY <2>2, <2>3 DEF LoaderInv, LoaderFields, dir
  <2>7. LoaderFields'
    BY <1>1, <2>2, <2>4, <2>6 DEF LoaderInv, LoaderFields, IsPair
  <2>8. card'.id # 0 => chosen' = <<DirOf(card'.dir), card'.id>>
    <3>1. CASE opens
      BY <2>2, <2>5, <2>6, <3>1
    <3>2. CASE ~opens
      BY <1>3, <2>2, <2>6, <3>2 DEF LoaderInv, PairKgo1
    <3> QED
      BY <3>1, <3>2
  <2> QED
    BY <1>1, <1>3, <2>2, <2>6, <2>7, <2>8 DEF LoaderInv, PairKgo1, PairKgo2
<1> QED
  BY <1>2, <1>3 DEF LoaderInv, LoaderFields

\* The dir of the last file is read once.
LEMMA NotPending ==
  ASSUME NEW f, f = [loaded |-> FALSE, autoload |-> TRUE, sel |-> 0, name |-> 0, pending |-> TRUE],
         NEW g, g = [f EXCEPT !.pending = FALSE]
  PROVE  g = [loaded |-> FALSE, autoload |-> TRUE, sel |-> 0, name |-> 0, pending |-> FALSE]
OBVIOUS

\* The core starts with the pair of the card; by itself it gets no file but that.
LEMMA StepCoreLoaded ==
  ASSUME LoaderInv, app_file_loader_core_loaded
  PROVE  LoaderInv' /\ running' \in {NoLoad, chosen}
<1> DEFINE f  == [loaded |-> FALSE, autoload |-> TRUE, sel |-> 0, name |-> 0, pending |-> TRUE]
           id == IF format = "kgo1" THEN card.id ELSE 0
           x0 == [State EXCEPT !.last = id, !.run = NoLoad, !.fl = f]
           x  == dirs_init(x0)
           pair == IF format = "kgo2" THEN (IF card.path = NoLoad THEN "" ELSE card.path[1]) ELSE card.dir
           saved == IF format = "kgo2" THEN card.path[2] ELSE card.id
           g  == [loaded |-> FALSE, autoload |-> TRUE, sel |-> 0, name |-> 0, pending |-> FALSE]
<1>1. PICK opens \in BOOLEAN : Becomes(app_file_loader_overlay(x0, FALSE, opens))
  BY DEF app_file_loader_core_loaded
<1>2. x0 = [dir |-> cur_dir, ini |-> ini_dir, last |-> id, list |-> fb, fl |-> f, run |-> NoLoad]
  <2> HIDE DEF f, id
  <2>1. State = [dir |-> cur_dir, ini |-> ini_dir, last |-> last_id, list |-> fb, fl |-> fl, run |-> running]
    BY DEF State
  <2>2. x0 = [State EXCEPT !.last = id, !.run = NoLoad, !.fl = f]
    OBVIOUS
  <2> HIDE DEF x0
  <2> QED
    BY <2>1, <2>2
<1>3. x0.fl.pending = TRUE /\ x0.fl.loaded = FALSE
  BY <1>2
<1>4. x = [dir |-> DirOf(pair), ini |-> pair, last |-> saved, list |-> fb, fl |-> g, run |-> NoLoad]
  <2>1. x = [x0 EXCEPT !.ini = pair, !.dir = DirOf(pair), !.fl.pending = FALSE,
                       !.last = IF format = "kgo2" THEN card.path[2] ELSE x0.last]
    BY DEF dirs_init, DirOf
  <2>2. [f EXCEPT !.pending = FALSE] = g
    <3> DEFINE h == [f EXCEPT !.pending = FALSE]
    <3>1. /\ f = [loaded |-> FALSE, autoload |-> TRUE, sel |-> 0, name |-> 0, pending |-> TRUE]
          /\ h = [f EXCEPT !.pending = FALSE]
      OBVIOUS
    <3> HIDE DEF f, h
    <3>2. h = g
      BY <3>1, NotPending
    <3> QED
      BY <3>2 DEF h
  <2>3. x0.last = id /\ (IF format = "kgo2" THEN card.path[2] ELSE id) = saved
    BY <1>2 DEF LoaderInv, LoaderFields
  <2>4. x0.fl = f
    BY <1>2
  <2> HIDE DEF x, x0, pair, saved, id, f, g
  <2>5. x = [x0 EXCEPT !.ini = pair, !.dir = DirOf(pair), !.fl = [f EXCEPT !.pending = FALSE], !.last = saved]
    BY <2>1, <2>3, <2>4
  <2>6. x = [x0 EXCEPT !.ini = pair, !.dir = DirOf(pair), !.fl = g, !.last = saved]
    BY <2>2, <2>5
  <2> QED
    BY <1>2, <2>6
<1>5. x.fl.pending = FALSE
  <2> HIDE DEF x
  <2> QED
    BY <1>4
<1>6. app_file_loader_overlay(x0, FALSE, opens) = read_files(x, opens)
  <2>1. x.fl.pending = FALSE
    BY <1>5
  <2>2. x0.fl.pending = TRUE /\ x0.fl.loaded = FALSE
    BY <1>3
  <2> HIDE DEF x, x0
  <2>3. app_file_loader_overlay(x0, FALSE, opens) = read_files(x0, opens)
    BY <2>2 DEF app_file_loader_overlay
  <2>4. read_files(x0, opens) = read_files(x, opens)
    BY <2>1, <2>2 DEF read_files, x
  <2> QED
    BY <2>3, <2>4
<1>7. StateFields(x) /\ x.fl.pending = FALSE /\ x.dir = DirOf(pair) /\ x.ini = pair /\ x.last = saved /\ x.run = NoLoad
  <2> HIDE DEF x
  <2> QED
    BY <1>4 DEF StateFields, FlFields
<1> HIDE DEF x, x0
<1> DEFINE r == read_files(x, opens)
<1>8. /\ r.dir = DirOf(pair) /\ r.ini = pair /\ FlFields(r.fl) /\ r.fl.pending = FALSE
      /\ r.run = NoLoad \/ (r.run = <<DirOf(pair), saved>> /\ saved # 0)
  BY <1>7, ReadFields, ZenonT(60)
<1>9. cur_dir' = r.dir /\ ini_dir' = r.ini /\ fl' = r.fl /\ running' = r.run
  BY <1>1, <1>6 DEF Becomes
<1>10. power' = TRUE /\ UNCHANGED <<format, card, due, chosen>>
  BY DEF app_file_loader_core_loaded
<1>11. pair \in CardDirs \cup {""} /\ DirOf(pair) \in CardDirs
  BY DEF LoaderInv, LoaderFields, IsPair, DirOf, CardDirs, start_dir
<1>12. saved # 0 => chosen = <<DirOf(pair), saved>>
  <2>1. CASE format = "kgo1"
    BY <2>1 DEF LoaderInv, PairKgo1
  <2>2. CASE format = "kgo2"
    <3>1. ASSUME saved # 0 PROVE card.path # NoLoad
      BY <2>2, <3>1 DEF NoLoad
    <3>2. ASSUME card.path # NoLoad
          PROVE  card.path = <<card.path[1], card.path[2]>> /\ DirOf(pair) = card.path[1] /\ chosen = card.path
      BY <2>2, <3>2 DEF LoaderInv, LoaderFields, PairKgo2, IsPair, DirOf, CardDirs
    <3> QED
      BY <2>2, <3>1, <3>2
  <2> QED
    BY <2>1, <2>2 DEF LoaderInv, LoaderFields
<1>13. running' \in {NoLoad, chosen}
  BY <1>8, <1>9, <1>12
<1>14. format = "kgo1" => pair = card.dir
  OBVIOUS
<1> HIDE DEF r, pair, saved
<1> QED
  BY <1>8, <1>9, <1>10, <1>11, <1>13, <1>14 DEF LoaderInv, LoaderFields, PairKgo1, PairKgo2, IsPair

\* The other steps.
LEMMA StepLoader ==
  ASSUME CutInSave = FALSE, LoaderInv, [LoaderNext]_loaderVars
  PROVE  LoaderInv'
<1>1. CASE fb_key
  BY <1>1 DEF fb_key, LoaderInv, LoaderFields, PairKgo1, PairKgo2, IsPair
<1>2. CASE GoElsewhere
  <2>1. power /\ UNCHANGED <<format, power, card, due, chosen>> /\ start_dir \in CardDirs /\ "/" \in CardDirs /\ "a" \in CardDirs
    BY <1>2 DEF GoElsewhere, CardDirs, start_dir
  <2>2. CASE go_dir(start_dir, 0)
    BY <2>1, <2>2, StepGo
  <2>3. CASE go_dir("/", 1)
    BY <2>1, <2>3, StepGo
  <2>4. CASE go_dir("/", 0)
    BY <2>1, <2>4, StepGo
  <2>5. CASE go_dir("a", 0)
    BY <2>1, <2>5, StepGo
  <2>6. CASE Becomes(app_file_loader_overlay(State, TRUE, TRUE))
    BY <2>1, <2>6, StepShow
  <2> QED
    BY <1>2, <2>2, <2>3, <2>4, <2>5, <2>6 DEF GoElsewhere
<1>3. CASE LoadFile
  BY <1>3, StepLoadFile
<1>4. CASE app_file_loader_leave
  <2>1. fl' = [fl EXCEPT !.sel = fb.entries[fb.sel].id, !.loaded = FALSE] /\ FlFields(fl) /\ fl.pending = FALSE
    BY <1>4 DEF app_file_loader_leave, LoaderInv, LoaderFields
  <2>2. FlFields(fl') /\ fl'.pending = FALSE
    BY <2>1, FlUpdates
  <2> QED
    BY <1>4, <2>2 DEF app_file_loader_leave, LoaderInv, LoaderFields, PairKgo1, PairKgo2, IsPair
<1>5. CASE ComeBack
  BY <1>5, StepShow DEF ComeBack
<1>6. CASE FlushLoader
  <2>1. card' = [dir |-> card.dir, id |-> card.id, path |-> due] /\ due' = NoLoad /\ chosen' = due
    BY <1>6 DEF FlushLoader, LoaderInv, LoaderFields
  <2>2. UNCHANGED <<format, power, cur_dir, ini_dir, fl>> /\ due # NoLoad
    BY <1>6 DEF FlushLoader
  <2> QED
    BY <2>1, <2>2 DEF LoaderInv, LoaderFields, PairKgo1, PairKgo2, IsPair
<1>7. CASE PowerOff
  BY <1>7 DEF PowerOff, LoaderInv, LoaderFields, PairKgo1, PairKgo2, IsPair
<1>8. CASE app_file_loader_core_loaded
  BY <1>8, StepCoreLoaded
<1>9. CASE UNCHANGED loaderVars
  BY <1>9 DEF loaderVars, LoaderInv, LoaderFields, PairKgo1, PairKgo2, IsPair
<1> QED
  BY <1>1, <1>2, <1>3, <1>4, <1>5, <1>6, <1>7, <1>8, <1>9 DEF LoaderNext

\* The pair of the card is the file of the last save that is done, in both formats;
\* a kgo1 save that is cut between its two writes is left out, see the README.
THEOREM PairInvariant ==
  ASSUME CutInSave = FALSE
  PROVE  LoaderSpec => []LoaderInv
<1>1. LoaderInit => LoaderInv
  BY LoaderStarts
<1>2. LoaderInv /\ [LoaderNext]_loaderVars => LoaderInv'
  BY StepLoader
<1> QED
  BY <1>1, <1>2, PTL DEF LoaderSpec

\* The file that goes to the core by itself when it starts is the one of the last save
\* that is done, or none (app_file_loader_read_list(), app_file_loader_save()).
THEOREM AutoloadRight ==
  ASSUME CutInSave = FALSE
  PROVE  LoaderSpec => AutoloadIsChosen
<1>1. LoaderInv /\ [LoaderNext]_loaderVars
        => [app_file_loader_core_loaded => running' \in {NoLoad, chosen}]_loaderVars
  BY StepCoreLoaded
<1> QED
  BY <1>1, PairInvariant, PTL DEF LoaderSpec, AutoloadIsChosen

-----------------------------------------------------------------------------
(* The menu of the boot core.                                              *)

\* Division, as the pages and the thumbs use it.
LEMMA DivFacts ==
  /\ \A x \in Int : \A p \in Nat \ {0} :
       (x \div p) \in Int /\ (x \div p) * p <= x /\ x < (x \div p) * p + p
  /\ \A x \in Nat : \A p \in Nat \ {0} : (x \div p) \in Nat
  /\ \A x, q \in Int : \A p \in Nat \ {0} : q * p <= x /\ x < q * p + p => x \div p = q
  /\ \A x, y \in Int : \A p \in Nat \ {0} : x <= y => x \div p <= y \div p
OBVIOUS

\* The cursor of a list.
InList(sel, len) == sel \in Nat /\ (len > 0 => sel < len) /\ (len = 0 => sel = 0)

\* What a frame shows of a list with its cursor in it.
FrameTrue(f, c, sel) ==
  /\ Len(c) > 0 => f.sel = c[sel + 1] /\ f.sel \in f.shown
  /\ \A i \in f.hits : i \in Nat /\ (i < Len(c) => c[i + 1] \in f.shown)

\* The cursor stays in the list.
LEMMA MoveInRange ==
  ASSUME NEW sel \in Nat, NEW len \in Nat, NEW page \in Nat \ {0},
         NEW move \in {"up", "down", "page_up", "page_down"}
  PROVE  InList(kg_list_move(sel, len, page, move), len)
BY DEF InList, kg_list_move, Between

\* The page that is drawn is the one of the cursor, and the areas are of that page.
LEMMA FrameOfCursor ==
  ASSUME NEW c \in Seq(STRING), Len(c) < HIT_SETUP, NEW sel, InList(sel, Len(c)), NEW ft \in BOOLEAN
  PROVE  FrameTrue(Frame(c, sel, ft), c, sel)
<1> DEFINE size == IF ft THEN FtPage ELSE OsdPage
           from == (kg_list_page(sel, size) - 1) * size
           upto == IF from + size > Len(c) THEN Len(c) ELSE from + size
           area == IF ~ft THEN {} ELSE (from .. upto - 1) \cup {HIT_SETUP}
                 \cup (IF kg_list_pages(Len(c), size) > 1 THEN {HIT_PREV, HIT_NEXT} ELSE {})
           f == Frame(c, sel, ft)
<1>1. size \in Nat \ {0} /\ sel \in Nat /\ Len(c) \in Nat
  BY BootAssumption DEF InList
<1>2. from \in Nat /\ from <= sel /\ sel < from + size
  <2>0. from = (kg_list_page(sel, size) - 1) * size
    OBVIOUS
  <2> HIDE DEF size, from
  <2>1. (sel \div size) \in Nat /\ (sel \div size) * size <= sel /\ sel < (sel \div size) * size + size
    BY <1>1, DivFacts
  <2>2. from = (sel \div size) * size
    BY <1>1, <2>0, <2>1 DEF kg_list_page
  <2> QED
    BY <1>1, <2>1, <2>2
<1>3. /\ f.shown = {c[i + 1] : i \in from .. upto - 1}
      /\ f.sel = (IF c = <<>> THEN NoCore ELSE c[sel + 1])
      /\ f.hits = area
  BY DEF Frame
<1> HIDE DEF size, from, f
<1>4. upto \in Nat /\ (Len(c) > 0 => sel < upto) /\ upto <= Len(c)
  BY <1>1, <1>2 DEF InList
<1>5. ASSUME Len(c) > 0 PROVE f.sel = c[sel + 1] /\ f.sel \in f.shown
  <2>1. c # <<>> /\ sel \in from .. upto - 1
    BY <1>1, <1>2, <1>4, <1>5
  <2> QED
    BY <1>3, <2>1
<1>6. ASSUME NEW i \in f.hits PROVE i \in Nat /\ (i < Len(c) => c[i + 1] \in f.shown)
  <2>1. i \in from .. upto - 1 \/ i \in {HIT_SETUP, HIT_PREV, HIT_NEXT}
    BY <1>3, <1>6
  <2> QED
    BY <1>1, <1>2, <1>3, <1>4, <2>1 DEF HIT_SETUP, HIT_PREV, HIT_NEXT
<1> QED
  BY <1>5, <1>6 DEF FrameTrue, f

\* The countdown runs for the autoload core only, under the cursor; the frame is of the
\* cursor, and under the setup screen it keeps the core that the cursor has.
MenuFields ==
  /\ cores \in {Cores, Reversed(Cores)} /\ InList(core_sel, cores_len)
  /\ has_ft \in BOOLEAN /\ setup_focus \in BOOLEAN /\ at \in {"browser", "setup", "core"}
  /\ countdown \in Int /\ countdown >= -1
CountdownTrue ==
  countdown >= 0 => at = "browser" /\ cores_len > 0 /\ cores[core_sel + 1] = AutoloadCore
FrameKept ==
  /\ at = "browser" => FrameTrue(frame, cores, core_sel)
  /\ at = "setup" /\ cores_len > 0 => frame.sel = cores[core_sel + 1] /\ frame.sel \in frame.shown
StartedTrue ==
  /\ started.by = "autoload" => started.core = AutoloadCore
  /\ started.by = "user" => started.core = frame.sel
  /\ at # "core" => started = [core |-> NoCore, by |-> "nobody"]
BootInv == MenuFields /\ CountdownTrue /\ FrameKept /\ StartedTrue

\* Both orders are lists of the same cores.
LEMMA OrdersFacts ==
  /\ \A order \in {Cores, Reversed(Cores)} :
       order \in Seq(STRING) /\ Len(order) = Len(Cores) /\ Len(order) < HIT_SETUP
  /\ \A a, b \in {Cores, Reversed(Cores)} : \A i \in DOMAIN a : \E j \in DOMAIN b : b[j] = a[i]
<1>1. Cores \in Seq(STRING) /\ Len(Cores) \in Nat /\ Len(Cores) < HIT_SETUP
  BY BootAssumption DEF MAX_CORES, HIT_SETUP
<1>2. /\ Reversed(Cores) \in Seq(STRING) /\ Len(Reversed(Cores)) = Len(Cores)
      /\ \A i \in 1 .. Len(Cores) : Reversed(Cores)[i] = Cores[Len(Cores) - i + 1]
  BY <1>1 DEF Reversed
<1>3. ASSUME NEW i \in 1 .. Len(Cores)
      PROVE  /\ \E j \in 1 .. Len(Cores) : Reversed(Cores)[j] = Cores[i]
             /\ \E j \in 1 .. Len(Cores) : Cores[j] = Reversed(Cores)[i]
  <2>1. /\ Len(Cores) - i + 1 \in 1 .. Len(Cores)
        /\ Len(Cores) - (Len(Cores) - i + 1) + 1 = i
    BY <1>1, <1>3
  <2> QED
    BY <1>2, <2>1
<1>4. DOMAIN Cores = 1 .. Len(Cores) /\ DOMAIN Reversed(Cores) = 1 .. Len(Cores)
  BY <1>1, <1>2
<1> HIDE DEF Reversed
<1>5. ASSUME NEW a \in {Cores, Reversed(Cores)}, NEW b \in {Cores, Reversed(Cores)}, NEW i \in DOMAIN a
      PROVE  \E j \in DOMAIN b : b[j] = a[i]
  <2>1. i \in 1 .. Len(Cores)
    BY <1>4
  <2> QED
    BY <1>3, <1>4, <2>1
<1> QED
  BY <1>1, <1>2, <1>5

\* The menu starts with the autoload core selected, if it is there, and counts only then.
LEMMA BootStarts == ASSUME BootInit PROVE BootInv
<1>1. PICK order \in {Cores, Reversed(Cores)} :
        cores = order /\ core_sel = ReadList(order).sel /\ countdown = ReadList(order).left
  BY DEF BootInit
<1>2. order \in Seq(STRING) /\ Len(order) < HIT_SETUP
  BY OrdersFacts
<1> DEFINE of == {i \in DOMAIN order : order[i] = AutoloadCore}
<1>3. /\ InList(core_sel, Len(order)) /\ countdown \in Int /\ countdown >= -1
      /\ countdown >= 0 => Len(order) > 0 /\ order[core_sel + 1] = AutoloadCore
  <2>1. CASE of = {}
    BY <1>1, <1>2, <2>1 DEF ReadList, InList
  <2>2. CASE of # {}
    <3>1. PICK i \in of : core_sel = i - 1 /\ countdown = Countdown
      BY <1>1, <2>2 DEF ReadList
    <3>2. i \in 1 .. Len(order) /\ order[i] = AutoloadCore
      BY <1>2
    <3> QED
      BY <1>2, <3>1, <3>2, BootAssumption DEF InList
  <2> QED
    BY <2>1, <2>2
<1>4. FrameTrue(frame, cores, core_sel)
  BY <1>1, <1>2, <1>3, FrameOfCursor DEF BootInit
<1> QED
  BY <1>1, <1>3, <1>4 DEF BootInit, BootInv, MenuFields, CountdownTrue, FrameKept, StartedTrue, cores_len

\* What is drawn now shows the cursor.
LEMMA DrawnTrue ==
  ASSUME drawn_now, cores' \in {Cores, Reversed(Cores)}, InList(core_sel', Len(cores')), has_ft' \in BOOLEAN
  PROVE  FrameTrue(frame', cores', core_sel')
<1>1. cores' \in Seq(STRING) /\ Len(cores') < HIT_SETUP
  BY OrdersFacts
<1> QED
  BY <1>1, FrameOfCursor DEF drawn_now

\* A step within the menu that keeps the list and draws again.
LEMMA StepMoves ==
  ASSUME BootInv, at = "browser", drawn_now, UNCHANGED <<at, cores, started>>,
         InList(core_sel', cores_len), has_ft' \in BOOLEAN, setup_focus' \in BOOLEAN,
         countdown' = -1 \/ UNCHANGED <<core_sel, countdown>>
  PROVE  BootInv'
<1>1. FrameTrue(frame', cores', core_sel')
  BY DrawnTrue DEF BootInv, MenuFields, cores_len
<1> QED
  BY <1>1 DEF BootInv, MenuFields, CountdownTrue, FrameKept, StartedTrue, cores_len

\* A core is started: by the user the selected one, by the countdown the autoload core.
LEMMA StepStarts ==
  ASSUME BootInv, at = "browser", cores_len > 0, NEW who \in {"user", "autoload"},
         who = "autoload" => countdown >= 0, start_core(who)
  PROVE  BootInv'
<1>1. frame.sel = cores[core_sel + 1]
  BY DEF BootInv, FrameKept, FrameTrue, cores_len
<1>2. who = "autoload" => cores[core_sel + 1] = AutoloadCore
  BY DEF BootInv, CountdownTrue
<1>3. /\ countdown' = -1 /\ has_ft' = FALSE /\ at' = "core"
      /\ started' = [core |-> cores[core_sel + 1], by |-> who]
      /\ UNCHANGED <<cores, core_sel, setup_focus, frame>>
  BY DEF start_core
<1>4. MenuFields'
  <2>1. InList(core_sel', cores_len') /\ cores' \in {Cores, Reversed(Cores)}
    BY <1>3 DEF BootInv, MenuFields, cores_len
  <2>2. setup_focus' \in BOOLEAN
    BY <1>3 DEF BootInv, MenuFields
  <2>3. has_ft' \in BOOLEAN
    BY <1>3
  <2>4. at' \in {"browser", "setup", "core"}
    BY <1>3
  <2>5. countdown' \in Int /\ countdown' >= -1
    BY <1>3
  <2> QED
    BY <2>1, <2>2, <2>3, <2>4, <2>5 DEF MenuFields
<1>5. CountdownTrue' /\ FrameKept'
  BY <1>3 DEF CountdownTrue, FrameKept
<1>6. StartedTrue'
  BY <1>1, <1>2, <1>3 DEF StartedTrue
<1> QED
  BY <1>4, <1>5, <1>6 DEF BootInv

\* The setup screen is opened over the frame.
LEMMA StepSetup ==
  ASSUME BootInv, at = "browser", open_setup
  PROVE  BootInv'
<1>1. /\ countdown' = -1 /\ setup_focus' = FALSE /\ at' = "setup"
      /\ UNCHANGED <<cores, core_sel, has_ft, frame, started>>
  BY DEF open_setup
<1>2. MenuFields'
  <2>1. InList(core_sel', cores_len') /\ cores' \in {Cores, Reversed(Cores)}
    BY <1>1 DEF BootInv, MenuFields, cores_len
  <2>2. has_ft' \in BOOLEAN
    BY <1>1 DEF BootInv, MenuFields
  <2>3. setup_focus' \in BOOLEAN
    BY <1>1
  <2>4. at' \in {"browser", "setup", "core"}
    BY <1>1
  <2>5. countdown' \in Int /\ countdown' >= -1
    BY <1>1
  <2> QED
    BY <2>1, <2>2, <2>3, <2>4, <2>5 DEF MenuFields
<1>3. CountdownTrue' /\ FrameKept'
  BY <1>1 DEF BootInv, CountdownTrue, FrameKept, FrameTrue, cores_len
<1>4. StartedTrue'
  BY <1>1 DEF BootInv, StartedTrue
<1> QED
  BY <1>2, <1>3, <1>4 DEF BootInv

\* The other steps.
LEMMA StepBoot ==
  ASSUME BootInv, [BootNext]_bootVars
  PROVE  BootInv'
<1>1. /\ core_sel \in Nat /\ InList(core_sel, cores_len) /\ cores_len \in Nat
      /\ has_ft \in BOOLEAN /\ setup_focus \in BOOLEAN
      /\ FtPage \in Nat \ {0} /\ page_size \in Nat \ {0}
  BY OrdersFacts, BootAssumption DEF BootInv, MenuFields, InList, cores_len, page_size
<1>2. CASE ListKey
  <2>1. PICK move \in {"up", "down", "page_up", "page_down"}, repeat \in BOOLEAN :
          IF Focused /\ move # "page_up"
          THEN setup_focus' = FALSE /\ UNCHANGED <<core_sel, countdown>>
          ELSE IF move = "page_up" /\ has_ft /\ core_sel = 0
          THEN /\ countdown' = -1 /\ UNCHANGED core_sel
               /\ setup_focus' = (setup_focus \/ ~repeat)
          ELSE MoveInList(move) /\ setup_focus' = (setup_focus /\ has_ft)
    BY <1>2 DEF ListKey
  <2>2. at = "browser" /\ drawn_now /\ UNCHANGED <<at, cores, has_ft, started>>
    BY <1>2 DEF ListKey, Keys, InBrowser
  <2>3. InList(kg_list_move(core_sel, cores_len, page_size, move), cores_len)
    BY <1>1, MoveInRange
  <2>4. /\ InList(core_sel', cores_len) /\ setup_focus' \in BOOLEAN
        /\ countdown' = -1 \/ UNCHANGED <<core_sel, countdown>>
    BY <1>1, <2>1, <2>3 DEF MoveInList
  <2> QED
    BY <1>1, <2>2, <2>4, StepMoves
<1>3. CASE EnterKey
  BY <1>3, StepStarts, StepSetup DEF EnterKey, InBrowser
<1>4. CASE SetupKey
  BY <1>4, StepSetup DEF SetupKey, InBrowser
<1>5. CASE SpaceKey
  BY <1>1, <1>5, StepMoves DEF SpaceKey, InBrowser
<1>6. CASE GuiKey
  BY <1>1, <1>6, StepMoves DEF GuiKey, InBrowser
<1>7. CASE Wheel
  <2>1. InList(core_sel', cores_len)
    BY <1>1, <1>7 DEF Wheel, Between, InList
  <2> QED
    BY <1>1, <1>7, <2>1, StepMoves DEF Wheel, Mouse, InBrowser
<1>8. CASE ClickCore
  <2>1. PICK id \in frame.hits :
          /\ id < cores_len
          /\ IF id = core_sel THEN start_core("user")
             ELSE /\ core_sel' = id /\ countdown' = -1 /\ setup_focus' = FALSE
                  /\ UNCHANGED <<cores, has_ft, at, started>>
                  /\ drawn_now
    BY <1>8 DEF ClickCore
  <2>2. at = "browser" /\ id \in Nat /\ cores_len > 0
    BY <1>1, <1>8, <2>1 DEF ClickCore, Mouse, InBrowser, BootInv, FrameKept, FrameTrue
  <2>3. CASE id = core_sel
    BY <2>1, <2>2, <2>3, StepStarts
  <2>4. CASE id # core_sel
    <3>1. InList(core_sel', cores_len)
      BY <1>1, <2>1, <2>2, <2>4 DEF InList
    <3> QED
      BY <1>1, <2>1, <2>2, <2>4, <3>1, StepMoves
  <2> QED
    BY <2>3, <2>4
<1>9. CASE ClickElse
  <2>1. CASE open_setup
    BY <1>9, <2>1, StepSetup DEF ClickElse, Mouse, InBrowser
  <2>2. CASE \E id \in (frame.hits \cap {HIT_PREV, HIT_NEXT}) \cup {HIT_NONE} :
               /\ core_sel' = IF id = HIT_NONE THEN core_sel
                              ELSE kg_list_move(core_sel, cores_len, FtPage,
                                                IF id = HIT_PREV THEN "page_up" ELSE "page_down")
               /\ countdown' = -1 /\ setup_focus' = FALSE
               /\ UNCHANGED <<cores, has_ft, at, started>>
               /\ drawn_now
    <3>1. \A move \in {"page_up", "page_down"} : InList(kg_list_move(core_sel, cores_len, FtPage, move), cores_len)
      BY <1>1, MoveInRange
    <3>2. InList(core_sel', cores_len)
      BY <1>1, <2>2, <3>1
    <3> QED
      BY <1>1, <1>9, <2>2, <3>2, StepMoves DEF ClickElse, Mouse, InBrowser
  <2> QED
    BY <1>9, <2>1, <2>2 DEF ClickElse
<1>10. CASE app_core_browser_on_time
  <2>1. at = "browser" /\ cores_len > 0
    BY <1>10 DEF app_core_browser_on_time, BootInv, CountdownTrue
  <2>2. CASE countdown = 0
    BY <1>10, <2>1, <2>2, StepStarts DEF app_core_browser_on_time
  <2>3. CASE countdown # 0
    BY <1>10, <2>3 DEF app_core_browser_on_time, BootInv, MenuFields, CountdownTrue, FrameKept, StartedTrue, cores_len
  <2> QED
    BY <2>2, <2>3
<1>11. CASE ApplySort
  <2>1. /\ at = "setup" /\ cores_len > 0 /\ cores' \in {Cores, Reversed(Cores)}
        /\ core_sel' = (CHOOSE i \in DOMAIN cores' : cores'[i] = cores[core_sel + 1]) - 1
        /\ UNCHANGED <<countdown, has_ft, setup_focus, at, frame, started>>
    BY <1>11 DEF ApplySort, app_core_browser_sort
  <2>2. /\ cores \in {Cores, Reversed(Cores)} /\ cores \in Seq(STRING) /\ cores' \in Seq(STRING)
        /\ Len(cores) = Len(Cores) /\ Len(cores') = Len(Cores)
    BY <2>1, OrdersFacts DEF BootInv, MenuFields
  <2>3. core_sel + 1 \in DOMAIN cores /\ cores \in {Cores, Reversed(Cores)}
    BY <1>1, <2>1, <2>2 DEF cores_len, InList
  <2>4. \E i \in DOMAIN cores' : cores'[i] = cores[core_sel + 1]
    BY <2>1, <2>3, OrdersFacts
  <2>5. PICK i \in DOMAIN cores' : cores'[i] = cores[core_sel + 1] /\ core_sel' = i - 1
    BY <2>1, <2>4
  <2>6. i \in 1 .. cores_len' /\ cores_len' = cores_len
    BY <2>5, <2>2 DEF cores_len
  <2>7. InList(core_sel', cores_len') /\ cores'[core_sel' + 1] = cores[core_sel + 1]
    BY <1>1, <2>5, <2>6 DEF InList
  <2> QED
    BY <2>1, <2>6, <2>7 DEF BootInv, MenuFields, CountdownTrue, FrameKept, StartedTrue
<1>12. CASE LeaveSetup
  <2>1. /\ at = "setup" /\ at' = "browser" /\ drawn_now
        /\ UNCHANGED <<cores, core_sel, countdown, has_ft, setup_focus, started>>
    BY <1>12 DEF LeaveSetup
  <2>2. FrameTrue(frame', cores', core_sel')
    BY <1>1, <2>1, DrawnTrue DEF BootInv, MenuFields, cores_len
  <2> QED
    BY <2>1, <2>2 DEF BootInv, MenuFields, CountdownTrue, FrameKept, StartedTrue, cores_len
<1>13. CASE UNCHANGED bootVars
  BY <1>13 DEF bootVars, BootInv, MenuFields, CountdownTrue, FrameKept, StartedTrue, cores_len
<1> QED
  BY <1>2, <1>3, <1>4, <1>5, <1>6, <1>7, <1>8, <1>9, <1>10, <1>11, <1>12, <1>13 DEF BootNext

\* The cursor, the countdown and the frame agree, with keys, mouse and timer in any order.
THEOREM BootInvariant == BootSpec => []BootInv
<1>1. BootInit => BootInv
  BY BootStarts
<1>2. BootInv /\ [BootNext]_bootVars => BootInv'
  BY StepBoot
<1> QED
  BY <1>1, <1>2, PTL DEF BootSpec

\* The core that starts is the one the frame had selected, or the autoload core; an area
\* that can be clicked is a core drawn on that page (start_core(),
\* app_core_browser_sort(), app_core_browser_ft_menu()): for all lists of up to
\* MAX_CORES cores, pages and countdowns.
THEOREM StartsMeant == BootSpec => []MeantCoreStarts
<1>1. BootInv => MeantCoreStarts
  BY DEF BootInv, MenuFields, FrameKept, FrameTrue, StartedTrue, MeantCoreStarts, cores_len
<1> QED
  BY <1>1, BootInvariant, PTL

-----------------------------------------------------------------------------
(* The lists and their scrollbar.                                          *)

\* Half of a number.
LEMMA Halves == \A x \in Nat : (x \div 2) \in Nat /\ 2 * (x \div 2) <= x /\ x <= 2 * (x \div 2) + 1
OBVIOUS

\* The window of a list shows its cursor and stays in the list.
LEMMA WindowShows ==
  ASSUME NEW t \in Nat, NEW p \in Nat, NEW v \in Nat \ {0}, NEW n \in Nat \ {0}, p < n
  PROVE  LET top == kg_list_window(t, p, v, n)
         IN top \in Nat /\ top <= p /\ p < top + v /\ (top + v <= n \/ top = 0)
BY DEF kg_list_window, Between

\* a parts of k of a room, rounded: none at the start, all at the end, in between else.
LEMMA PartOfRoom ==
  ASSUME NEW room \in Nat, NEW k \in Nat \ {0}, NEW a \in 0 .. k
  PROVE  LET p == (room * a + k \div 2) \div k
         IN /\ p \in 0 .. room
            /\ a = 0 => p = 0
            /\ a = k => p = room
<1> DEFINE half == k \div 2
           x == room * a
           y == room * k
           p == (x + half) \div k
<1>1. half \in Nat /\ half < k
  BY Halves
<1>2. x \in Nat /\ y \in Nat /\ x <= y /\ (a = 0 => x = 0) /\ (a = k => x = y)
  <2>1. \A i, j, l \in Nat : i <= j => l * i <= l * j /\ l * i \in Nat /\ l * j \in Nat
    OBVIOUS
  <2> QED
    BY <2>1
<1> HIDE DEF half, x
<1>3. p \in Nat
  BY <1>1, <1>2, DivFacts
<1>4. (y + half) \div k = room
  <2>1. y + half \in Int /\ room \in Int /\ room * k <= y + half /\ y + half < room * k + k
    BY <1>1, <1>2
  <2> QED
    BY <2>1, DivFacts
<1>5. half \div k = 0
  <2>1. half \in Int /\ 0 * k <= half /\ half < 0 * k + k
    BY <1>1
  <2> QED
    BY <2>1, DivFacts
<1> HIDE DEF y
<1>6. p <= room
  <2>1. x + half \in Int /\ y + half \in Int /\ x + half <= y + half
    BY <1>1, <1>2
  <2>2. p <= (y + half) \div k
    BY <2>1, DivFacts
  <2> QED
    BY <1>4, <2>2
<1>7. a = 0 => p = 0
  <2>1. a = 0 => x + half = half
    BY <1>1, <1>2
  <2> QED
    BY <1>5, <2>1
<1>8. a = k => p = room
  BY <1>2, <1>4
<1> QED
  BY <1>3, <1>6, <1>7, <1>8 DEF half, x

\* The thumb of a window that scrolls.
LEMMA ThumbRight ==
  ASSUME NEW h \in Nat \ {0}, NEW v \in Nat \ {0}, NEW n \in Nat \ {0}, NEW top \in Nat,
         top + v <= n \/ top = 0
  PROVE  LET th == kg_list_thumb(h, top, v, n)
         IN th.len > 0 =>
              /\ th.pos + th.len <= h
              /\ top = 0 => th.pos = 0
              /\ top = n - v => th.pos + th.len = h
              /\ h - th.len >= 2 /\ top \notin {0, n - v} => th.pos > 0 /\ th.pos + th.len < h
<1> DEFINE th   == kg_list_thumb(h, top, v, n)
           len  == Between(1, (h * v + n \div 2) \div n, h \div 2)
           last == n - v
           t    == Between(0, top, last)
           room == h - len
           p    == (room * t + last \div 2) \div last
           pos  == IF t \in {0, last} THEN room * (t \div last)
                   ELSE IF room >= 2 THEN Between(1, p, room - 1) ELSE p
<1>1. CASE n <= v \/ h < 2
  BY <1>1 DEF kg_list_thumb
<1>2. CASE ~(n <= v \/ h < 2)
  <2>1. th = [len |-> len, pos |-> pos]
    BY <1>2 DEF kg_list_thumb
  <2>2. last \in Nat \ {0} /\ t = top /\ t \in 0 .. last
    BY <1>2 DEF Between
  <2>3. len \in 1 .. h - 1 /\ room \in Nat \ {0} /\ room = h - len
    <3> DEFINE w == (h * v + n \div 2) \div n
               hh == h \div 2
    <3>1. hh \in Nat /\ hh >= 1 /\ hh < h
      BY <1>2, Halves
    <3>2. w \in Int
      <4>1. h * v + n \div 2 \in Int
        BY Halves
      <4> QED
        BY <4>1, DivFacts
    <3> HIDE DEF w, hh
    <3>3. len = Between(1, w, hh)
      BY DEF w, hh
    <3>4. Between(1, w, hh) \in 1 .. h - 1
      BY <3>1, <3>2 DEF Between
    <3> HIDE DEF len
    <3> QED
      BY <3>3, <3>4
  <2> HIDE DEF last, len, room, t, th
  <2>4. p \in 0 .. room /\ (t = 0 => p = 0) /\ (t = last => p = room)
    BY <2>2, <2>3, PartOfRoom
  <2> HIDE DEF p
  <2>5. /\ t = 0 => pos = 0
        /\ t = last => pos = room
        /\ t \notin {0, last} => pos = IF room >= 2 THEN Between(1, p, room - 1) ELSE p
    <3>1. 0 \div last = 0 /\ last \div last = 1
      <4>1. \A k \in Nat \ {0} : 0 * k <= 0 /\ 0 < 0 * k + k /\ 1 * k <= k /\ k < 1 * k + k /\ k \in Int
        OBVIOUS
      <4> QED
        BY <2>2, <4>1, DivFacts
    <3>2. room * 0 = 0 /\ room * 1 = room
      BY <2>3
    <3> QED
      BY <2>2, <3>1, <3>2
  <2> HIDE DEF pos
  <2>6. pos \in 0 .. room /\ (room >= 2 /\ t \notin {0, last} => pos \in 1 .. room - 1)
    BY <2>2, <2>3, <2>4, <2>5 DEF Between
  <2>7. th.len = len /\ th.pos = pos
    BY <2>1
  <2> QED
    BY <2>2, <2>3, <2>5, <2>6, <2>7 DEF th, last
<1> QED
  BY <1>1, <1>2

\* The thumb of a page, and the page of a cursor.
LEMMA PageThumbRight ==
  ASSUME NEW h \in Nat \ {0}, NEW pages \in Nat \ {0}, NEW page \in 1 .. pages
  PROVE  LET th == kg_list_page_thumb(h, page, pages)
         IN th.len > 0 => /\ th.pos + th.len <= h
                          /\ page = 1 => th.pos = 0
                          /\ page = pages => th.pos + th.len = h
<1> DEFINE th  == kg_list_page_thumb(h, page, pages)
           len == Between(1, h \div pages, h)
           room == h - len
           k == pages - 1
           a == Between(1, page, pages) - 1
           pos == (room * a + k \div 2) \div k
<1>1. CASE pages < 2 \/ h < 2
  BY <1>1 DEF kg_list_page_thumb
<1>2. CASE ~(pages < 2 \/ h < 2)
  <2>1. th = [len |-> len, pos |-> pos]
    BY <1>2 DEF kg_list_page_thumb
  <2>2. len \in 1 .. h
    <3>1. h \div pages \in Nat
      BY DivFacts
    <3> QED
      BY <3>1 DEF Between
  <2>3. k \in Nat \ {0} /\ a = page - 1 /\ a \in 0 .. k
    BY <1>2 DEF Between
  <2> HIDE DEF len, a, k, th
  <2>4. room \in Nat /\ room = h - len
    BY <2>2
  <2> HIDE DEF room
  <2>5. pos \in 0 .. room /\ (a = 0 => pos = 0) /\ (a = k => pos = room)
    <3>1. room \in Nat /\ k \in Nat \ {0} /\ a \in 0 .. k
      BY <2>3, <2>4
    <3> QED
      BY <3>1, PartOfRoom
  <2> HIDE DEF pos
  <2>6. th.len = len /\ th.pos = pos
    BY <2>1
  <2> QED
    BY <2>2, <2>3, <2>4, <2>5, <2>6 DEF th, k
<1> QED
  BY <1>1, <1>2

\* The cursor is on one of the pages.
LEMMA PageOfCursor ==
  ASSUME NEW sel \in Nat, NEW v \in Nat \ {0}, NEW n \in Nat \ {0}, sel < n
  PROVE  kg_list_pages(n, v) \in Nat \ {0} /\ kg_list_page(sel, v) \in 1 .. kg_list_pages(n, v)
<1> DEFINE q == sel \div v
           m == (n + v - 1) \div v
           r == (sel + v) \div v
<1>1. q \in Nat /\ m \in Nat
  BY DivFacts
<1>2. q + 1 <= m
  <2>1. q * v <= sel /\ sel < q * v + v
    BY DivFacts
  <2>2. (sel + v) \div v = q + 1
    <3>1. (q + 1) * v = q * v + v
      BY <1>1
    <3> HIDE DEF q
    <3>2. sel + v \in Int /\ q + 1 \in Int /\ (q + 1) * v <= sel + v /\ sel + v < (q + 1) * v + v
      BY <1>1, <2>1, <3>1
    <3> QED
      BY <3>2, DivFacts
  <2>3. r <= m
    BY DivFacts
  <2> QED
    BY <2>2, <2>3
<1> QED
  BY <1>1, <1>2 DEF kg_list_pages, kg_list_page

\* The bar that is drawn is of a window that shows the cursor.
BarDrawn ==
  bar.height = 0 \/
  \E h, v, n \in Nat \ {0} : \E t, p \in Nat :
    /\ p < n
    /\ bar = [height |-> h, visible |-> v, total |-> n, top |-> kg_list_window(t, p, v, n), sel |-> p]

\* Such a bar is right.
LEMMA DrawnRight == ASSUME BarDrawn PROVE BarRight
<1> SUFFICES ASSUME bar.height > 0 PROVE BarRight
  BY DEF BarRight
<1>1. bar.height # 0
  OBVIOUS
<1>2. PICK h, v, n \in Nat \ {0}, t, p \in Nat :
        /\ p < n
        /\ bar = [height |-> h, visible |-> v, total |-> n, top |-> kg_list_window(t, p, v, n), sel |-> p]
  BY <1>1 DEF BarDrawn
<1> DEFINE top == kg_list_window(t, p, v, n)
<1>3. bar.height = h /\ bar.visible = v /\ bar.total = n /\ bar.top = top /\ bar.sel = p
  BY <1>2
<1>4. top \in Nat /\ top <= p /\ p < top + v /\ (top + v <= n \/ top = 0)
  BY <1>2, WindowShows
<1> HIDE DEF top
<1> DEFINE th == kg_list_thumb(h, top, v, n)
           pages == kg_list_pages(n, v)
           page  == kg_list_page(p, v)
           pt == kg_list_page_thumb(h, page, pages)
<1>5. th.len > 0 =>
        /\ th.pos + th.len <= h
        /\ top = 0 => th.pos = 0
        /\ top = n - v => th.pos + th.len = h
        /\ h - th.len >= 2 /\ top \notin {0, n - v} => th.pos > 0 /\ th.pos + th.len < h
  BY <1>4, ThumbRight
<1>6. pages \in Nat \ {0} /\ page \in 1 .. pages
  BY <1>2, PageOfCursor
<1> HIDE DEF pages, page
<1>7. pt.len > 0 => /\ pt.pos + pt.len <= h
                    /\ page = 1 => pt.pos = 0
                    /\ page = pages => pt.pos + pt.len = h
  BY <1>6, PageThumbRight
<1>8. page <= pages
  BY <1>6
<1> HIDE DEF th, pt
<1> QED
  BY <1>3, <1>4, <1>5, <1>7, <1>8 DEF BarRight, th, pt, pages, page

\* The scrollbar and the page bar say where the list is, for all heights and lengths
\* (kg_list_window(), kg_list_thumb(), kg_list_page_thumb()).
THEOREM BarTrue == BarSpec => []BarRight
<1>1. BarInit => BarDrawn
  BY DEF BarInit, BarDrawn
<1>2. BarDrawn /\ [BarNext]_bar => BarDrawn'
  <2> SUFFICES ASSUME BarDrawn, [BarNext]_bar PROVE BarDrawn'
    OBVIOUS
  <2>1. CASE Draw
    <3>1. PICK h, v, n \in 1 .. MaxList, p, t \in 0 .. MaxList :
            /\ p < n
            /\ bar' = [height |-> h, visible |-> v, total |-> n, top |-> kg_list_window(t, p, v, n), sel |-> p]
      BY <2>1 DEF Draw
    <3>2. h \in Nat \ {0} /\ v \in Nat \ {0} /\ n \in Nat \ {0} /\ p \in Nat /\ t \in Nat
      BY ListAssumption
    <3> QED
      BY <3>1, <3>2 DEF BarDrawn
  <2>2. CASE UNCHANGED bar
    BY <2>2 DEF BarDrawn
  <2> QED
    BY <2>1, <2>2 DEF BarNext
<1>3. BarDrawn => BarRight
  BY DrawnRight
<1> QED
  BY <1>1, <1>2, <1>3, PTL DEF BarSpec
===============================================================================
