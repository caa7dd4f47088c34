------------------------------ MODULE CoreMenu ------------------------------
(***************************************************************************)
(* The menu of a core: pages, cursor, options, images chosen in the file   *)
(* browser, global hotkeys, the window of the OSD, and what is saved of it *)
(* (src/apps/app_core.c, on_global_hotkeys() of src/input/input.c,         *)
(* src/ui/osd_ui.c).                                                       *)
(*                                                                         *)
(* The items are those of CoreFile.  APP handles one event at a time, so   *)
(* an event is a step: the statics of app_core.c and the slots are one     *)
(* record, which the functions of the file map to another.  The card is    *)
(* the root and one dir, with the same image name in both.  The selection  *)
(* in the file browser is left out: Enter picks any entry.                 *)
(***************************************************************************)
EXTENDS CoreFile

CONSTANTS
  MenuFiles,    \* the core files whose menu is used
  PhysDrives,   \* the physical floppy drives of the board
  Hotkeys,      \* the items with a hotkey
  Coincidences  \* what may meet: "browsing" (hotkeys, redraws, saves and reloads
                \* while a file list is open), "hiding" (the same in the 200 ms
                \* after the OSD was hidden), "listed" (a reload, or the files of a
                \* loader core, with the list of a slot read)

ASSUME MenuAssumption ==
  /\ MenuFiles \subseteq CoreFiles /\ Hotkeys \subseteq Nat \ {0}
  /\ Coincidences \subseteq {"browsing", "hiding", "listed"}
  /\ {"", "x"} \cap PhysDrives = {}  \* no image, the image in each dir

Dirs   == {"/", "a"}
NoList == [of |-> "none", slot |-> 0, dir |-> "/", eject |-> FALSE]
NoPath == <<>>

VARIABLES
  m,       \* app_core.c: curr (curr_osd_item), page, pcur (page_cursor), fb (is_filebrowser),
           \* fbdir, fbslot, list (the file list in the file browser), last (last_mount_slot),
           \* slots (file_slots: dir, file, on), img (what the core has mounted),
           \* save (osd_need_save), dirty (core_state.c), kept (what the card has of it)
  screen,  \* osd_state: "menu", "loader" (the files of a file loader core) or "other"
  listed,  \* list_loaded of app_file_loader.c
  is_osd,
  hiding,  \* is_osd_hiding
  popup,   \* is_popup_hiding
  menu_on  \* the core shows the menu

menuVars == <<m, screen, listed, is_osd, hiding, popup, menu_on>>

\* The file's own parts the menu needs.
Kgo2     == cfile.format = "kgo2"
IsLoader == cfile.loader
Pages    == {0} \cup {osd[i].opens : i \in 1 .. osd_len}
Slots    == {0} \cup {osd[i].slot : i \in {j \in 1 .. osd_len : IsFile(osd[j].type)}}
SlotOf(i) == osd[i].slot

-----------------------------------------------------------------------------
(* Pages and cursor.                                                       *)

\* vis[], which is in the order of the items.
build_vis(o, page) == {i \in 1 .. osd_len : o[i].page = page /\ core_osd_shown(o, i)}
item_active(o, i) == core_osd_selectable(o, i) /\ core_osd_enabled(o, i)

Actives(o, page)  == {i \in build_vis(o, page) : item_active(o, i)}

first_item(o, page) ==
  IF Actives(o, page) # {} THEN Min(Actives(o, page))
  ELSE IF build_vis(o, page) # {} THEN Min(build_vis(o, page)) ELSE 1

\* Mutant: the page is synced, the cursor is not.
menu_sync_page(x, o) == [x EXCEPT !.page = o[x.curr].page]
menu_sync(x, o) ==
  LET page == o[x.curr].page
  IN [x EXCEPT !.page = page,
               !.curr = IF x.curr \in Actives(o, page) THEN x.curr ELSE first_item(o, page)]

\* kg_list_step_active(): the next one, around the ends.
step(x, o, d) ==
  LET others == Actives(o, x.page) \ {x.curr}
      ahead  == {i \in others : IF d > 0 THEN i > x.curr ELSE i < x.curr}
      next   == IF ahead # {} THEN ahead ELSE others
  IN IF x.curr \notin build_vis(o, x.page) \/ others = {} THEN x
     ELSE [x EXCEPT !.curr = IF d > 0 THEN Min(next) ELSE Max(next)]

menu_open_page(x, o, page) ==
  LET c == x.pcur[page]
  IN [x EXCEPT !.pcur[x.page] = x.curr, !.page = page,
               !.curr = IF c # 0 /\ c \in Actives(o, page) THEN c ELSE first_item(o, page)]

\* The first entry that opens the page.
page_entry(page) == Least({i \in 1 .. osd_len : osd[i].type = "M" /\ osd[i].opens = page})
menu_back(x, o) ==
  LET e == page_entry(x.page)
  IN [x EXCEPT !.pcur[x.page] = x.curr, !.page = IF e = 0 THEN 0 ELSE osd[e].page,
               !.curr = IF e = 0 THEN first_item(o, 0) ELSE e]

\* app_core_overlay(true): the menu from its start; the file browser stays as it is.
app_core_overlay(x, o) ==
  menu_sync([x EXCEPT !.page = 0, !.pcur = [p \in Pages |-> 0], !.curr = first_item(o, 0)], o)

-----------------------------------------------------------------------------
(* Images.                                                                 *)

Path(s) == IF ~s.on THEN NoPath ELSE IF s.file \in PhysDrives THEN <<s.file>> ELSE <<s.dir, s.file>>
img_mount(x, s) == [x EXCEPT !.img[s] = Path(x.slots[s])]

\* The slots ss without an image.
ejected(x, ss) ==
  [x EXCEPT !.slots = [s \in DOMAIN @ |-> IF s \in ss THEN [@[s] EXCEPT !.file = "", !.on = FALSE] ELSE @[s]],
            !.img = [s \in DOMAIN @ |-> IF s \in ss THEN NoPath ELSE @[s]], !.fbslot = -1, !.save = TRUE]
app_core_eject(x, i) == IF osd[i].type # "F" THEN x ELSE ejected(x, {SlotOf(i)})

\* Mutant: the drive stays in the other slot.
ejects_others_not(x, i, drive) == x
ejects_others(x, i, drive) ==
  LET on == {j \in 1 .. osd_len \ {i} :
               osd[j].type = "F" /\ x.slots[SlotOf(j)].on /\ x.slots[SlotOf(j)].file = drive}
  IN IF on = {} THEN x ELSE ejected(x, {SlotOf(j) : j \in on})
app_core_select_phys(x, i, drive) ==
  LET s == SlotOf(i)
  IN img_mount([ejects_others(x, i, drive) EXCEPT !.slots[s].file = drive, !.slots[s].on = TRUE,
                                                  !.fbslot = -1, !.save = TRUE], s)

cur_slot(x) == SlotOf(x.curr)

\* app_core_init_filebrowser()
read_list(x) ==
  [x EXCEPT !.list = [of |-> "slot", slot |-> cur_slot(x), dir |-> x.slots[cur_slot(x)].dir,
                      eject |-> osd[x.curr].type = "F" /\ x.slots[cur_slot(x)].on]]

\* An empty slot starts where another one has its image: the last one chosen, or
\* the first.
filebrowser_open(x) ==
  LET s     == cur_slot(x)
      other == {j \in 1 .. osd_len : osd[j].type = "F" /\ SlotOf(j) # s /\ x.slots[SlotOf(j)].on}
      from  == IF \E j \in other : SlotOf(j) = x.last THEN x.last ELSE SlotOf(Min(other))
      y     == [x EXCEPT !.fb = TRUE, !.fbdir = x.slots[s].dir]
  IN IF osd[x.curr].type # "F" \/ x.slots[s].on \/ other = {} THEN y
     ELSE [y EXCEPT !.slots[s].dir = x.slots[from].dir, !.fbslot = -1]

\* Mutant: Esc leaves the slot in the dir of the list.
filebrowser_esc_stays(x) == [x EXCEPT !.fb = FALSE]
filebrowser_esc(x) ==
  LET s == cur_slot(x)
  IN [x EXCEPT !.fb = FALSE, !.slots[s].dir = x.fbdir,
               !.fbslot = IF x.slots[s].dir # x.fbdir THEN -1 ELSE x.fbslot]

\* The list of another dir of the slot, at once.
in_dir(x, dir) == read_list([x EXCEPT !.slots[cur_slot(x)].dir = dir])

Image(x) ==
  LET s == cur_slot(x)
      y == [x EXCEPT !.slots[s].file = "x", !.slots[s].on = TRUE, !.fb = FALSE, !.fbslot = -1,
                     !.save = TRUE, !.last = IF osd[x.curr].type = "F" THEN s ELSE x.last]
  IN IF IsFile(osd[x.curr].type) THEN img_mount(y, s) ELSE y
Done(x) == [x EXCEPT !.fb = FALSE, !.save = TRUE]

-----------------------------------------------------------------------------
(* Saving and drawing.                                                     *)

Values(x, o) == [val |-> [i \in 1 .. osd_len |-> IF o[i].type = "S" THEN o[i].val ELSE 0],
                 path |-> [s \in DOMAIN x.slots |-> Path(x.slots[s])]]

\* Mutant: only the item under the cursor, whatever the format.
app_core_save_item(x, o) ==
  IF ~x.save THEN x
  ELSE IF IsFile(osd[x.curr].type)
  THEN [x EXCEPT !.save = FALSE, !.kept.path[cur_slot(x)] = Path(x.slots[cur_slot(x)])]
  ELSE [x EXCEPT !.save = FALSE, !.kept.val[x.curr] = Values(x, o).val[x.curr]]
\* kgo1: only the item under the cursor; kgo2: later, by core_state_flush().
app_core_save(x, o) ==
  IF ~x.save THEN x
  ELSE IF Kgo2 THEN [x EXCEPT !.save = FALSE, !.dirty = TRUE]
  ELSE IF IsFile(osd[x.curr].type)
  THEN [x EXCEPT !.save = FALSE, !.kept.path[cur_slot(x)] = Path(x.slots[cur_slot(x)])]
  ELSE [x EXCEPT !.save = FALSE, !.kept.val[x.curr] = Values(x, o).val[x.curr]]

\* Mutant: the list in memory is taken for the slot's.
redraw_list_any(x) == IF x.list.of = "none" THEN read_list([x EXCEPT !.fbslot = cur_slot(x)]) ELSE x
redraw_list(x) == IF x.fbslot # cur_slot(x) THEN read_list([x EXCEPT !.fbslot = cur_slot(x)]) ELSE x
redraw(x, o) == IF x.fb THEN redraw_list(x) ELSE menu_sync(x, o)
drawn(x, o) == app_core_save(redraw(x, o), o)

\* Before the key: what a hotkey left to save.
before(x) == IF x.save THEN app_core_save(x, osd) ELSE x

-----------------------------------------------------------------------------
(* Events: on_keyboard(), the button action of the OSD, the timers.        *)

BrowsingToo == m.fb => "browsing" \in Coincidences
HidingToo   == hiding => "hiding" \in Coincidences
coreKept == <<osd_len, cfile, roms_sent>>
window   == <<is_osd, hiding, popup, menu_on>>
SameItems == UNCHANGED <<osd, fpga_sw>> /\ UNCHANGED coreKept

\* The loader's files: its list takes the file browser, if it is not there.
ListedToo(x) == ~listed /\ x.fbslot # -1 => "listed" \in Coincidences
loader_shown(x) ==
  IF listed THEN x
  ELSE [x EXCEPT !.list = [of |-> "loader", slot |-> 0, dir |-> "/", eject |-> FALSE]]

InMenu == is_osd /\ screen = "menu" /\ ~m.fb
synced == menu_sync(before(m), osd)

\* Up and down; left, right and enter on an option.
MoveCursor ==
  /\ InMenu
  /\ \E d \in {-1, 1} : m' = drawn(step(synced, osd, d), osd)
  /\ SameItems /\ UNCHANGED <<screen, listed, window>>

ChangeOption ==
  /\ InMenu
  /\ item_active(osd, synced.curr) /\ osd[synced.curr].opts # <<>>
  /\ \E d \in {-1, 1} : core_osd_change(synced.curr, d)
  /\ m' = drawn([synced EXCEPT !.save = @ \/ osd[synced.curr].type = "S"], osd')
  /\ UNCHANGED <<screen, listed, window>>

OpenItem ==
  /\ InMenu
  /\ \/ osd[synced.curr].type = "M"
        /\ m' = drawn(menu_open_page(synced, osd, osd[synced.curr].opens), osd)
     \/ IsFile(osd[synced.curr].type) /\ core_osd_enabled(osd, synced.curr)
        /\ m' = drawn(filebrowser_open(synced), osd)
  /\ SameItems /\ UNCHANGED <<screen, listed, window>>

Eject ==
  /\ InMenu /\ osd[synced.curr].type = "F" /\ m.slots[cur_slot(synced)].on
  /\ m' = drawn(app_core_eject(synced, synced.curr), osd)
  /\ SameItems /\ UNCHANGED <<screen, listed, window>>

\* Setup and About, and the way back.
OtherScreen ==
  /\ \/ InMenu /\ screen' = "other" /\ m' = app_core_save(synced, osd)
     \/ is_osd /\ screen = "other" /\ screen' = "menu" /\ m' = app_core_overlay(before(m), osd)
  /\ SameItems /\ UNCHANGED <<listed, window>>

\* Mutant: the timer that ends the hiding is not started.
ui_osd_hide_only == menu_on' = FALSE /\ UNCHANGED hiding
ui_osd_hide == hiding' = TRUE /\ menu_on' = IF hiding THEN menu_on ELSE FALSE

\* What an Esc does to the screen.  Only a new press closes the OSD at the root
\* (ui_root_esc()); the Esc of Menu+Esc comes without the save before it.
EscMenu(x, fresh) ==
  IF x.page # 0 THEN m' = drawn(menu_back(x, osd), osd) /\ UNCHANGED <<screen, listed>>
  ELSE IF IsLoader THEN ListedToo(x) /\ screen' = "loader" /\ m' = loader_shown(x) /\ listed' = TRUE
  ELSE m' = (IF fresh THEN x ELSE drawn(x, osd)) /\ UNCHANGED <<screen, listed>>
EscPressed(x, fresh) ==
  \/ screen = "menu" /\ x.fb /\ m' = drawn(filebrowser_esc(x), osd) /\ UNCHANGED <<screen, listed>>
  \/ screen = "menu" /\ ~x.fb /\ EscMenu(menu_sync(x, osd), fresh)
  \/ screen = "loader" /\ m' = x /\ UNCHANGED <<screen, listed>>
Esc ==
  /\ is_osd /\ screen # "other"
  /\ EscPressed(before(m), TRUE)
  /\ IF screen = "loader" \/ (~m.fb /\ synced.page = 0 /\ ~IsLoader) THEN ui_osd_hide
     ELSE UNCHANGED <<hiding, menu_on>>
  /\ SameItems /\ UNCHANGED <<is_osd, popup>>

\* Enter on an entry of the list.
filebrowser_enter ==
  /\ is_osd /\ screen = "menu" /\ m.fb
  /\ LET x == before(m)
         s == cur_slot(x)
     IN \/ x.list.eject /\ m' = drawn(Done(app_core_eject(x, x.curr)), osd)
        \/ \E d \in PhysDrives :
             osd[x.curr].type = "F" /\ m' = drawn(Done(app_core_select_phys(x, x.curr, d)), osd)
        \/ m' = in_dir(x, "/")
        \/ x.list.dir = "/" /\ m' = in_dir(x, "a")
        \/ m' = drawn(Image(x), osd)
  /\ SameItems /\ UNCHANGED <<screen, listed, window>>

\* Backspace in the list.
ParentDir ==
  /\ is_osd /\ screen = "menu" /\ m.fb /\ m.slots[cur_slot(m)].dir # "/"
  /\ m' = in_dir(before(m), "/")
  /\ SameItems /\ UNCHANGED <<screen, listed, window>>

\* The loader's screen: Tab or O, to the core's menu.
FilesToMenu ==
  /\ is_osd /\ screen = "loader"
  /\ screen' = "menu" /\ listed' = FALSE
  /\ m' = app_core_overlay(before(m), osd)
  /\ SameItems /\ UNCHANGED window

\* Menu+Esc, and the button of the board: the first is an Esc of the screen too.
osd_toggle(key) ==
  /\ IF is_osd
     THEN ui_osd_hide /\ UNCHANGED is_osd
     ELSE is_osd' = TRUE /\ menu_on' = TRUE /\ UNCHANGED hiding
  /\ IF ~is_osd /\ IsLoader /\ screen = "menu"
     THEN ListedToo(m) /\ screen' = "loader" /\ m' = loader_shown(m) /\ listed' = TRUE
     ELSE IF ~key THEN UNCHANGED <<m, screen, listed>>
     ELSE IF screen # "other" THEN EscPressed(m, FALSE)
     ELSE /\ screen' \in {"other", "menu"} /\ UNCHANGED listed
          /\ m' = IF screen' = "menu" THEN app_core_overlay(m, osd) ELSE m
  /\ ~key => BrowsingToo
  /\ SameItems /\ UNCHANGED popup

\* A hotkey: of a switch, of a file item.
on_global_hotkeys(i) ==
  /\ i <= osd_len /\ BrowsingToo
  /\ LET x == [m EXCEPT !.curr = i]
         shown(y, o) == IF is_osd /\ screen = "menu" THEN drawn(y, o) ELSE y
     IN \/ /\ osd[i].type \in {"S", "NS"} /\ osd[i].opts # <<>>
           /\ core_osd_change(i, 1)
           /\ m' = shown([x EXCEPT !.save = @ \/ osd[i].type = "S"], osd')
           /\ popup' = (popup \/ ~is_osd) /\ UNCHANGED <<screen, listed, is_osd, hiding, menu_on>>
        \/ /\ core_trigger(i)
           /\ m' = shown(m, osd) /\ UNCHANGED <<screen, listed, window>>
        \/ /\ IsFile(osd[i].type) /\ HidingToo
           /\ screen' = IF screen = "loader" THEN "menu" ELSE screen
           /\ listed' = (listed /\ screen # "loader")
           /\ is_osd' = TRUE /\ menu_on' = TRUE /\ UNCHANGED <<hiding, popup>>
           /\ m' = IF screen = "loader" THEN app_core_overlay(drawn(x, osd), osd)
                   ELSE IF screen = "menu" THEN drawn(x, osd) ELSE x
           /\ SameItems

\* Any other key in the game, or one the screen does nothing for.
OtherKey ==
  /\ m' = (IF InMenu THEN synced ELSE before(m)) /\ SameItems /\ UNCHANGED <<screen, listed, window>>

\* ui_tick(): 200 ms after the OSD was hidden; 500 ms after the popup came.
HideEnd ==
  /\ hiding /\ hiding' = FALSE /\ is_osd' = FALSE
  /\ SameItems /\ UNCHANGED <<m, screen, listed, popup, menu_on>>
PopupEnd ==
  /\ popup /\ popup' = FALSE /\ BrowsingToo /\ (screen = "loader" => ListedToo(m))
  /\ m' = IF screen = "menu" THEN app_core_overlay(m, osd)
          ELSE IF screen = "loader" THEN loader_shown(m) ELSE m
  /\ listed' = (listed \/ screen = "loader")
  /\ SameItems /\ UNCHANGED <<screen, is_osd, hiding, menu_on>>

\* core_state_flush(), 2 s after the last change.
core_state_flush ==
  /\ m.dirty /\ BrowsingToo
  /\ m' = [m EXCEPT !.dirty = FALSE, !.kept = Values(m, osd)]
  /\ SameItems /\ UNCHANGED <<screen, listed, window>>

\* The core again, by its button (configure()): a kgo2 core's settings are written
\* first.  Its items get what the card has.
SlotAt(p) ==
  IF p = NoPath THEN [dir |-> "/", file |-> "", on |-> FALSE]
  ELSE IF Len(p) = 1 THEN [dir |-> "/", file |-> p[1], on |-> TRUE]
  ELSE [dir |-> p[1], file |-> p[2], on |-> TRUE]
do_reload ==
  /\ BrowsingToo /\ HidingToo /\ (m.fbslot # -1 => "listed" \in Coincidences)
  /\ LET x == IF Kgo2 /\ m.dirty THEN [m EXCEPT !.dirty = FALSE, !.kept = Values(m, osd)] ELSE m
         o == [i \in DOMAIN osd |-> IF i <= osd_len /\ osd[i].type = "S"
                                    THEN [osd[i] EXCEPT !.val = x.kept.val[i]] ELSE osd[i]]
         y == [x EXCEPT !.slots = [t \in DOMAIN x.slots |-> SlotAt(x.kept.path[t])],
                        !.img = x.kept.path]
     IN /\ osd' = o /\ fpga_sw' = core_send_all(SubSeq(o, 1, osd_len))
        /\ m' = IF screen = "menu" THEN app_core_overlay(y, o)
                ELSE IF screen = "loader" THEN [y EXCEPT !.list.of = "loader"] ELSE y
  /\ listed' = (screen = "loader")
  /\ is_osd' = IsLoader /\ menu_on' = IsLoader
  /\ UNCHANGED coreKept /\ UNCHANGED <<screen, hiding, popup>>

MenuInit ==
  /\ \E f \in MenuFiles :
       LET items == Read(f)
           none  == [s \in Slots |-> NoPath]
           start == [curr |-> 1, page |-> 0, pcur |-> [p \in Pages |-> 0],
                     fb |-> FALSE, fbdir |-> "/", fbslot |-> -1,
                     list |-> IF f.loader THEN [NoList EXCEPT !.of = "loader"] ELSE NoList, last |-> -1,
                     slots |-> [s \in Slots |-> SlotAt(NoPath)], img |-> none, save |-> FALSE, dirty |-> FALSE,
                     kept |-> [val |-> [i \in 1 .. osd_len |-> IF osd[i].type = "S" THEN osd[i].val ELSE 0],
                               path |-> none]]
       IN /\ osd = [i \in 1 .. MaxItems |-> IF i \in DOMAIN items THEN items[i] ELSE NoItem]
          /\ osd_len = Len(items) /\ cfile = f /\ roms_sent = <<>>
          /\ fpga_sw = [s \in Switches |->
                          LET of == {i \in DOMAIN items : ~IsFile(items[i].type) /\ items[i].sw = s}
                          IN IF of = {} THEN 0 ELSE core_osd_value(items[Max(of)])]
          /\ m = IF f.loader THEN start ELSE app_core_overlay(start, osd)
          /\ screen = (IF f.loader THEN "loader" ELSE "menu") /\ listed = f.loader
          /\ is_osd = f.loader /\ menu_on = f.loader
  /\ hiding = FALSE /\ popup = FALSE

MenuNext ==
  \/ MoveCursor \/ ChangeOption \/ OpenItem \/ Eject \/ OtherScreen \/ Esc
  \/ filebrowser_enter \/ ParentDir \/ FilesToMenu
  \/ \E key \in BOOLEAN : osd_toggle(key)
  \/ \E i \in Hotkeys : on_global_hotkeys(i)
  \/ OtherKey \/ HideEnd \/ PopupEnd \/ core_state_flush \/ do_reload
MenuSpec == MenuInit /\ [][MenuNext]_<<coreVars, menuVars>>

-----------------------------------------------------------------------------
Images == {"x"} \cup PhysDrives
Slot   == [dir : Dirs, file : {""} \cup Images, on : BOOLEAN]
Paths  == {NoPath} \cup {<<d>> : d \in PhysDrives} \cup (Dirs \X {"x"})
MenuTypeOK ==
  /\ m \in [curr : 1 .. MaxItems, page : Nat, pcur : [Pages -> 0 .. MaxItems],
            fb : BOOLEAN, fbdir : Dirs, fbslot : Slots \cup {-1},
            list : [of : {"none", "slot", "loader"}, slot : Slots, dir : Dirs, eject : BOOLEAN],
            last : Slots \cup {-1}, slots : [Slots -> Slot], img : [Slots -> Paths],
            save : BOOLEAN, dirty : BOOLEAN,
            kept : [val : [1 .. osd_len -> Nat], path : [Slots -> Paths]]]
  /\ {listed, is_osd, hiding, popup, menu_on} \subseteq BOOLEAN
  /\ screen \in {"menu", "loader", "other"}

\* The menu is where the user can go on: a drawn menu has its cursor on an item of
\* its page that takes it, as long as the page has one; the file list is of the
\* slot under the cursor and of its dir (menu_sync(), menu_back(), build_vis(),
\* app_core_init_filebrowser(); app_core.c:22 "the slot of the file list read
\* last, -1: read it again").
CursorRight ==
  screen = "menu" /\ is_osd /\ ~hiding /\ ~popup /\ ~m.fb /\ Actives(osd, m.page) # {} =>
    m.curr \in Actives(osd, m.page)
ListIsOfSlot ==
  screen = "menu" /\ m.fb =>
    /\ IsFile(osd[m.curr].type)
    /\ m.list.of = "slot" /\ m.list.slot = cur_slot(m) /\ m.list.dir = m.slots[cur_slot(m)].dir
    /\ m.list.eject => m.slots[cur_slot(m)].on
MenuRight == CursorRight /\ ListIsOfSlot

\* The core has the images the menu shows, browsing changed the dir of none of them
\* (app_core.c:24 "it stays the dir of the mounted image"), and a physical drive
\* is in one slot only (app_core_select_phys()).
ImagesRight ==
  /\ ~m.fb => \A s \in DOMAIN m.slots : m.img[s] = Path(m.slots[s])
  /\ \A s, t \in DOMAIN m.slots :
       m.slots[s].on /\ m.slots[s].file \in PhysDrives /\ m.slots[t].file = m.slots[s].file => s = t

\* Once nothing waits to be saved, the card has every switch and every image
\* (app_core_save(), core_state_flush()).
KeptRight == ~m.fb /\ ~m.save /\ ~m.dirty => m.kept = Values(m, osd)

\* The keys go to the menu exactly while the core shows it, but for the 200 ms
\* after it was hidden (ui_osd_hide(), ui_tick(), read_core()).
OsdHonest == ~hiding => is_osd = menu_on

\* The menu can be used whenever it is on the screen.
MenuUsable == MenuRight /\ OsdHonest

\* The menu of a core is usable, the core has what it shows, and it is kept.
CoreMenuRight == MenuUsable /\ ImagesRight /\ KeptRight
=============================================================================
