------------------------------ MODULE BootMenu ------------------------------
(***************************************************************************)
(* The menu of the boot core (src/apps/app_core_browser.c): the list of    *)
(* the cores on the card, on the OSD or on the FT812, keys and mouse, the  *)
(* countdown of the autoload, and the core that is started.                *)
(*                                                                         *)
(* Sorting is a choice between two orders.  A frame is what was drawn      *)
(* last: the cores of the page, the selected one, the clickable areas.     *)
(* Sounds, colors and the layout are left out.                             *)
(*                                                                         *)
(* Before it what the screens are made of.  The lists                      *)
(* (src/lib/common/kg_list.c): the cursor's moves, the pages, the window   *)
(* of a list that scrolls, and the scrollbar; positions are from 0, as in  *)
(* the code.  The names and paths of the card (src/lib/common/file_name.c):*)
(* their extensions, what is shown of them in a narrow column, and how a   *)
(* directory and a name become a path and back; a text is a sequence of    *)
(* characters, case is left out.                                           *)
(***************************************************************************)
EXTENDS Integers, SequencesExt, FiniteSetsExt

CONSTANT MaxList  \* the longest list, and the highest scrollbar, checked
ASSUME ListAssumption == MaxList \in Nat

VARIABLE bar  \* a scrollbar to draw: height, visible, total, top and where it is

Between(lo, x, hi) == IF x < lo THEN lo ELSE IF x > hi THEN hi ELSE x

kg_list_move(sel, len, page, move) ==
  LET s == Between(0, sel, len - 1)
  IN IF len = 0 THEN 0
     ELSE CASE move = "up"        -> IF s > 0 THEN s - 1 ELSE len - 1
            [] move = "down"      -> IF s + 1 < len THEN s + 1 ELSE 0
            [] move = "page_up"   -> Between(0, s - page, len - 1)
            [] move = "page_down" -> Between(0, s + page, len - 1)

kg_list_pages(len, page) == IF len = 0 THEN 1 ELSE (len + page - 1) \div page
kg_list_page(sel, page)  == sel \div page + 1

\* The first row of a window that shows sel.
kg_list_window(top, sel, visible, total) ==
  LET t == IF sel < top THEN sel ELSE IF sel >= top + visible THEN sel - visible + 1 ELSE top
  IN IF visible = 0 \/ total <= visible THEN 0 ELSE Between(0, t, total - visible)

\* The thumb: its place and its length; length 0: none.
\* Mutant: the cells between the ends are not kept off them.
kg_list_thumb_plain(height, top, visible, total) ==
  LET n    == Between(1, (height * visible + total \div 2) \div total, height \div 2)
      last == total - visible
      t    == Between(0, top, last)
  IN IF total <= visible \/ height < 2 THEN [pos |-> 0, len |-> 0]
     ELSE [pos |-> ((height - n) * t + last \div 2) \div last, len |-> n]
kg_list_thumb(height, top, visible, total) ==
  LET n    == Between(1, (height * visible + total \div 2) \div total, height \div 2)
      last == total - visible
      t    == Between(0, top, last)
      room == height - n
      p    == (room * t + last \div 2) \div last
  IN IF total <= visible \/ height < 2 THEN [pos |-> 0, len |-> 0]
     ELSE [len |-> n,
           pos |-> IF t \in {0, last} THEN room * (t \div last)
                   ELSE IF room >= 2 THEN Between(1, p, room - 1) ELSE p]

kg_list_page_thumb(height, page, pages) ==
  LET n == Between(1, height \div pages, height)
  IN IF pages < 2 \/ height < 2 THEN [pos |-> 0, len |-> 0]
     ELSE [len |-> n,
           pos |-> ((height - n) * (Between(1, page, pages) - 1) + (pages - 1) \div 2) \div (pages - 1)]

BarInit == bar = [height |-> 0, visible |-> 0, total |-> 0, top |-> 0]
\* A list is drawn.
Draw ==
  \E h, v, n \in 1 .. MaxList, s, t \in 0 .. MaxList :
    /\ s < n /\ t <= n /\ bar.height = 0
    /\ bar' = [height |-> h, visible |-> v, total |-> n, top |-> kg_list_window(t, s, v, n), sel |-> s]
BarNext == Draw
BarSpec == BarInit /\ [][BarNext]_bar

\* A scrollbar says where the list is: it is inside its track, it is at an end
\* exactly when the list is, as long as it has the room to say so, and the window
\* it stands for shows the cursor (kg_list_window(), kg_list_thumb(),
\* kg_list_page_thumb()).
BarRight ==
  bar.height > 0 =>
    LET th == kg_list_thumb(bar.height, bar.top, bar.visible, bar.total)
        pages == kg_list_pages(bar.total, bar.visible)
        page  == kg_list_page(bar.sel, bar.visible)
        pt == kg_list_page_thumb(bar.height, page, pages)
    IN /\ bar.top <= bar.sel /\ bar.sel < bar.top + bar.visible
       /\ bar.top + bar.visible <= bar.total \/ bar.top = 0
       /\ th.len > 0 =>
            /\ th.pos + th.len <= bar.height
            /\ bar.top = 0 => th.pos = 0
            /\ bar.top = bar.total - bar.visible => th.pos + th.len = bar.height
            /\ bar.height - th.len >= 2 /\ bar.top \notin {0, bar.total - bar.visible} =>
                 th.pos > 0 /\ th.pos + th.len < bar.height
       /\ page <= pages
       /\ pt.len > 0 => /\ pt.pos + pt.len <= bar.height
                        /\ page = 1 => pt.pos = 0
                        /\ page = pages => pt.pos + pt.len = bar.height

-----------------------------------------------------------------------------
(* The names of the files.                                                 *)

CONSTANTS
  Chars,    \* "/", ".", " " and some others
  MaxName,  \* bound: the length of a text
  MaxWidth, \* the columns that are tried
  SomeExts  \* lists of extensions

VARIABLES
  text,  \* a name or a path, one longer in each step
  exts   \* the extensions a slot takes

nameVars == <<text, exts>>

Space == " "
EndsWith(s, t) == Len(t) <= Len(s) /\ SubSeq(s, Len(s) - Len(t) + 1, Len(s)) = t
LastOf(s, c) == Max({i \in DOMAIN s : s[i] = c} \cup {0})

-----------------------------------------------------------------------------
(* The names.                                                              *)

\* The name ends with "." and one of the extensions, and has a base before the dot.
kg_name_has_ext(s, list) ==
  list = <<>> \/ \E i \in DOMAIN list : Len(s) >= Len(list[i]) + 2 /\ EndsWith(s, <<".">> \o list[i])

\* The extensions as they are shown, ".." in place of those that do not fit.
Shown(list) == FoldLeft(LAMBDA out, x : out \o (IF out = <<>> THEN <<>> ELSE <<Space>>) \o <<".">> \o x, <<>>, list)
Fitting(list, width) == Max({n \in 0 .. Len(list) : \A m \in 0 .. n : Len(Shown(SubSeq(list, 1, m))) <= width})
\* The mutant drops none for the dots.
Staying_all(list, n, width) == n
\* How many of them stay when the dots are put behind: none may.
Staying(list, n, width) == Max({m \in 0 .. n : m = 0 \/ Len(Shown(SubSeq(list, 1, m))) + 3 <= width})
Dots(out, width) ==
  LET w == IF out = <<>> THEN out ELSE Append(out, Space) IN IF Len(w) + 2 <= width THEN w \o <<".", ".">> ELSE w
kg_exts_text(list, width) ==
  LET n == Fitting(list, width)
  IN IF n = Len(list) THEN Shown(list) ELSE Dots(Shown(SubSeq(list, 1, Staying(list, n, width))), width)

\* A name cut to a width: "~" for what is left out, the extension kept if it is short.
kg_short_name(s, width) ==
  LET dot  == LastOf(s, ".")
      ext  == IF dot = 0 THEN 0 ELSE Len(s) - dot + 1
      keep == IF dot = 1 \/ ext > 4 \/ ext + 2 > width THEN 0 ELSE ext
  IN IF Len(s) <= width THEN s
     ELSE IF width = 0 THEN <<>>
     ELSE SubSeq(s, 1, width - keep - 1) \o <<"~">> \o SubSeq(s, Len(s) - keep + 1, Len(s))

kg_trim(s) ==
  LET solid == {i \in DOMAIN s : s[i] # Space} IN IF solid = {} THEN <<>> ELSE SubSeq(s, Min(solid), Max(solid))

-----------------------------------------------------------------------------
(* The paths.                                                              *)

\* out has room for size - 1 characters.
CutTo(s, size) == SubSeq(s, 1, Min({Len(s), size - 1}))
kg_path_join(dir, name, size) == CutTo(dir \o <<"/">> \o name, size)
kg_path_collapse(s) ==
  FoldLeft(LAMBDA out, c : IF c = "/" /\ out # <<>> /\ out[Len(out)] = "/" THEN out ELSE Append(out, c), <<>>, s)
kg_path_root(dir, size) ==
  IF (dir # <<>> /\ dir[1] = "/") \/ size < 2 THEN dir ELSE <<"/">> \o SubSeq(dir, 1, Min({Len(dir), size - 2}))
kg_path_parent(s) == IF LastOf(s, "/") = 0 THEN s ELSE SubSeq(s, 1, LastOf(s, "/") - 1)

-----------------------------------------------------------------------------
NameInit == text = <<>> /\ exts \in SomeExts
Types == Len(text) < MaxName /\ \E c \in Chars : text' = Append(text, c) /\ UNCHANGED exts
NameNext == Types

-----------------------------------------------------------------------------
(* Properties.                                                             *)

Widths == 0 .. MaxWidth
Whole == 99  \* a size that fits all

\* A shown name fits its column; a cut one is told by its "~" and begins as the name does.
ShortFits ==
  \A w \in Widths :
    LET s == kg_short_name(text, w)
    IN /\ Len(s) <= w
       /\ Len(text) <= w => s = text
       /\ Len(text) > w /\ w > 0 => Len(s) = w /\ "~" \in Range(s) /\ \A i \in DOMAIN s : s[i] # "~" => (i <= Len(text) /\ s[i] = text[i]) \/ EndsWith(text, SubSeq(s, i, Len(s)))

\* The extensions fit their column; cut ones end in the dots, and before these are whole
\* extensions of the list.
ExtsFit ==
  \A w \in Widths :
    LET s == kg_exts_text(exts, w)
    IN /\ Len(s) <= w
       /\ Len(Shown(exts)) <= w <=> s = Shown(exts)
       /\ Len(Shown(exts)) > w /\ w >= 2 =>
            EndsWith(s, <<".", ".">>) /\ \E m \in 0 .. Len(exts) : s = Dots(Shown(SubSeq(exts, 1, m)), w)

\* A file that is listed for an extension is one of that extension: the trim that the
\* lists do to a name takes no extension from it nor gives it one.
TrimKeepsKind ==
  /\ kg_trim(kg_trim(text)) = kg_trim(text)
  /\ kg_name_has_ext(text, exts) => exts = <<>> \/ kg_name_has_ext(kg_trim(text), exts) \/ text[1] = Space

\* A directory goes into a name and back out again; the path has no empty part.
NoDoubles(s) == \A i \in DOMAIN s : i > 1 => ~(s[i] = "/" /\ s[i - 1] = "/")
PathsRight ==
  LET dir  == kg_path_root(kg_trim(text), Whole)
      path == kg_path_collapse(kg_path_join(dir, <<"n">>, Whole))
  IN /\ dir[1] = "/" /\ NoDoubles(path) /\ kg_path_collapse(path) = path
     /\ kg_path_parent(path) \o <<"/">> = kg_path_collapse(Append(dir, "/"))
     /\ \A size \in 2 .. MaxName : Len(kg_path_root(text, size)) < size \/ (text # <<>> /\ text[1] = "/")
     /\ kg_path_join(kg_path_parent(path), <<"n">>, Whole) = path

NamesRight == ShortFits /\ ExtsFit /\ TrimKeepsKind /\ PathsRight

-----------------------------------------------------------------------------
(* The menu.                                                               *)

CONSTANTS
  Cores,         \* the cores of the card, in the order of their names
  AutoloadCore,  \* setup: the core to start by itself, or none of Cores
  FtPage,        \* buttons on a page of the graphic menu
  OsdPage,       \* MAX_CORES_PER_PAGE
  Countdown      \* seconds to the autoload

MAX_CORES == 255
ASSUME BootAssumption ==
  /\ Cores \in Seq(STRING) /\ Len(Cores) <= MAX_CORES /\ FtPage \in Nat \ {0} /\ OsdPage \in Nat \ {0} /\ Countdown \in Nat

VARIABLES
  cores,
  core_sel,
  countdown,    \* autoload: seconds left, -1: autoload_enabled is off
  has_ft,
  setup_focus,
  at,           \* osd_state: "browser", "setup", or "core": one was started
  frame,        \* drawn last: the cores shown, the selected one, the areas
  started       \* the core configured, and who chose it

bootVars == <<cores, core_sel, countdown, has_ft, setup_focus, at, frame, started>>

NoCore    == "none"
\* The ids of the clickable areas: a core's is its place in the list.
HIT_SETUP == 1000
HIT_PREV  == 1001
HIT_NEXT  == 1002
HIT_NONE  == -1

cores_len  == Len(cores)
page_size  == IF has_ft THEN FtPage ELSE OsdPage
Reversed(s) == [i \in DOMAIN s |-> s[Len(s) - i + 1]]

\* app_core_browser_menu() and app_core_browser_ft_menu(): the page of the cursor.
Frame(c, sel, ft) ==
  LET size == IF ft THEN FtPage ELSE OsdPage
      from == (kg_list_page(sel, size) - 1) * size
      upto == IF from + size > Len(c) THEN Len(c) ELSE from + size
  IN [shown |-> {c[i + 1] : i \in from .. upto - 1},
      sel |-> IF c = <<>> THEN NoCore ELSE c[sel + 1],
      hits |-> IF ~ft THEN {} ELSE from .. upto - 1 \cup {HIT_SETUP}
                 \cup (IF kg_list_pages(Len(c), size) > 1 THEN {HIT_PREV, HIT_NEXT} ELSE {})]
drawn_now == frame' = Frame(cores', core_sel', has_ft')

\* cores_sort(), and app_core_browser_sort(): the cursor stays on its core.
\* Mutant: it stays on its row.
app_core_browser_sort_row ==
  cores' \in {Cores, Reversed(Cores)} /\ UNCHANGED core_sel
app_core_browser_sort ==
  /\ cores_len > 0 /\ cores' \in {Cores, Reversed(Cores)}
  /\ core_sel' = (CHOOSE i \in DOMAIN cores' : cores'[i] = cores[core_sel + 1]) - 1

\* app_core_browser_read_list(): the autoload core is preselected.
ReadList(order) ==
  LET of == {i \in DOMAIN order : order[i] = AutoloadCore}
  IN [sel |-> IF of = {} THEN 0 ELSE (CHOOSE i \in of : TRUE) - 1,
      left |-> IF of = {} THEN -1 ELSE Countdown]

-----------------------------------------------------------------------------
(* Keys: app_core_browser_on_keyboard().                                   *)

InBrowser == at = "browser"

start_core(who) ==
  /\ countdown' = -1 /\ has_ft' = FALSE /\ at' = "core"
  /\ started' = [core |-> cores[core_sel + 1], by |-> who]
  /\ UNCHANGED <<cores, core_sel, setup_focus, frame>>

open_setup ==
  /\ countdown' = -1 /\ setup_focus' = FALSE /\ at' = "setup"
  /\ UNCHANGED <<cores, core_sel, has_ft, frame, started>>

Keys == InBrowser /\ UNCHANGED <<at, cores, has_ft, started>>
Focused == setup_focus /\ has_ft

\* Up, down, left and right in the list.  Mutant: they leave the countdown on.
MoveInList_counts(move) ==
  /\ core_sel' = kg_list_move(core_sel, cores_len, page_size, move) /\ UNCHANGED countdown
MoveInList(move) ==
  core_sel' = kg_list_move(core_sel, cores_len, page_size, move) /\ countdown' = -1

ListKey ==
  /\ Keys /\ cores_len > 0
  /\ \E move \in {"up", "down", "page_up", "page_down"}, repeat \in BOOLEAN :
       IF Focused /\ move # "page_up"
       THEN setup_focus' = FALSE /\ UNCHANGED <<core_sel, countdown>>
       ELSE IF move = "page_up" /\ has_ft /\ core_sel = 0
       THEN /\ countdown' = -1 /\ UNCHANGED core_sel
            /\ setup_focus' = (setup_focus \/ ~repeat)
       ELSE MoveInList(move) /\ setup_focus' = (setup_focus /\ has_ft)
  /\ drawn_now

EnterKey ==
  /\ InBrowser /\ cores_len > 0
  /\ IF Focused THEN open_setup ELSE start_core("user")

SetupKey == InBrowser /\ cores_len > 0 /\ open_setup

\* Space: the OSD's list; G: the graphic menu, if its chip comes up.
SpaceKey ==
  /\ InBrowser /\ has_ft /\ has_ft' = FALSE
  /\ UNCHANGED <<cores, core_sel, countdown, setup_focus, at, started>>
  /\ drawn_now
GuiKey ==
  /\ InBrowser /\ ~has_ft /\ has_ft' \in BOOLEAN /\ countdown' = -1 /\ setup_focus' = FALSE
  /\ UNCHANGED <<cores, core_sel, at, started>>
  /\ drawn_now

-----------------------------------------------------------------------------
(* The mouse: app_core_browser_tick(), on the areas of the frame.          *)

Mouse == InBrowser /\ has_ft

Wheel ==
  /\ Mouse /\ cores_len > 0
  /\ \E d \in {-1, 1} : core_sel' = Between(0, core_sel - d, cores_len - 1)
  /\ countdown' = -1 /\ setup_focus' = FALSE
  /\ UNCHANGED <<cores, has_ft, at, started>>
  /\ drawn_now

\* The pointer may be anywhere; the areas are those of the page drawn last.
ClickCore ==
  /\ Mouse /\ \E id \in frame.hits :
       /\ id < cores_len
       /\ IF id = core_sel THEN start_core("user")
          ELSE /\ core_sel' = id /\ countdown' = -1 /\ setup_focus' = FALSE
               /\ UNCHANGED <<cores, has_ft, at, started>>
               /\ drawn_now
ClickElse ==
  /\ Mouse
  /\ \/ HIT_SETUP \in frame.hits /\ open_setup
     \/ \E id \in (frame.hits \cap {HIT_PREV, HIT_NEXT}) \cup {HIT_NONE} :
          /\ core_sel' = IF id = HIT_NONE THEN core_sel
                         ELSE kg_list_move(core_sel, cores_len, FtPage,
                                           IF id = HIT_PREV THEN "page_up" ELSE "page_down")
          /\ countdown' = -1 /\ setup_focus' = FALSE
          /\ UNCHANGED <<cores, has_ft, at, started>>
          /\ drawn_now

-----------------------------------------------------------------------------
(* Time, and the rest.                                                     *)

\* on_time(), once a second, whatever is on the screen: the countdown and a redraw.
app_core_browser_on_time ==
  /\ countdown >= 0
  /\ IF countdown = 0 THEN start_core("autoload")
     ELSE /\ countdown' = countdown - 1
          /\ UNCHANGED <<cores, core_sel, has_ft, setup_focus, at, frame, started>>

\* save_setup(), which only the setup screen calls; the list is drawn again on the
\* way back.
ApplySort ==
  /\ at = "setup" /\ app_core_browser_sort
  /\ UNCHANGED <<countdown, has_ft, setup_focus, at, frame, started>>
LeaveSetup ==
  /\ at = "setup" /\ at' = "browser"
  /\ UNCHANGED <<cores, core_sel, countdown, has_ft, setup_focus, started>>
  /\ drawn_now

BootInit ==
  /\ \E order \in {Cores, Reversed(Cores)} :
       /\ cores = order /\ core_sel = ReadList(order).sel /\ countdown = ReadList(order).left
  /\ has_ft \in BOOLEAN
  /\ setup_focus = FALSE /\ at = "browser"
  /\ frame = Frame(cores, core_sel, has_ft)
  /\ started = [core |-> NoCore, by |-> "nobody"]

BootNext ==
  \/ ListKey \/ EnterKey \/ SetupKey \/ SpaceKey \/ GuiKey
  \/ Wheel \/ ClickCore \/ ClickElse
  \/ app_core_browser_on_time \/ ApplySort \/ LeaveSetup
BootSpec == BootInit /\ [][BootNext]_bootVars

-----------------------------------------------------------------------------
BootTypeOK ==
  /\ core_sel \in 0 .. cores_len /\ countdown \in -1 .. Countdown
  /\ {has_ft, setup_focus} \subseteq BOOLEAN /\ at \in {"browser", "setup", "core"}

\* The core that starts is the one that was meant: by itself only the autoload core,
\* by the user only the one the frame had selected.  The frame shows the selected
\* core, and a list sorted under the setup screen keeps it selected; an area the
\* mouse can click is the core drawn there
\* (start_core(), app_core_browser_sort(), app_core_browser_ft_menu()).
MeantCoreStarts ==
  /\ started.by = "autoload" => started.core = AutoloadCore
  /\ started.by = "user" => started.core = frame.sel
  /\ at # "core" /\ cores_len > 0 => frame.sel = cores[core_sel + 1] /\ frame.sel \in frame.shown
  /\ at = "browser" => \A i \in frame.hits : i < cores_len => cores[i + 1] \in frame.shown

\* The list of the cores shows where it is, and starts what it shows.
BrowserRight == MeantCoreStarts /\ BarRight
=============================================================================
