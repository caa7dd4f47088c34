----------------------------- MODULE FileLoader -----------------------------
(***************************************************************************)
(* The file loader of a core that loads games (src/apps/app_file_loader.c, *)
(* the file list of src/ui/file_browser.c): the list, its cursor, the dirs *)
(* the user goes to, and the last file, kept on the card as a pair.        *)
(*                                                                         *)
(* kgo1 keeps the pair in two files, the dir in karabas.ini and the id of  *)
(* the file, an index in its dir, in the core file; kgo2 keeps a path in   *)
(* the core's own ini, 2 s later.  The card is the root, with the dir "a", *)
(* and "a", where the core's files start.                                  *)
(***************************************************************************)
EXTENDS Integers, Sequences, FiniteSets

CONSTANTS
  LoaderFormats,  \* "kgo1", "kgo2"
  CutInSave       \* TRUE: the power may go, or the core file may not open, between
                  \* the two writes of a kgo1 core

ASSUME LoaderAssumption == LoaderFormats \subseteq {"kgo1", "kgo2"} /\ CutInSave \in BOOLEAN

start_dir == "a"
CardDirs  == {"/", "a"}
\* The ids of a dir: the files and the dirs in it.
FileIds(d) == IF d = "/" THEN {2} ELSE {1, 2}
DirIds(d)  == IF d = "/" THEN {1} ELSE {}
NoLoad     == <<"none", 0>>

VARIABLES
  format,    \* of the core file
  power,     \* the board has power and the core runs
  cur_dir,
  ini_dir,   \* the dir of the last file, in memory
  last_id,   \* core.last_file_id
  fb,        \* the list: its dir, its entries, the cursor; "len = 0": none yet
  fl,        \* list_loaded, autoload, sel_id, dir_pending, sel_name
  card,      \* what the card has: dir (karabas.ini), id (the core file), path (kgo2)
  due,       \* core_state.c: the path to be written, or NoLoad
  running,   \* the file the core got last
  chosen     \* history: the file of the last save that is done, NoLoad if it saved none

loaderVars == <<format, power, cur_dir, ini_dir, last_id, fb, fl, card, due, running, chosen>>

-----------------------------------------------------------------------------
(* The list.                                                               *)

Entry(k, id) == [kind |-> k, id |-> id]
\* fb_add_root() .. fb_sort(): "/", "../", the dirs, the files, by name.
Entries(d) ==
  (IF d = "/" THEN <<Entry("root", 0)>> ELSE <<Entry("root", 0), Entry("parent", 0)>>)
    \o SelectSeq(<<Entry("dir", 1), Entry("dir", 2)>>, LAMBDA e : e.id \in DirIds(d))
    \o SelectSeq(<<Entry("file", 1), Entry("file", 2)>>, LAMBDA e : e.id \in FileIds(d))

\* Mutant: a dir in the root counts as the last file's too.
ini_dir_is_any(s, d) == TRUE
ini_dir_is(s, d) == d = IF s.ini # "" THEN s.ini ELSE start_dir

\* dirs_init(): the dir of the last file, if there is one.  kgo2 has its name, and
\* the list of that dir, read next, its id.
dirs_init(s) ==
  LET ini == IF format = "kgo2" THEN (IF card.path = NoLoad THEN "" ELSE card.path[1]) ELSE card.dir
  IN [s EXCEPT !.ini = ini, !.dir = IF ini = "" THEN start_dir ELSE ini, !.fl.pending = FALSE,
               !.last = IF format = "kgo2" THEN card.path[2] ELSE @]

\* fb_select(): where the cursor starts.
Place(es, id) ==
  LET at == {i \in DOMAIN es : es[i].id = id /\ id # 0}
      first == CHOOSE i \in DOMAIN es :
                 /\ es[i].id # 0 \/ i = Len(es)
                 /\ \A j \in 1 .. i - 1 : es[j].id = 0
  IN IF at # {} THEN CHOOSE i \in at : TRUE ELSE first

\* app_file_loader_send_file(): the core gets the file of that id in cur_dir.  It may
\* not open.
SendTo(s, id, opens) == IF opens THEN [s EXCEPT !.run = <<s.dir, id>>] ELSE s

\* app_file_loader_read_list(); the last file goes to the core with the first list.
read_files(s0, opens) ==
  LET s    == IF s0.fl.pending THEN dirs_init(s0) ELSE s0
      es   == Entries(s.dir)
      here == ini_dir_is(s, s.dir)
      id   == IF s.fl.name # 0 THEN s.fl.name ELSE IF s.fl.sel # 0 THEN s.fl.sel
              ELSE IF here THEN s.last ELSE 0
      at   == Place(es, id)
      t    == [s EXCEPT !.list = [dir |-> s.dir, entries |-> es, sel |-> at],
               !.fl = [@ EXCEPT !.loaded = TRUE, !.autoload = FALSE, !.sel = 0, !.name = 0]]
  IN IF s.fl.autoload /\ here /\ s.last # 0 /\ es[at] = Entry("file", s.last)
     THEN SendTo(t, s.last, opens) ELSE t

State == [dir |-> cur_dir, ini |-> ini_dir, last |-> last_id, list |-> fb, fl |-> fl, run |-> running]
Becomes(s) ==
  /\ cur_dir' = s.dir /\ ini_dir' = s.ini /\ last_id' = s.last /\ fb' = s.list /\ fl' = s.fl
  /\ running' = s.run

\* app_file_loader_overlay(initSD)
app_file_loader_overlay(s, initSD, opens) ==
  IF initSD \/ ~s.fl.loaded THEN read_files(s, opens) ELSE s

\* go_dir(): the list of that dir, the cursor on the subdir it came from.
go_dir(d, child) ==
  Becomes(app_file_loader_overlay([State EXCEPT !.dir = d, !.fl.name = child, !.fl.sel = 0], TRUE, TRUE))

-----------------------------------------------------------------------------
(* app_file_loader_save(): the pair to the card.                           *)

\* The dir for the ini, "" for the start dir.
IniValue == IF cur_dir = start_dir THEN "" ELSE cur_dir

\* kgo1, and whether the ini could be written; the id of a dir that was not is 0.
\* Mutant: the id is written all the same.
SavedId_any(id, saves) == id
SavedId(id, saves) == IF ini_dir_is(State, cur_dir) \/ saves THEN id ELSE 0

SaveKgo1(id, saves, opens) ==
  LET moved == ~ini_dir_is(State, cur_dir)
      dir   == IF moved /\ saves THEN IniValue ELSE card.dir
      kept  == SavedId(id, saves)
  IN /\ ini_dir' = (IF moved /\ saves THEN IniValue ELSE ini_dir)
     /\ card' = [card EXCEPT !.dir = dir, !.id = IF opens THEN kept ELSE @]
     /\ last_id' = (IF opens THEN kept ELSE last_id)
     /\ chosen' = (IF ~opens THEN chosen ELSE IF kept = 0 THEN NoLoad ELSE <<cur_dir, id>>)
     /\ ~opens => CutInSave \/ dir = card.dir
     /\ UNCHANGED due

SaveKgo2(id) ==
  /\ ini_dir' = cur_dir /\ last_id' = id /\ due' = <<cur_dir, id>>
  /\ UNCHANGED <<card, chosen>>

-----------------------------------------------------------------------------
(* Events.                                                                 *)

\* fb_key()
fb_key ==
  /\ power /\ fl.loaded
  /\ \E i \in DOMAIN fb.entries : fb' = [fb EXCEPT !.sel = i]
  /\ UNCHANGED <<format, power, cur_dir, ini_dir, last_id, fl, card, due, running, chosen>>

\* R, H, Backspace, Enter on "/", "../" or a dir.
Enter(kind) == fb.entries[fb.sel].kind = kind
GoElsewhere ==
  /\ power /\ fl.loaded
  /\ \/ go_dir(start_dir, 0)
     \/ cur_dir # "/" /\ go_dir("/", 1)
     \/ Enter("root") /\ go_dir("/", 0)
     \/ Enter("dir") /\ go_dir("a", 0)
     \/ Becomes(app_file_loader_overlay(State, TRUE, TRUE))
  /\ UNCHANGED <<format, power, card, due, chosen>>

\* Enter on a file: saved, then sent.
LoadFile ==
  /\ power /\ fl.loaded /\ Enter("file")
  /\ LET id == fb.entries[fb.sel].id
     IN /\ IF format = "kgo2" THEN SaveKgo2(id)
           ELSE \E saves, opens \in BOOLEAN : SaveKgo1(id, saves, opens)
        /\ \E opens \in BOOLEAN : running' = SendTo(State, id, opens).run
  /\ UNCHANGED <<format, power, cur_dir, fb, fl>>

\* Tab or O, and Esc in the core's menu.  Its file browser takes the list.
app_file_loader_leave ==
  /\ power /\ fl.loaded
  /\ fl' = [fl EXCEPT !.sel = fb.entries[fb.sel].id, !.loaded = FALSE]
  /\ fb' = [dir |-> "other", entries |-> <<>>, sel |-> 0]
  /\ UNCHANGED <<format, power, cur_dir, ini_dir, last_id, card, due, running, chosen>>
ComeBack ==
  /\ power /\ ~fl.loaded
  /\ Becomes(app_file_loader_overlay(State, FALSE, TRUE))
  /\ UNCHANGED <<format, power, card, due, chosen>>

\* core_state_flush()
FlushLoader ==
  /\ power /\ due # NoLoad
  /\ card' = [card EXCEPT !.path = due] /\ due' = NoLoad /\ chosen' = due
  /\ UNCHANGED <<format, power, cur_dir, ini_dir, last_id, fb, fl, running>>

\* The power goes, also between the two writes of a kgo1 save.
PowerOff ==
  /\ power /\ power' = FALSE
  /\ due' = NoLoad /\ running' = NoLoad
  /\ \/ UNCHANGED card
     \/ /\ CutInSave /\ format = "kgo1" /\ fl.loaded /\ Enter("file") /\ ~ini_dir_is(State, cur_dir)
        /\ card' = [card EXCEPT !.dir = IniValue]
  /\ UNCHANGED <<format, cur_dir, ini_dir, last_id, fb, fl, chosen>>

\* read_core() of the loader core: app_file_loader_core_loaded(), and its first list.
app_file_loader_core_loaded ==
  /\ ~power /\ power' = TRUE
  /\ \E opens \in BOOLEAN :
       Becomes(app_file_loader_overlay(
         [State EXCEPT !.last = IF format = "kgo1" THEN card.id ELSE 0, !.run = NoLoad,
            !.fl = [loaded |-> FALSE, autoload |-> TRUE, sel |-> 0, name |-> 0, pending |-> TRUE]],
         FALSE, opens))
  /\ UNCHANGED <<format, card, due, chosen>>

LoaderInit ==
  /\ format \in LoaderFormats
  /\ power = FALSE /\ cur_dir = start_dir /\ ini_dir = "" /\ last_id = 0
  /\ fb = [dir |-> "other", entries |-> <<>>, sel |-> 0]
  /\ fl = [loaded |-> FALSE, autoload |-> FALSE, sel |-> 0, name |-> 0, pending |-> FALSE]
  /\ card = [dir |-> "", id |-> 0, path |-> NoLoad]
  /\ due = NoLoad /\ running = NoLoad /\ chosen = NoLoad

LoaderNext ==
  \/ fb_key \/ GoElsewhere \/ LoadFile \/ app_file_loader_leave \/ ComeBack
  \/ FlushLoader \/ PowerOff \/ app_file_loader_core_loaded
LoaderSpec == LoaderInit /\ [][LoaderNext]_loaderVars

-----------------------------------------------------------------------------
LoaderTypeOK ==
  /\ cur_dir \in CardDirs /\ ini_dir \in CardDirs \cup {""} /\ last_id \in 0 .. 2
  /\ running[1] \in CardDirs \cup {"none"} /\ fb.sel \in 0 .. Len(fb.entries)

\* The file that goes to the core by itself when it starts is the one the user
\* chose last and whose save was done; a save that could not write the dir leaves
\* none (app_file_loader_read_list(), app_file_loader_save(): "an id without its
\* dir in the ini is written as 0 (no autoload)").
AutoloadIsChosen ==
  [][ app_file_loader_core_loaded => running' \in {NoLoad, chosen} ]_loaderVars

\* The list is the one of the dir shown, and it comes back with its cursor on the
\* entry it was on after the core's menu took the list
\* (app_file_loader_leave(), app_file_loader_read_list()).
ListIsDirs ==
  /\ fl.loaded => fb.dir = cur_dir /\ fb.entries = Entries(cur_dir)
CursorComesBack ==
  [][ ComeBack /\ fl.sel # 0 => fb'.entries[fb'.sel].id = fl.sel ]_loaderVars
=============================================================================
