------------------------------ MODULE MCMenus ------------------------------
(***************************************************************************)
(* The screens and what they are made of, one after another in one run:    *)
(* part picks the core files, the menu of a core, the file loader, the     *)
(* menu of the boot core, the lists, the names of files or the setup.      *)
(***************************************************************************)
EXTENDS CoreMenu, FileLoader, BootMenu, SetupScreens

VARIABLE part  \* "file", "menu", "loader", "boot", "bar", "name" or "setup"

-----------------------------------------------------------------------------
(* The core files.                                                         *)

Item(t, o, d, sw, pg, op, sl, c) ==
  [type |-> t, opts |-> o, def |-> d, sw |-> sw, page |-> pg, opens |-> op, slot |-> sl, cond |-> c]
Plain(t, o, d, sw, c) == Item(t, o, d, sw, 0, 0, 0, c)
Cond(i, v, inv, dis) == [item |-> i, value |-> v, inv |-> inv, dis |-> dis]
File(format_, loader, items) ==
  [format |-> format_, loader |-> loader, items |-> items, cut |-> 0,
   saved |-> [i \in DOMAIN items |-> 0], roms |-> 0, blocks |-> <<>>]

\* Conditions met and not, inverted, that disable instead of hiding, on an item
\* that is not there and on a value no option has.
Conds == {NoCond, Cond(1, 5, FALSE, FALSE), Cond(1, 5, TRUE, TRUE), Cond(1, 1, TRUE, FALSE),
          Cond(4, 1, FALSE, TRUE), Cond(3, 3, FALSE, FALSE)}

Files1 ==
  {[File("kgo1", FALSE, <<Plain("S", <<0, 1, 2>>, 1, 0, NoCond), Plain("S", <<0, 1>>, 5, 0, c),
                          Plain("H", <<>>, 3, 0, NoCond)>>)
      EXCEPT !.saved = sv, !.roms = r, !.blocks = <<2, 1>>] :
    c \in Conds, sv \in {<<1, 1, 1>>, <<2, 9, 9>>}, r \in {0, 4, 5, 8}}
Files2 ==
  {[File("kgo2", FALSE, <<Plain("S", <<3, 5, 1>>, 1, 7, NoCond), Plain("NS", <<4, 1, 0>>, d, 3, c),
                          Plain("T", <<>>, 0, 5, NoCond), Plain("F", <<>>, 0, NoSwitch, NoCond),
                          Plain("S", <<0>>, 0, 1, NoCond)>>)
      EXCEPT !.roms = r, !.blocks = <<2, 1>>] :
    c \in Conds, d \in {1, 2}, r \in {3, 8}}

\* Menus: a page of its own with an item behind a condition, two drives under a line
\* of text, a file loader core with a drive, the same items in the old format.
Pages2 == <<Item("S", <<0, 1>>, 0, 0, 0, 0, 0, NoCond), Item("M", <<>>, 0, NoSwitch, 0, 1, 0, NoCond),
            Item("S", <<0, 1>>, 0, 2, 1, 0, 0, Cond(1, 1, FALSE, FALSE))>>
Drive(pg, sl) == Item("F", <<>>, 0, NoSwitch, pg, 0, sl, NoCond)
MenuPages  == {File("kgo2", FALSE, Append([Pages2 EXCEPT ![3].type = "NS"],
                                     Item("FL", <<>>, 0, NoSwitch, 1, 0, 0, NoCond)))}
MenuDrives == {File("kgo2", FALSE, <<Plain("text", <<>>, 0, NoSwitch, NoCond), Drive(0, 0), Drive(0, 1)>>)}
MenuLoader == {File("kgo2", TRUE, <<Plain("T", <<>>, 0, 5, NoCond), Pages2[2], Drive(1, 0)>>)}
Menu1      == {File("kgo1", FALSE, Pages2 \o <<Drive(0, 0), Drive(1, 1)>>)}
Menus      == MenuPages \cup MenuDrives \cup MenuLoader
AllFiles   == Files1 \cup Files2 \cup Menus

ThreeCores == <<"a", "b", "c">>
ExtLists == {<<>>, <<<<"a">>>>, <<<<"a", "b">>, <<"b">>, <<"a", "b", "a">>>>, <<<<"b">>, <<"a">>>>}

\* Core files are read for what they mean, and only where they mean it; the tables of sections
\* do not depend on the state (core_loader.c, kg2_format.c).
FilesRight == FileRight /\ (part = "file" /\ cfile.format = "none" => SectionsRight)

\* What the lists of cores and files show and keep is the file that is meant
\* (app_core_browser.c, file_name.c).
BrowseRight == IF part = "name" THEN NamesRight ELSE BrowserRight

-----------------------------------------------------------------------------
\* No core has a menu yet.
NoMenu ==
  /\ m = [curr |-> 1, page |-> 0, fb |-> FALSE, list |-> NoList, slots |-> <<>>, img |-> <<>>,
          save |-> TRUE, dirty |-> FALSE]
  /\ screen = "other" /\ listed = FALSE /\ is_osd = FALSE /\ hiding = FALSE
  /\ popup = FALSE /\ menu_on = FALSE

Init ==
  /\ part \in {"file", "menu", "loader", "boot", "bar", "name", "setup"}
  /\ IF part = "menu" THEN MenuInit ELSE CoreInit /\ NoMenu
  /\ LoaderInit /\ (part # "loader" => format = "kgo1")
  /\ BootInit /\ (part # "boot" => ~has_ft /\ cores = Cores)
  /\ BarInit /\ NameInit /\ (part # "name" => exts = <<>>)
  /\ SetupInit /\ (part # "setup" => hw_setup.mode = AnyMode)

Next ==
  /\ UNCHANGED part
  /\ \/ /\ part = "file" /\ CoreNext /\ cfile' \notin MenuFiles
        /\ UNCHANGED <<menuVars, loaderVars, bootVars, bar, nameVars, setupVars>>
     \/ part = "menu" /\ MenuNext /\ UNCHANGED <<loaderVars, bootVars, bar, nameVars, setupVars>>
     \/ part = "loader" /\ LoaderNext /\ UNCHANGED <<coreVars, menuVars, bootVars, bar, nameVars, setupVars>>
     \/ part = "boot" /\ BootNext /\ UNCHANGED <<coreVars, menuVars, loaderVars, bar, nameVars, setupVars>>
     \/ part = "bar" /\ BarNext /\ UNCHANGED <<coreVars, menuVars, loaderVars, bootVars, nameVars, setupVars>>
     \/ part = "name" /\ NameNext /\ UNCHANGED <<coreVars, menuVars, loaderVars, bootVars, bar, setupVars>>
     \/ part = "setup" /\ SetupNext /\ UNCHANGED <<coreVars, menuVars, loaderVars, bootVars, bar, nameVars>>

Spec == Init /\ [][Next]_<<part, coreVars, menuVars, loaderVars, bootVars, bar, nameVars, setupVars>>
=============================================================================
