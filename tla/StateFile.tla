------------------------------ MODULE StateFile ------------------------------
(***************************************************************************)
(* The lines of an ini file: how they are read (lib/common/ini_read.c) and *)
(* how new values are written into them (lib/common/ini_update.c).  The    *)
(* two were written apart - the reader keeps the rules of an older library *)
(* - and agree only if what is written is what is read.                    *)
(*                                                                         *)
(* A text is a sequence of lines, already split, trimmed and with names    *)
(* and keys folded to one case.                                            *)
(***************************************************************************)
EXTENDS Naturals, SequencesExt

CONSTANT None      \* no value: a key that is not there, or is to go

NoSection == ""

Header(s)   == [kind |-> "head", section |-> s]
Broken      == [kind |-> "broken"]    \* "[name" without its bracket
Note(n)     == [kind |-> "note", text |-> n]   \* a comment, or no '=' in it
Blank       == [kind |-> "blank"]
Long        == [kind |-> "long"]      \* more chars than the reader takes
KeyLine(k, v) == [kind |-> "key", key |-> k, value |-> v]

Item(s, k, v) == [section |-> s, key |-> k, value |-> v]

-----------------------------------------------------------------------------
(* The reader.                                                              *)

kg_ini_valid(text) == Long \notin Range(text)

\* kg_ini_get(): the first line with the key, between the first header of the
\* section and the next line that starts with '['.
kg_ini_get(text, s, k) ==
  LET heads == {i \in DOMAIN text : text[i] = Header(s)}
      first == Min(heads)
      ends  == {i \in DOMAIN text : /\ i > first
                                    /\ text[i].kind \in {"head", "broken"}}
      end   == Min(ends \cup {Len(text) + 1})
      lines == {i \in first + 1 .. end - 1 :
                  text[i].kind = "key" /\ text[i].key = k}
  IN IF heads = {} \/ lines = {} THEN None ELSE text[Min(lines)].value

-----------------------------------------------------------------------------
(* The writer makes one pass over the lines: kg_ini_update_begin / _line /   *)
(* _end().  Here it is put as what comes out for each line.                 *)

\* The section line i is in (u->section when it comes).
section(text, i) ==
  LET heads == {h \in 1 .. i - 1 : text[h].kind = "head"}
  IN IF heads = {} THEN NoSection ELSE text[Max(heads)].section

\* The items whose key line i has.
matched(text, items, i) ==
  {j \in DOMAIN items : /\ text[i].kind = "key" /\ text[i].key = items[j].key
                        /\ section(text, i) = items[j].section}

\* Line i ends its section: it is a header, or the end of the file.
ends(text, i) == i > Len(text) \/ text[i].kind = "head"

\* The items written before line i.
done(text, items, i) ==
  {j \in DOMAIN items :
     \E k \in 1 .. i - 1 :
       \/ j \in matched(text, items, k)
       \/ ends(text, k) /\ section(text, k) = items[j].section}

\* emit_item() for a set of items: one with no value gives no line.
emit_items(items, set) ==
  LET kept == SetToSortSeq({j \in set : items[j].value # None}, <)
  IN [n \in 1 .. Len(kept) |-> KeyLine(items[kept[n]].key, items[kept[n]].value)]

\* Mutant: it runs at the end of the file only.
flush_section_end(text, items, i) ==
  IF i <= Len(text) THEN <<>>
  ELSE emit_items(items, {j \in DOMAIN items : items[j].section = section(text, i)}
                           \ done(text, items, i))
flush_section(text, items, i) ==
  IF ~ends(text, i) THEN <<>>
  ELSE emit_items(items, {j \in DOMAIN items : items[j].section = section(text, i)}
                           \ done(text, items, i))

\* The blank lines held back when line i comes.
blanks(text, i) ==
  i - 1 - Max({0} \cup {k \in 1 .. i - 1 : text[k] # Blank})

emit_blanks(n) == [k \in 1 .. n |-> Blank]

kg_ini_update_line(text, items, i) ==
  IF text[i] = Blank THEN <<>>
  ELSE flush_section(text, items, i) \o emit_blanks(blanks(text, i))
         \o IF matched(text, items, i) = {} THEN <<text[i]>>
            ELSE emit_items(items, matched(text, items, i))

\* The sections that are missing go to the end, a blank line before each.
kg_ini_update_end(text, items, any) ==
  LET end   == Len(text) + 1
      last  == flush_section(text, items, end) \o emit_blanks(blanks(text, end))
      left  == {j \in DOMAIN items \ done(text, items, end) :
                  items[j].value # None /\ items[j].section # section(text, end)}
      new(j) == \A k \in left : items[k].section = items[j].section => j <= k
      parted(j) == j # Min(left) \/ ((any \/ last # <<>>) /\ blanks(text, end) = 0)
      Added(j) ==
        IF j \notin left \/ ~new(j) THEN <<>>
        ELSE emit_blanks(IF parted(j) THEN 1 ELSE 0) \o <<Header(items[j].section)>>
               \o emit_items(items, {k \in left : items[k].section = items[j].section})
  IN last \o FlattenSeq([j \in 1 .. Len(items) |-> Added(j)])

Updated(text, items) ==
  LET lines == FlattenSeq([i \in 1 .. Len(text) |-> kg_ini_update_line(text, items, i)])
  IN lines \o kg_ini_update_end(text, items, lines # <<>>)

-----------------------------------------------------------------------------
(***************************************************************************)
(* How settings are kept in an ini file on the SD card: /karabas.ini, the  *)
(* settings of the firmware (src/storage/settings.c), and                  *)
(* /config/<id>.ini, what the user set in the OSD of a core                *)
(* (src/storage/core_state.c).  Both are replaced through a second file by *)
(* ini_file_update(); the card may fail at any call and the power may go   *)
(* between any two of them.                                                *)
(*                                                                         *)
(* One behaviour follows one of the two files (`kind'): they share nothing *)
(* but the code.  All of it runs on APP, a save is one call, so the user   *)
(* changes nothing while it runs.                                          *)
(***************************************************************************)

CONSTANTS
  Slot,       \* the values that are kept: <<section, key>>
  Value, Default,
  UserFile,   \* what the user may have put on the card: texts, and NoFile
  NoFile,
  Faults,     \* the calls that may fail: "read", "create", "write",
              \* "remove", "rename"
  MaxFaults, MaxChanges     \* bounds: failing calls, changes of a value

ASSUME StateAssumption ==
  /\ Default \in Value /\ None \notin Value
  /\ MaxFaults \in Nat /\ MaxChanges \in Nat
  /\ Faults \subseteq {"read", "create", "write", "remove", "rename"}

VARIABLES
  kind,        \* "settings" or "core"
  ini, new,    \* the file and the one it is replaced through
  cur,         \* the values the user sees (setup_t s / core.osd[].val)
  known,       \* what the file is taken to hold (hw_setup / prev_val)
  dirty,       \* core_state.c: changes wait to be saved
  pc,          \* where the save stands, "on" (no save) or "off" (not loaded)
  leaving,     \* the save is the last one before the core is read again
  old,         \* what sd_read_all() gave: NoFile is NULL
  faults, changes,
  good,        \* ghost: the values of the last load or save that succeeded
  tried,       \* ghost: those of the saves that did not, since
  alone,       \* ghost: a rename failed, the only copy is the .new file until
               \* the next load reads the file
  rest,        \* ghost: the lines of the user in the file; NoFile: the file
               \* is being reset
  seen         \* ghost: the file could be read when it was loaded

disk   == <<ini, new>>
memory == <<cur, known, dirty>>
step   == <<pc, leaving, old>>
bounds == <<faults, changes, alone>>
ghosts == <<good, tried, rest, seen>>
vars   == <<kind, disk, memory, step, bounds, ghosts>>

\* What core_state_load() / load_setup() take from a text.
Values(text) ==
  [s \in Slot |->
     IF text = NoFile THEN Default
     ELSE IF ~kg_ini_valid(text) \/ kg_ini_get(text, s[1], s[2]) = None
     THEN Default ELSE kg_ini_get(text, s[1], s[2])]

\* What a load would find: a save cut off between the remove and the rename
\* is finished first.
OnCard == IF ini = NoFile THEN new ELSE ini

Defaults == [s \in Slot |-> Default]

\* The lines a save must leave alone: what is neither a kept value, nor a
\* blank line, nor the header of one of its sections.
Rest(text) ==
  IF text = NoFile THEN <<>>
  ELSE SelectSeq(text, LAMBDA l :
         /\ l # Blank
         /\ l.kind = "head" => \A s \in Slot : s[1] # l.section
         /\ l.kind = "key"  => \A s \in Slot : s[2] # l.key)

Init ==
  /\ kind \in {"settings", "core"}
  /\ ini \in UserFile /\ new = NoFile
  /\ cur = Defaults /\ known = Defaults /\ dirty = FALSE
  /\ pc = "off" /\ leaving = FALSE /\ old = NoFile
  /\ faults = 0 /\ changes = 0 /\ alone = FALSE
  /\ good = Values(ini) /\ tried = {} /\ rest = Rest(ini) /\ seen = FALSE

\* A call of the card fails.
Fails(call) ==
  /\ call \in Faults /\ faults < MaxFaults
  /\ faults' = faults + 1
  /\ alone' = (alone \/ call = "rename")
  /\ UNCHANGED changes

Works == UNCHANGED bounds

-----------------------------------------------------------------------------
(* load_setup(), core_state_load().                                         *)

\* The file as it is when the values are read from it.
Loaded(text, readable) ==
  /\ cur' = Values(IF readable THEN text ELSE NoFile)
  /\ known' = cur' /\ dirty' = FALSE
  /\ good' = Values(text) /\ tried' = {} /\ rest' = Rest(text)
  /\ seen' = readable
  /\ pc' = "on" /\ leaving' = FALSE /\ old' = NoFile
  /\ UNCHANGED kind

Load ==
  /\ pc = "off"
  /\ ini' = OnCard
  /\ new' = IF ini = NoFile THEN NoFile ELSE new
  /\ \/ Loaded(ini', TRUE) /\ alone' = FALSE /\ UNCHANGED <<faults, changes>>
     \/ Loaded(ini', FALSE) /\ Fails("read")

\* The rename that finishes a save cut off fails: no file is found.
LoadUnfinished ==
  /\ pc = "off" /\ ini = NoFile /\ new # NoFile
  /\ Fails("rename")
  /\ cur' = Defaults /\ known' = Defaults /\ dirty' = FALSE
  /\ pc' = "on" /\ leaving' = FALSE /\ old' = NoFile /\ seen' = FALSE
  /\ UNCHANGED <<kind, disk, good, tried, rest>>

PowerCut ==
  /\ pc # "off"
  /\ pc' = "off" /\ leaving' = FALSE /\ old' = NoFile
  /\ cur' = Defaults /\ known' = Defaults /\ dirty' = FALSE /\ seen' = FALSE
  /\ UNCHANGED <<kind, disk, bounds, good, tried, rest>>

-----------------------------------------------------------------------------
(* The user changes a value, and what makes it be saved.                    *)

Change(s, v) ==
  /\ pc = "on" /\ v # cur[s] /\ changes < MaxChanges
  /\ cur' = [cur EXCEPT ![s] = v]
  /\ dirty' = (kind = "core")
  /\ changes' = changes + 1
  /\ UNCHANGED <<kind, disk, known, step, faults, alone, ghosts>>

\* The settings screen is left without a save.
Cancel ==
  /\ pc = "on" /\ kind = "settings" /\ cur # known
  /\ cur' = known
  /\ UNCHANGED <<kind, disk, known, dirty, step, bounds, ghosts>>

ItemValue(s) == IF kind = "core" /\ cur[s] = Default THEN None ELSE cur[s]

\* The values that differ from the ones the file is taken to hold.
Changed == {s \in Slot : cur[s] # known[s]}

Items ==
  LET order == SetToSeq(Changed)
  IN [i \in 1 .. Len(order) |->
        Item(order[i][1], order[i][2], ItemValue(order[i]))]

\* save_setup(), core_state_flush(): with nothing to write they are done.
Save ==
  /\ IF Changed = {}
     THEN /\ pc' = IF leaving' THEN "off" ELSE "on"
          /\ dirty' = FALSE /\ UNCHANGED tried
     ELSE /\ pc' = "read" /\ UNCHANGED dirty
          /\ tried' = tried \cup {cur}
  /\ UNCHANGED <<kind, disk, cur, known, old, bounds, good, rest, seen>>

\* "Save" in the settings screen; core_state_tick() when the user has been
\* quiet for a while, or the time for another try has come.
SaveSettings == pc = "on" /\ kind = "settings" /\ leaving' = FALSE /\ Save
Tick         == pc = "on" /\ dirty /\ leaving' = FALSE /\ Save

\* configure(), a reboot: the core is left and read again.
Leave ==
  /\ pc = "on" /\ leaving' = TRUE
  /\ IF kind = "core" /\ dirty THEN Save
     ELSE /\ pc' = "off"
          /\ UNCHANGED <<kind, disk, memory, old, bounds, ghosts>>

-----------------------------------------------------------------------------
(* ini_file_update(), one action for each call of the card that changes it. *)

Goto(label) == pc' = label /\ UNCHANGED <<leaving, memory>>

Succeed ==
  /\ pc' = IF leaving THEN "off" ELSE "on"
  /\ known' = cur /\ dirty' = FALSE /\ UNCHANGED <<leaving, cur>>
  /\ good' = [s \in Slot |-> IF s \in Changed THEN cur[s] ELSE good[s]]
  /\ tried' = {} /\ UNCHANGED <<rest, seen>>

\* Mutants: a save that failed counts as done; its values as those of the file.
Fail_done ==
  /\ pc' = IF leaving THEN "off" ELSE "on"
  /\ dirty' = FALSE /\ UNCHANGED <<cur, known, leaving, ghosts>>
Fail_known ==
  /\ pc' = IF leaving THEN "off" ELSE "on"
  /\ known' = cur /\ UNCHANGED <<cur, dirty, leaving, ghosts>>
Fail ==
  /\ pc' = IF leaving THEN "off" ELSE "on"
  /\ UNCHANGED <<memory, leaving, ghosts>>

ReadOld ==
  /\ pc = "read" /\ Goto("create")
  /\ \/ old' = ini /\ Works
     \/ old' = NoFile /\ Fails("read")
  /\ UNCHANGED <<kind, disk, ghosts>>

\* A file that is made has no length until it is closed.
Create ==
  /\ pc = "create"
  /\ \/ new' = <<>> /\ Goto("write") /\ Works /\ UNCHANGED ghosts
     \/ new' \in {new, <<>>} /\ Fail /\ Fails("create")
  /\ UNCHANGED <<kind, ini, old>>

Old  == IF old = NoFile THEN <<>> ELSE old

\* The lines are written and the file is closed; a line too long ends it.
WriteText(text) ==
  \/ /\ kg_ini_valid(Old)
     /\ new' = text /\ Goto("remove") /\ Works
  \/ /\ \E n \in 0 .. Len(text) : new' = SubSeq(text, 1, n)
     /\ Goto("drop")
     /\ Fails("write") \/ (~kg_ini_valid(Old) /\ Works)

Write ==
  /\ pc = "write"
  /\ \E items \in {Items} : \E text \in {Updated(Old, items)} : WriteText(text)
  /\ UNCHANGED <<kind, ini, old, ghosts>>

\* Mutant: the return after it is missing.
Drop_on ==
  /\ pc = "drop"
  /\ new' = NoFile /\ Works
  /\ Goto("remove")
  /\ UNCHANGED <<kind, ini, old, ghosts>>
Drop ==
  /\ pc = "drop"
  /\ \/ new' = NoFile /\ Works
     \/ new' = new /\ Fails("remove")
  /\ Fail /\ UNCHANGED <<kind, ini, old>>

RemoveOld ==
  /\ pc = "remove"
  /\ \/ /\ ini' = IF old = NoFile THEN ini ELSE NoFile
        /\ Goto("rename") /\ Works /\ UNCHANGED ghosts
     \/ old # NoFile /\ ini' = ini /\ Fail /\ Fails("remove")
  /\ UNCHANGED <<kind, new, old>>

\* A rename never replaces a file: f_rename() answers FR_EXIST.
\* Mutant: it does.
Rename_over ==
  /\ pc = "rename"
  /\ ini' = new /\ new' = NoFile /\ Succeed /\ Works
  /\ UNCHANGED <<kind, old>>
Rename ==
  /\ pc = "rename"
  /\ \/ ini = NoFile /\ ini' = new /\ new' = NoFile /\ Succeed /\ Works
     \/ ini # NoFile /\ UNCHANGED disk /\ Fail /\ Works
     \/ UNCHANGED disk /\ Fail /\ Fails("rename")
  /\ UNCHANGED <<kind, old>>

-----------------------------------------------------------------------------
(* core_state_reset(): the user asks for the defaults of a core; the files  *)
(* go one after the other, and then the core is read again.                 *)

Reset ==
  /\ pc = "on" /\ kind = "core"
  /\ \/ ini' = NoFile /\ Works
     \/ ini # NoFile /\ ini' = ini /\ Fails("remove")
  /\ pc' = "reset" /\ leaving' = TRUE
  /\ rest' = NoFile
  /\ UNCHANGED <<kind, new, memory, old, good, tried, seen>>

ResetNew ==
  /\ pc = "reset"
  /\ \/ new' = NoFile /\ Works
     \/ new # NoFile /\ new' = new /\ Fails("remove")
  /\ dirty' = FALSE /\ pc' = "off"
  /\ UNCHANGED <<kind, ini, cur, known, leaving, old, ghosts>>

-----------------------------------------------------------------------------
Update == ReadOld \/ Create \/ Write \/ Drop \/ RemoveOld \/ Rename

Next ==
  \/ Load \/ LoadUnfinished \/ PowerCut
  \/ \E s \in Slot, v \in Value : Change(s, v)
  \/ Cancel \/ SaveSettings \/ Tick \/ Leave
  \/ Update
  \/ Reset \/ ResetNew

\* APP goes on with what it does, and its loop calls core_state_tick().
Fairness == WF_vars(Load) /\ WF_vars(Tick) /\ WF_vars(Update) /\ WF_vars(ResetNew)

Spec == Init /\ [][Next]_vars /\ Fairness

-----------------------------------------------------------------------------
(* Properties.                                                              *)

Step == {"off", "on", "read", "create", "write", "drop", "remove", "rename", "reset"}

\* The types; and the old file is only removed, or the new one renamed, when
\* there is a new one.
TypeOK ==
  /\ kind \in {"settings", "core"} /\ pc \in Step
  /\ cur \in [Slot -> Value] /\ known \in [Slot -> Value]
  /\ dirty \in BOOLEAN /\ leaving \in BOOLEAN /\ seen \in BOOLEAN
  /\ alone \in BOOLEAN /\ faults \in 0 .. MaxFaults /\ changes \in 0 .. MaxChanges
  /\ good \in [Slot -> Value] /\ tried \subseteq [Slot -> Value]
  /\ pc \in {"remove", "rename"} => new # NoFile

\* Each value that the next load finds is the one last loaded or saved, or
\* one of a save that failed or was cut off since.
Kept ==
  rest # NoFile =>
    \A s \in Slot : \/ Values(OnCard)[s] = good[s]
                    \/ \E t \in tried : Values(OnCard)[s] = t[s]

\* Whenever the power goes and whatever calls fail: no save loses a value it
\* does not write, and one that reported success is read back
\* (settings.c:215-264, core_state.c:118-123).
NothingLost == Kept

\* The same, but for what follows a rename that failed.
LostOnlyAlone == ~alone => Kept

\* "keeping the rest of the file" (settings.c:266): comments, unknown keys
\* and foreign sections are on the card at any time, in their order; but for
\* what follows a rename that failed.
RestKept == ~alone /\ rest # NoFile => Rest(OnCard) = rest

\* Between saves hw_setup and prev_val are what the file holds, also after a
\* save that failed: what differs is what the next save writes.
KnownTrue == ~alone /\ pc = "on" /\ seen => known = Values(ini)

\* What the user set in the OSD of a core gets into its file, or is lost with
\* the power, however many tries fail before: it does not wait for ever.
\* (A line too long, made by hand, fails every save.)
Unsaved == kind = "core" /\ cur # known /\ (ini = NoFile \/ kg_ini_valid(ini))
Settles == Unsaved ~> cur = known

\* A save changes what it writes and nothing else, whatever is cut or fails; but
\* for what follows a rename that failed (ini_file_update(), core_state_flush()).
FileKept == LostOnlyAlone /\ RestKept
=============================================================================
