------------------------------ MODULE CoreFile ------------------------------
(***************************************************************************)
(* The OSD items of a core: read from a core file of either format         *)
(* (kg1_read() and kg2_read() of src/fpga/core_loader.c, with core_file.c  *)
(* and kg2_format.c), changed by the user, shown by their conditions and   *)
(* sent to the core as switches; and the blocks of its ROM section.        *)
(*                                                                         *)
(* A file is records that parse, or the place where they stop to; strings, *)
(* offsets and byte orders are left out.  The array of items is static: a  *)
(* shorter file leaves the items of the core before behind its end.        *)
(***************************************************************************)
EXTENDS Integers, Sequences, FiniteSets, FiniteSetsExt, SequencesExt

CONSTANTS
  CoreFiles,  \* the core files of the card
  MaxItems,   \* MAX_OSD_ITEMS
  MaxOptions, \* MAX_OSD_ITEM_OPTIONS
  FileSlots,  \* MAX_FILE_SLOTS
  NoSwitch,   \* CORE_OSD_NO_SWITCH
  RomHeader,  \* the size of a ROM block's header
  WORD        \* the numbers of a .kg file

\* A file: loader (a file loader core), its format, its items, the first that is cut off (0: none), the saved
\* switches of kgo1, the length of the ROM section and its blocks.
\* An item of it: type, opts (the values its options send), def (a position in
\* kgo1, a value in kgo2), sw, slot, page, opens (a page), and the condition [item, value, inv, dis].
ItemTypes == {"S", "NS", "T", "H", "text", "F", "FL", "M", "sep"}
IsFile(t) == t \in {"F", "FL"}

Conditions == [item : Nat, value : Nat, inv : BOOLEAN, dis : BOOLEAN]
FileItems  == [type : ItemTypes, opts : Seq(Nat), def : Nat, sw : Nat, slot : Nat, page : Nat,
               opens : Nat, cond : Conditions]

ASSUME CoreFileAssumption ==
  /\ MaxItems \in Nat \ {0} /\ MaxOptions \in Nat \ {0} /\ FileSlots \in Nat /\ RomHeader \in Nat \ {0}
  /\ NoSwitch \in Nat
  /\ \A f \in CoreFiles :
       /\ f.format \in {"kgo1", "kgo2"} /\ f.loader \in BOOLEAN /\ f.cut \in Nat /\ f.roms \in Nat
       /\ f.items \in Seq(FileItems) /\ f.saved \in [1 .. Len(f.items) -> Nat]

VARIABLES
  osd,      \* core.osd: 1 .. MaxItems
  osd_len,
  fpga_sw,  \* the switches as the core has them
  cfile,    \* the file the core was read from
  roms_sent \* the ROM blocks sent, in order

coreVars == <<osd, osd_len, fpga_sw, cfile, roms_sent>>

NoCond == [item |-> 0, value |-> 0, inv |-> FALSE, dis |-> FALSE]
NoItem == [type |-> "H", opts |-> <<>>, val |-> 0, sw |-> NoSwitch, slot |-> 0, page |-> 0,
           opens |-> 0, cond |-> NoCond]

Cut(seq, n) == SubSeq(seq, 1, IF Len(seq) < n THEN Len(seq) ELSE n)
Least(s) == IF s = {} THEN 0 ELSE Min(s)

-----------------------------------------------------------------------------
(* Reading.                                                                *)

\* Only so many items fit; the first with a slot that does not exist, or that is
\* cut off, ends the list.
count(f) == IF Len(f.items) > MaxItems THEN MaxItems ELSE Len(f.items)
broken_at(f) ==
  Least({i \in 1 .. count(f) : (IsFile(f.items[i].type) /\ f.items[i].slot >= FileSlots)
                               \/ i = f.cut})
read_len(f) == IF broken_at(f) = 0 THEN count(f) ELSE broken_at(f) - 1

\* kg1_read(): an option is its position; the default and the value the user saved
\* are options, or the default of an item without any.
kg1_item(f, i) ==
  LET it   == f.items[i]
      file == IsFile(it.type)
      n    == IF file \/ it.type = "M" THEN 0 ELSE Len(Cut(it.opts, MaxOptions))
      def  == IF it.type = "M" \/ (n > 0 /\ it.def >= n) THEN 0 ELSE it.def
  IN [type |-> it.type, opts |-> [j \in 1 .. n |-> j - 1], val |-> def, sw |-> i - 1,
      slot |-> it.slot, page |-> it.page, opens |-> it.opens,
      cond |-> IF it.cond.item > count(f) THEN NoCond ELSE it.cond]

\* Mutant: a saved value is taken as it is.
kg1_value_any(item, saved) == saved
kg1_value(item, saved) == IF saved > Len(item.opts) - 1 THEN item.val ELSE saved

\* kg2_read(): the default is the option with its value, or the first.
kg2_item(f, i) ==
  LET it   == f.items[i]
      opts == IF IsFile(it.type) THEN <<>> ELSE Cut(it.opts, MaxOptions)
      same == {j \in DOMAIN opts : opts[j] = it.def}
  IN [type |-> it.type, opts |-> opts, sw |-> it.sw, slot |-> it.slot, page |-> it.page,
      opens |-> it.opens, val |-> IF it.type = "M" THEN 0
              ELSE IF opts = <<>> THEN it.def
              ELSE IF same = {} THEN 0 ELSE Max(same) - 1,
      cond |-> [it.cond EXCEPT !.value = 0]]

\* The value a condition names becomes its option's position, once the list is known.
\* Mutant: the value is taken for the position.
kg2_cond_value(f, i, items, n) == f.items[i].cond
kg2_cond(f, i, items, n) ==
  LET c    == f.items[i].cond
      same == {j \in DOMAIN items[c.item].opts : items[c.item].opts[j] = c.value}
  IN IF c.item = 0 \/ c.item > n THEN [c EXCEPT !.item = 0]
     ELSE IF same = {} THEN [c EXCEPT !.item = 0]
     ELSE [c EXCEPT !.value = Min(same) - 1]

Read(f) ==
  LET n     == read_len(f)
      parse == [i \in 1 .. count(f) |-> IF f.format = "kgo1" THEN kg1_item(f, i) ELSE kg2_item(f, i)]
  IN [i \in 1 .. n |->
        IF f.format = "kgo1" THEN [parse[i] EXCEPT !.val = kg1_value(parse[i], f.saved[i])]
        ELSE [parse[i] EXCEPT !.cond = kg2_cond(f, i, parse, n)]]

-----------------------------------------------------------------------------
(* A .kg file: the table of its sections, and records read out of them.    *)
(* A number of the file is 0 .. WORD - 1, like the sizes; core_file.c and  *)
(* kg2_format.c check each against the length they have.                   *)

Required == {"core"}
SectionTypes == Required \cup {"osd"}  \* and "other": 0 or of a newer format
NoSection == [here |-> FALSE, ofs |-> 0, len |-> 0]

\* An entry is [type, mine, ofs, len]; mine: its boards have ours.
\* Mutant: the end of a section is computed, which wraps around.
in_file_wraps(e, size) == (e.ofs + e.len) % WORD <= size
in_file(e, size) == e.ofs <= size /\ e.len <= size - e.ofs
skipped(e) == ~e.mine \/ e.type \notin SectionTypes
kg2_layout_parse(table, size) ==
  LET Entry(lay, e) ==
        IF ~lay.ok \/ ~in_file(e, size) THEN [lay EXCEPT !.ok = FALSE]
        ELSE IF skipped(e) THEN lay
        ELSE IF lay.sec[e.type].here THEN [lay EXCEPT !.ok = FALSE]
        ELSE [lay EXCEPT !.sec[e.type] = [here |-> TRUE, ofs |-> e.ofs, len |-> e.len]]
      lay == FoldLeft(Entry, [ok |-> TRUE, sec |-> [t \in SectionTypes |-> NoSection]], table)
  IN [lay EXCEPT !.ok = @ /\ \A t \in Required : lay.sec[t].here]

\* The places of the file a record, a string and the items are read from.
NotRead == {-1}
core_file_sec_read(s, ofs, len) ==
  IF ~s.here \/ ofs > s.len \/ len > s.len - ofs THEN NotRead ELSE s.ofs + ofs .. s.ofs + ofs + len - 1
core_file_str(s, ref, size) ==
  IF size = 0 \/ ref >= s.len THEN NotRead ELSE s.ofs + ref .. s.ofs + ref + Min({s.len - ref, size - 1}) - 1
kg2_osd_head_parse(s, head, n, item_size) ==
  s.len >= head /\ item_size >= 1 /\ head + (n * item_size) <= s.len

\* The options of an item are read to the first that is not in the section.
OptionsRead(s, ofs, n, size) ==
  Min({n} \cup {j \in 0 .. n : core_file_sec_read(s, ofs + (j * size), size) = NotRead})

\* kg2_find_file(): of the candidates, "" or a file, the first that is on the card; a list that
\* leaves its section ends there.  none is what the slot keeps.
kg2_find_file(s, ofs, candidates, on_card, none) ==
  LET good == {j \in DOMAIN candidates : candidates[j] # "" /\ candidates[j] \in on_card}
      stop == {j \in DOMAIN candidates : core_file_sec_read(s, ofs + (2 * (j - 1)), 2) = NotRead}
  IN IF good = {} \/ (stop # {} /\ Min(stop) <= Min(good)) THEN none ELSE candidates[Min(good)]

-----------------------------------------------------------------------------
(* Showing and changing.                                                   *)

core_osd_value(o) ==
  IF o.opts # <<>> /\ o.val < Len(o.opts) THEN o.opts[o.val + 1] ELSE o.val

\* Of the items o, so that a menu can ask it of the items as they will be.
\* Mutant: an inverted condition is not.
cond_met_plain(o, pos) ==
  LET c == o[pos].cond IN c.item # 0 => o[c.item].val = c.value
cond_met(o, pos) ==
  LET c == o[pos].cond IN c.item # 0 => (o[c.item].val = c.value) # c.inv

core_osd_shown(o, pos) ==
  pos <= osd_len /\ o[pos].type # "H" /\ (o[pos].cond.dis \/ cond_met(o, pos))
core_osd_enabled(o, pos) == core_osd_shown(o, pos) /\ cond_met(o, pos)
core_osd_selectable(o, pos) ==
  pos <= osd_len /\ (o[pos].opts # <<>> \/ IsFile(o[pos].type) \/ o[pos].type = "M")

\* Mutant: one step past the last option.
turned_past(o, d) == IF d > 0 THEN IF o.val < Len(o.opts) THEN o.val + 1 ELSE 0
                     ELSE IF o.val > 0 THEN o.val - 1 ELSE Len(o.opts) - 1
turned(o, d) == IF d > 0 THEN IF o.val + 1 < Len(o.opts) THEN o.val + 1 ELSE 0
                ELSE IF o.val > 0 THEN o.val - 1 ELSE Len(o.opts) - 1

\* core_send() of an item that is a switch.
core_send(o) ==
  fpga_sw' = IF IsFile(o.type) \/ o.sw = NoSwitch THEN fpga_sw
             ELSE [fpga_sw EXCEPT ![o.sw] = core_osd_value(o)]

core_osd_change(pos, d) ==
  /\ pos <= osd_len /\ osd[pos].opts # <<>>
  /\ osd' = [osd EXCEPT ![pos].val = turned(osd[pos], d)]
  /\ core_send(osd'[pos])
  /\ UNCHANGED <<osd_len, cfile, roms_sent>>

\* core_trigger(): a pulse.
core_trigger(pos) ==
  /\ pos <= osd_len /\ osd[pos].type = "T" /\ osd[pos].sw # NoSwitch
  /\ fpga_sw' = [fpga_sw EXCEPT ![osd[pos].sw] = 0]
  /\ UNCHANGED <<osd, osd_len, cfile, roms_sent>>

-----------------------------------------------------------------------------
(* A core load: configure(), read_core(), read_roms().                     *)

\* core_send_all(): in the order of the items.
core_send_all(items) ==
  [s \in DOMAIN fpga_sw |->
     LET of == {i \in DOMAIN items : ~IsFile(items[i].type) /\ items[i].sw = s /\ s # NoSwitch}
     IN IF of = {} THEN 0 ELSE core_osd_value(items[Max(of)])]

\* read_roms(): block by block, to the first that does not fit what is left.
\* left[b] is what is left of the section before block b.
left(f) ==
  LET r[b \in 1 .. Len(f.blocks) + 1] ==
        IF b = 1 THEN f.roms ELSE r[b - 1] - f.blocks[b - 1] - RomHeader
  IN r
\* Mutant: the header of the block is not counted.
block_fits_bare(f, b) == f.blocks[b] <= left(f)[b]
block_fits(f, b) == left(f)[b] >= RomHeader /\ f.blocks[b] <= left(f)[b] - RomHeader
read_roms(f) ==
  LET bad == Least({b \in DOMAIN f.blocks : left(f)[b] <= 0 \/ ~block_fits(f, b)})
  IN IF bad = 0 THEN f.blocks ELSE SubSeq(f.blocks, 1, bad - 1)

Load ==
  /\ \E f \in CoreFiles :
       LET items == Read(f)
       IN /\ osd' = [i \in 1 .. MaxItems |-> IF i \in DOMAIN items THEN items[i] ELSE osd[i]]
          /\ osd_len' = Len(items) /\ cfile' = f
          /\ fpga_sw' = core_send_all(items)
          /\ roms_sent' = read_roms(f)

Switches == UNION {{f.items[i].sw : i \in DOMAIN f.items} : f \in CoreFiles}
            \cup 0 .. MaxItems - 1

CoreInit ==
  /\ osd = [i \in 1 .. MaxItems |-> NoItem] /\ osd_len = 0
  /\ fpga_sw = [s \in Switches |-> 0]
  /\ cfile = [format |-> "none", items |-> <<>>, cut |-> 0, roms |-> 0, blocks |-> <<>>,
              loader |-> FALSE]
  /\ roms_sent = <<>>

CoreNext ==
  \/ Load
  \/ \E pos \in 1 .. MaxItems, d \in {-1, 1} : core_osd_change(pos, d)
  \/ \E pos \in 1 .. MaxItems : core_trigger(pos)
CoreSpec == CoreInit /\ [][CoreNext]_coreVars

CoreTypeOK ==
  /\ osd_len \in 0 .. MaxItems
  /\ \A i \in 1 .. MaxItems : osd[i].type \in ItemTypes /\ osd[i].val \in Nat
  /\ \A s \in Switches : fpga_sw[s] \in Nat

-----------------------------------------------------------------------------
\* What the menu shows is what the file means and what the core has: the value of
\* an item with options is one of them, the core has that option's value, and an
\* item is enabled exactly while the item its condition names has (or, inverted,
\* has not) the option with the value the file gives (kg1_read(), kg2_read(),
\* cond_met(), core_osd_change(), core_send_all()).
Meant(i) ==
  LET c == cfile.items[i].cond
      o == osd[c.item]
      v == IF cfile.format = "kgo1" THEN o.val ELSE core_osd_value(o)
      known == cfile.format = "kgo1" \/ \E j \in DOMAIN o.opts : o.opts[j] = c.value
  IN c.item = 0 \/ c.item > osd_len \/ ~known \/ (v = c.value) # c.inv
MenuIsMeant ==
  \A i \in 1 .. osd_len :
    LET o == osd[i]
    IN /\ o.opts # <<>> => o.val < Len(o.opts)
       /\ o.opts # <<>> /\ o.sw # NoSwitch
            /\ (\A j \in 1 .. osd_len \ {i} : osd[j].sw # o.sw) => fpga_sw[o.sw] = core_osd_value(o)
       /\ o.type # "H" => core_osd_enabled(osd, i) = Meant(i)

\* No condition reads an item behind the end of the list: it would be one of the
\* core before (kg1_read(), core_loader.c:494 "the items after it can't be
\* trusted either").
CondInList == \A i \in 1 .. osd_len : osd[i].cond.item <= osd_len

\* Every ROM block that is sent lies in the section with its header, and only
\* what follows a block that does not is left out (read_roms()).
RomsFit ==
  LET used[b \in 0 .. Len(roms_sent)] ==
        IF b = 0 THEN 0 ELSE used[b - 1] + RomHeader + roms_sent[b]
  IN /\ used[Len(roms_sent)] <= cfile.roms
     /\ Len(roms_sent) < Len(cfile.blocks) =>
          used[Len(roms_sent)] + RomHeader + cfile.blocks[Len(roms_sent) + 1] > cfile.roms

\* A table is taken exactly when every section lies in the file, none of ours is there twice
\* and the required ones are there; then nothing is read outside the section it belongs to,
\* and all that is in it is (kg2_layout_parse(), core_file_sec_read(), core_file_str()).
SmallSections == [here : {TRUE}, ofs : 0 .. 1, len : 0 .. WORD - 1]
SectionsRight ==
  LET Entries == [type : SectionTypes \cup {"other"}, mine : BOOLEAN, ofs : 0 .. WORD - 1, len : 0 .. WORD - 1]
      Ours(table) == {i \in DOMAIN table : table[i].mine /\ table[i].type \in SectionTypes}
      Good(table, size) ==
        /\ \A i \in DOMAIN table : table[i].ofs + table[i].len <= size
        /\ \A i, j \in Ours(table) : table[i].type = table[j].type => i = j
        /\ Required \subseteq {table[i].type : i \in Ours(table)}
  IN /\ \A size \in 0 .. WORD - 1, table \in UNION {[1 .. n -> Entries] : n \in 0 .. 2} :
          LET lay == kg2_layout_parse(table, size)
          IN /\ lay.ok = Good(table, size)
             /\ lay.ok => \A i \in Ours(table) : lay.sec[table[i].type].ofs = table[i].ofs
                                                /\ lay.sec[table[i].type].len = table[i].len
     /\ \A s \in SmallSections, ofs \in 0 .. WORD, n \in 0 .. WORD :
          LET its  == s.ofs .. s.ofs + s.len - 1
              here == {s.ofs + ofs + i : i \in 0 .. n - 1}
          IN /\ core_file_sec_read(s, ofs, n) = IF here \subseteq its /\ ofs <= s.len THEN here ELSE NotRead
             /\ n > 0 /\ core_file_str(s, ofs, n) # NotRead => core_file_str(s, ofs, n) \subseteq its
             /\ \A size \in 1 .. 2 :
                  /\ kg2_osd_head_parse(s, ofs, n, size) =>
                       \A i \in 0 .. n - 1 : core_file_sec_read(s, ofs + (i * size), size) # NotRead
                  /\ LET got == OptionsRead(s, ofs, n, size)
                     IN s.ofs + ofs + (got * size) > s.ofs + s.len => got = 0
     /\ \A s \in SmallSections, on_card \in SUBSET {"a", "b"}, c \in [1 .. 2 -> {"", "a", "b"}] :
          LET found == kg2_find_file(s, 0, c, on_card, "none")
          IN /\ found # "none" => found \in on_card
             /\ s.len >= 4 => (found = "none") = (on_card \cap {c[1], c[2]} = {})
             /\ c[1] \in on_card /\ s.len >= 2 => found = c[1]

\* A core gets what its file means, and nothing past it.
FileRight == MenuIsMeant /\ RomsFit
=============================================================================
