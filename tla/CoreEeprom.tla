----------------------------- MODULE CoreEeprom -----------------------------
(***************************************************************************)
(* The EEPROM of a core (banks 4..254): 256 bytes the core writes through  *)
(* its clock registers, kept in RAM and saved to the SD card now and then  *)
(* (src/fpga/core_loader.c), in the core file itself (kgo1) or in          *)
(* /config/<id>.eep (kgo2, src/storage/core_state.c).                      *)
(*                                                                         *)
(* All of it runs on APP.  A write of the core arrives in a link frame, so *)
(* in the loop or wherever APP sends something while receiving is enabled: *)
(* bk_flush(), which a core with a backup RAM is asked to finish before it *)
(* is replaced.  Nothing else interleaves with a save.  Time passes in     *)
(* units of which one is longer than a turn of the loop; the ages of       *)
(* eeprom_first_change, _last_change and _last_save stop counting where     *)
(* the code stops looking (`never saved' is a save long ago).              *)
(***************************************************************************)
EXTENDS Integers, FiniteSets

CONSTANTS
  Cell,        \* the positions of the EEPROM
  Value,       \* what a position holds
  Erased,      \* what a core finds in an EEPROM never written
  Core,        \* the core files on the card
  Kgo2,        \* those of the second format
  Bk,          \* those with a backup RAM to flush
  Quiet,       \* EEPROM_SAVE_QUIET_MS
  MaxAge,      \* EEPROM_SAVE_MAX_MS
  Gap,         \* EEPROM_SAVE_GAP_MS
  Faults       \* how a save may fail: "refused", or "close", when the card
               \* fails once the file is open for writing

ASSUME EepromAssumption ==
  /\ IsFiniteSet(Cell) /\ Cell # {} /\ Cardinality(Cell) < 65536
  /\ Erased \in Value
  /\ Kgo2 \subseteq Core /\ Bk \subseteq Core
  /\ Quiet \in Nat /\ MaxAge \in Nat \ {0}
  /\ Gap \in Nat /\ Gap <= MaxAge
  /\ Faults \subseteq {"refused", "close"}

VARIABLES
  core,           \* the core that runs
  val, prev_val,  \* its EEPROM, and what was last read or saved of it
  eeprom_dirty,   \* uint16_t
  file,           \* what the card holds for each core
  first_change, last_change, last_save,   \* how long ago
  pc,             \* where configure() stands: "loop", "flush", "read"
  leaving,        \* why: "none", "load", "reboot", "reset"
  next_core,      \* the core configure() loads
  flushed,        \* what the last core_eeprom_flush() returned
  waited,         \* how long each byte has differed from the file
  ticked,         \* core_eeprom_tick() ran in this unit of time
  touched         \* the bytes the core wrote since the reset began

eeprom == <<val, prev_val, eeprom_dirty>>
times  == <<first_change, last_change, last_save>>
load   == <<pc, leaving, next_core>>
ghosts == <<waited, ticked, touched>>
vars   == <<core, eeprom, file, times, load, flushed, ghosts>>

Bytes == [Cell -> Value]

\* A .eep file that is missing or shorter than 256 bytes.
Short == <<>>

Blank == [c \in Cell |-> Erased]

Init ==
  /\ core \in Core
  /\ file = [k \in Core |-> IF k \in Kgo2 THEN Short ELSE Blank]
  /\ val = Blank /\ prev_val = Blank /\ eeprom_dirty = 0
  /\ first_change = 0 /\ last_change = 0 /\ last_save = Gap
  /\ pc = "loop" /\ leaving = "none" /\ next_core = core /\ flushed = TRUE
  /\ waited = [c \in Cell |-> 0] /\ ticked = FALSE /\ touched = {}

\* kg1_read(), kg2_read() with core_state_load(): a short file is no file.
\* Mutant: a short read is taken as it is.
Loaded_short(k) == file[k]
Loaded(k) == IF file[k] = Short THEN Blank ELSE file[k]

-----------------------------------------------------------------------------
(* The core writes a byte: core_eeprom_set().                               *)

\* Mutant: a change undone still counts.
counted_up(c, v) ==
  IF val[c] = prev_val[c] THEN (eeprom_dirty + 1) % 65536 ELSE eeprom_dirty
counted(c, v) ==
  IF val[c] = prev_val[c] THEN (eeprom_dirty + 1) % 65536
  ELSE IF v = prev_val[c] THEN (eeprom_dirty - 1) % 65536
  ELSE eeprom_dirty

Set(c, v) ==
  /\ pc = "loop" \/ (pc = "flush" /\ core \in Bk)
  /\ v # val[c]
  /\ eeprom_dirty' = counted(c, v)
  /\ val' = [val EXCEPT ![c] = v]
  /\ first_change' = IF val[c] = prev_val[c] /\ eeprom_dirty = 0
                     THEN 0 ELSE first_change
  /\ last_change' = 0
  /\ waited' = IF v = prev_val[c] THEN [waited EXCEPT ![c] = 0] ELSE waited
  /\ touched' = IF leaving = "reset" THEN touched \cup {c} ELSE touched
  /\ UNCHANGED <<core, prev_val, file, last_save, load, flushed, ticked>>

-----------------------------------------------------------------------------
(* A save.                                                                  *)

\* What the card holds after a save that went as `how' says.  kgo2 truncates
\* the file before it writes; in kgo1 the bytes reach the card when the file
\* is closed.
Written(how) ==
  IF how = "done" THEN val
  ELSE IF how = "close" /\ core \in Kgo2 THEN Short
  ELSE file[core]

\* What the code takes it for: sd_tmp_close() of kgo2 is looked at, the
\* sd_close() of kgo1 is not.
Believed(how) == how = "done" \/ (how = "close" /\ core \notin Kgo2)

\* core_eeprom_flush().
\* Mutant: a failed write counts as saved.
Flush_blind(how) ==
  IF eeprom_dirty = 0
  THEN flushed' = TRUE /\ UNCHANGED <<eeprom, file, last_save, waited>>
  ELSE /\ last_save' = 0
       /\ file' = [file EXCEPT ![core] = Written(how)]
       /\ flushed' = TRUE
       /\ prev_val' = val /\ eeprom_dirty' = 0
       /\ waited' = [c \in Cell |-> 0]
       /\ UNCHANGED val
Flush(how) ==
  IF eeprom_dirty = 0
  THEN flushed' = TRUE /\ UNCHANGED <<eeprom, file, last_save, waited>>
  ELSE /\ last_save' = 0
       /\ file' = [file EXCEPT ![core] = Written(how)]
       /\ flushed' = Believed(how)
       /\ IF Believed(how)
          THEN prev_val' = val /\ eeprom_dirty' = 0
               /\ waited' = [c \in Cell |-> 0]
          ELSE UNCHANGED <<prev_val, eeprom_dirty, waited>>
       /\ UNCHANGED val

Outcome == {"done"} \cup Faults

\* Mutant: only a quiet core is saved.
due_quiet == eeprom_dirty # 0 /\ last_change >= Quiet /\ last_save >= Gap
due == /\ eeprom_dirty # 0
       /\ last_change >= Quiet \/ first_change >= MaxAge
       /\ last_save >= Gap

\* core_eeprom_tick().
Tick ==
  /\ pc = "loop"
  /\ ticked' = TRUE
  /\ IF due THEN \E how \in Outcome : Flush(how)
     ELSE UNCHANGED <<eeprom, file, last_save, flushed, waited>>
  /\ UNCHANGED <<core, first_change, last_change, load, touched>>

\* Time passes; the loop turns at least once in every unit.
Older(age, most) == IF age < most THEN age + 1 ELSE age
Elapse ==
  /\ pc = "loop" /\ ticked
  /\ ticked' = FALSE
  /\ first_change' = Older(first_change, MaxAge)
  /\ last_change' = Older(last_change, Quiet)
  /\ last_save' = Older(last_save, Gap)
  /\ waited' = [c \in Cell |-> IF val[c] = prev_val[c] THEN 0
                               ELSE Older(waited[c], MaxAge + 1)]
  /\ UNCHANGED <<core, eeprom, file, load, flushed, touched>>

-----------------------------------------------------------------------------
(* Another core, a reboot, a reset of the settings.                         *)

\* do_configure(), do_reload(), flush_and_reboot(): into bk_flush().
Leave(why, k) ==
  /\ pc = "loop"
  /\ why \in {"load", "reboot"}
  /\ pc' = "flush" /\ leaving' = why /\ next_core' = k
  /\ UNCHANGED <<core, eeprom, file, times, flushed, ghosts>>

\* core_reset_settings() of a kgo2 core: the files go, then the core is
\* loaded again.
\* Mutant: the changes of the old state are not forgotten.
Reset_unforgotten ==
  /\ pc = "loop" /\ core \in Kgo2
  /\ file' = [file EXCEPT ![core] = Short]
  /\ pc' = "flush" /\ leaving' = "reset" /\ next_core' = core
  /\ waited' = [c \in Cell |-> 0] /\ touched' = {}
  /\ UNCHANGED <<core, eeprom, times, flushed, ticked>>
Reset ==
  /\ pc = "loop" /\ core \in Kgo2
  /\ eeprom_dirty' = 0
  /\ file' = [file EXCEPT ![core] = Short]
  /\ pc' = "flush" /\ leaving' = "reset" /\ next_core' = core
  /\ waited' = [c \in Cell |-> 0] /\ touched' = {}
  /\ UNCHANGED <<core, val, prev_val, times, flushed, ticked>>

\* bk_flush() is over: core_eeprom_flush(), then receiving is disabled.
\* Mutant: the save waits for its time here too.
FlushBeforeLoad_due ==
  /\ pc = "flush" /\ pc' = "read"
  /\ IF due THEN \E how \in Outcome : Flush(how)
     ELSE flushed' = TRUE /\ UNCHANGED <<eeprom, file, last_save, waited>>
  /\ UNCHANGED <<core, first_change, last_change, leaving, next_core, ticked,
                 touched>>
FlushBeforeLoad ==
  /\ pc = "flush" /\ pc' = "read"
  /\ \E how \in Outcome : Flush(how)
  /\ UNCHANGED <<core, first_change, last_change, leaving, next_core, ticked,
                 touched>>

\* read_core() of the next core; after a reboot eeprom_saved is false.
ReadCore ==
  /\ pc = "read" /\ pc' = "loop" /\ leaving' = "none"
  /\ core' = next_core
  /\ val' = Loaded(next_core) /\ prev_val' = Loaded(next_core)
  /\ eeprom_dirty' = 0
  /\ last_save' = IF leaving = "reboot" THEN Gap ELSE last_save
  /\ waited' = [c \in Cell |-> 0]
  /\ flushed' = TRUE /\ touched' = {}
  /\ UNCHANGED <<file, first_change, last_change, next_core, ticked>>

\* The power goes, and comes back with some core.
PowerCycle(k) ==
  /\ core' = k
  /\ val' = Loaded(k) /\ prev_val' = Loaded(k) /\ eeprom_dirty' = 0
  /\ first_change' = 0 /\ last_change' = 0 /\ last_save' = Gap
  /\ pc' = "loop" /\ leaving' = "none" /\ next_core' = k
  /\ flushed' = TRUE
  /\ waited' = [c \in Cell |-> 0] /\ ticked' = FALSE
  /\ touched' = {}
  /\ UNCHANGED file

Next ==
  \/ \E c \in Cell, v \in Value : Set(c, v)
  \/ Tick \/ Elapse
  \/ \E why \in {"load", "reboot"}, k \in Core : Leave(why, k)
  \/ Reset \/ FlushBeforeLoad \/ ReadCore
  \/ \E k \in Core : PowerCycle(k)

Spec == Init /\ [][Next]_vars

-----------------------------------------------------------------------------
(* Correctness.                                                             *)

\* The types of the variables, in three parts.
Contents ==
  /\ core \in Core /\ next_core \in Core
  /\ val \in Bytes /\ prev_val \in Bytes
  /\ file \in [Core -> Bytes \cup {Short}]
  /\ touched \subseteq Cell

Numbers ==
  /\ eeprom_dirty \in Nat /\ eeprom_dirty < 65536
  /\ first_change \in Nat /\ first_change <= MaxAge
  /\ last_change \in Nat /\ last_change <= Quiet
  /\ last_save \in Nat /\ last_save <= Gap
  /\ waited \in [Cell -> Nat] /\ \A c \in Cell : waited[c] <= MaxAge + 1

Flags ==
  /\ pc \in {"loop", "flush", "read"}
  /\ leaving \in {"none", "load", "reboot", "reset"}
  /\ flushed \in BOOLEAN /\ ticked \in BOOLEAN

TypeOK == Contents /\ Numbers /\ Flags

Changed == {c \in Cell : val[c] # prev_val[c]}

\* eeprom_dirty counts the bytes that differ from the file, over any run of
\* writes, undone writes, failed saves and loads: if it were less a change
\* would never be saved, if it were more the card would be written for ever.
\* A reset forgets the changes until the core is loaded again.
DirtyCounts == leaving # "reset" => eeprom_dirty = Cardinality(Changed)

\* prev_val is the byte in the file, whatever became of the saves: a change
\* undone really leaves nothing to save.
PrevInFile == pc = "loop" => prev_val = Loaded(core)

\* No change is older than EEPROM_SAVE_MAX_MS, however busy the core is and
\* however its changes overlap, unless the last save failed.
SavedInTime == flushed => \A c \in Cell : waited[c] <= MaxAge

\* When the core is replaced or the board reboots nothing waits in RAM,
\* neither what the core wrote while its backup RAM was flushed, unless the
\* save itself was refused.
NothingWaits ==
  [][ReadCore /\ leaving # "reset" /\ flushed => Loaded(core) = val]_vars

\* After a reset of the settings the core finds its EEPROM as it was at
\* first, but for what it wrote itself while the reset ran: nothing of the
\* old state is written back.
ResetForgets ==
  [][ReadCore /\ leaving = "reset" =>
       \A c \in Cell \ touched : val'[c] = Erased]_vars
=============================================================================
