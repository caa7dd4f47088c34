---------------------------- MODULE BoardProofs -----------------------------
(***************************************************************************)
(* Theorems about what a core has on the board: its EEPROM file            *)
(* (CoreEeprom), the RAM of a game (BackupSave), the disks made from a     *)
(* .SAV (UkncSav), the clock (Rtc) and the LED matrix (Matrix).  For every *)
(* set of bytes, values, cores, games, drives and buttons, and any number  *)
(* of changes and failures, a change is saved in time, a save stays its    *)
(* game's own, a confirmed flush is honest, the disk in use is never lost, *)
(* the clock stays a date and the matrix shows what the core says.         *)
(***************************************************************************)
EXTENDS CoreEeprom, BackupSave, UkncSav, Rtc, Matrix, FiniteSetTheorems, TLAPS

-----------------------------------------------------------------------------
(* The EEPROM file.                                                        *)

\* What a load finds is an EEPROM, and content that was written is found.
LEMMA LoadedLemma ==
  /\ Blank \in Bytes
  /\ Short \notin Bytes
  /\ \A bytes \in Bytes : bytes # Short
<1>1. Blank \in Bytes
  BY EepromAssumption DEF Blank, Bytes
<1>2. ASSUME NEW bytes \in Bytes PROVE bytes # Short
  <2>1. DOMAIN bytes = Cell
    BY DEF Bytes
  <2>2. DOMAIN Short = {}
    BY DEF Short
  <2> QED
    BY <2>1, <2>2, EepromAssumption
<1> QED
  BY <1>1, <1>2

\* What a core's file holds, or the erased bytes, is a whole EEPROM.
LEMMA LoadedType ==
  ASSUME Contents, NEW k \in Core
  PROVE  Loaded(k) \in Bytes
BY LoadedLemma DEF Contents, Loaded

\* The number of changed bytes fits uint16_t.
LEMMA ChangedLemma ==
  /\ IsFiniteSet(Changed)
  /\ Cardinality(Changed) \in Nat
  /\ Cardinality(Changed) <= Cardinality(Cell)
<1>1. Changed \in SUBSET Cell
  BY DEF Changed
<1> QED
  BY <1>1, FS_Subset, FS_CardinalityType, EepromAssumption

\* configure() runs exactly while there is a reason for it.
Phases == pc = "loop" <=> leaving = "none"

-----------------------------------------------------------------------------
(* Type correctness.                                                        *)

\* The start state is well typed and in a phase the code can be in.
LEMMA InitType == Init => TypeOK /\ Phases
<1> SUFFICES ASSUME Init PROVE TypeOK /\ Phases
  OBVIOUS
<1>1. Contents
  BY LoadedLemma DEF Init, Contents
<1>2. Numbers
  BY EepromAssumption DEF Init, Numbers
<1>3. Flags /\ Phases
  BY DEF Init, Flags, Phases
<1> QED
  BY <1>1, <1>2, <1>3 DEF TypeOK

\* A save keeps the types of what it touches.
LEMMA FlushType ==
  ASSUME Contents, Numbers, NEW how \in Outcome, Flush(how)
  PROVE  /\ val' \in Bytes /\ prev_val' \in Bytes
         /\ file' \in [Core -> Bytes \cup {Short}]
         /\ eeprom_dirty' \in Nat /\ eeprom_dirty' < 65536
         /\ last_save' \in Nat /\ last_save' <= Gap
         /\ waited' \in [Cell -> Nat]
         /\ \A c \in Cell : waited'[c] <= MaxAge + 1
         /\ flushed' \in BOOLEAN
<1>1. CASE eeprom_dirty = 0
  BY <1>1 DEF Flush, Contents, Numbers, eeprom
<1>2. CASE eeprom_dirty # 0
  <2>1. Written(how) \in Bytes \cup {Short}
    BY DEF Written, Contents
  <2>2. val' \in Bytes /\ prev_val' \in Bytes
    BY <1>2 DEF Flush, Contents
  <2>3. file' \in [Core -> Bytes \cup {Short}]
    BY <1>2, <2>1 DEF Flush, Contents
  <2>4. /\ eeprom_dirty' \in Nat /\ eeprom_dirty' < 65536
        /\ last_save' \in Nat /\ last_save' <= Gap
    BY <1>2, EepromAssumption DEF Flush, Numbers
  <2>5. /\ waited' \in [Cell -> Nat]
        /\ \A c \in Cell : waited'[c] <= MaxAge + 1
    BY <1>2, EepromAssumption DEF Flush, Numbers
  <2>6. flushed' \in BOOLEAN
    BY <1>2 DEF Flush, Believed
  <2> QED
    BY <2>2, <2>3, <2>4, <2>5, <2>6
<1> QED
  BY <1>1, <1>2

\* Every step keeps the types and the phases.
LEMMA NextType == TypeOK /\ Phases /\ [Next]_vars => TypeOK' /\ Phases'
<1> SUFFICES ASSUME Contents, Numbers, Flags, Phases, [Next]_vars
             PROVE  Contents' /\ Numbers' /\ Flags' /\ Phases'
  BY DEF TypeOK
<1>1. ASSUME NEW c \in Cell, NEW v \in Value, Set(c, v)
      PROVE  Contents' /\ Numbers' /\ Flags' /\ Phases'
  <2>1. counted(c, v) \in Nat /\ counted(c, v) < 65536
    BY DEF counted, Numbers
  <2>2. val' \in Bytes /\ touched' \subseteq Cell
    BY <1>1 DEF Set, Contents, Bytes
  <2>3. Contents'
    BY <1>1, <2>2 DEF Set, Contents, load
  <2>4. Numbers'
    BY <1>1, <2>1, EepromAssumption DEF Set, Numbers
  <2>5. Flags' /\ Phases'
    BY <1>1 DEF Set, Flags, Phases, load
  <2> QED
    BY <2>3, <2>4, <2>5
<1>2. ASSUME Tick PROVE Contents' /\ Numbers' /\ Flags' /\ Phases'
  <2>1. CASE due
    <3>1. PICK how \in Outcome : Flush(how)
      BY <1>2, <2>1 DEF Tick
    <3>2. Contents'
      BY <1>2, <3>1, FlushType DEF Tick, Contents, load
    <3>3. Numbers'
      BY <1>2, <3>1, FlushType DEF Tick, Numbers
    <3>4. Flags' /\ Phases'
      BY <1>2, <3>1, FlushType DEF Tick, Flags, Phases, load
    <3> QED
      BY <3>2, <3>3, <3>4
  <2>2. CASE ~due
    BY <1>2, <2>2 DEF Tick, Contents, Numbers, Flags, Phases, load, eeprom
  <2> QED
    BY <2>1, <2>2
<1>3. ASSUME Elapse PROVE Contents' /\ Numbers' /\ Flags' /\ Phases'
  <2>1. Numbers'
    BY <1>3, EepromAssumption DEF Elapse, Numbers, Older, eeprom
  <2> QED
    BY <1>3, <2>1 DEF Elapse, Contents, Flags, Phases, load, eeprom
<1>4. ASSUME NEW why \in {"load", "reboot"}, NEW k \in Core, Leave(why, k)
      PROVE  Contents' /\ Numbers' /\ Flags' /\ Phases'
  BY <1>4 DEF Leave, Contents, Numbers, Flags, Phases, eeprom, times, ghosts
<1>5. ASSUME Reset PROVE Contents' /\ Numbers' /\ Flags' /\ Phases'
  <2>1. Contents'
    BY <1>5 DEF Reset, Contents
  <2>2. Numbers'
    BY <1>5, EepromAssumption DEF Reset, Numbers, times
  <2>3. Flags' /\ Phases'
    BY <1>5 DEF Reset, Flags, Phases
  <2> QED
    BY <2>1, <2>2, <2>3
<1>6. ASSUME FlushBeforeLoad
      PROVE  Contents' /\ Numbers' /\ Flags' /\ Phases'
  <2>1. PICK how \in Outcome : Flush(how)
    BY <1>6 DEF FlushBeforeLoad
  <2>2. Contents'
    BY <1>6, <2>1, FlushType DEF FlushBeforeLoad, Contents
  <2>3. Numbers'
    BY <1>6, <2>1, FlushType DEF FlushBeforeLoad, Numbers
  <2>4. Flags' /\ Phases'
    BY <1>6, <2>1, FlushType DEF FlushBeforeLoad, Flags, Phases
  <2> QED
    BY <2>2, <2>3, <2>4
<1>7. ASSUME ReadCore PROVE Contents' /\ Numbers' /\ Flags' /\ Phases'
  <2>1. Loaded(next_core) \in Bytes
    BY LoadedType DEF Contents
  <2>2. Contents'
    BY <1>7, <2>1 DEF ReadCore, Contents
  <2>3. Numbers'
    BY <1>7, EepromAssumption DEF ReadCore, Numbers
  <2>4. Flags' /\ Phases'
    BY <1>7 DEF ReadCore, Flags, Phases
  <2> QED
    BY <2>2, <2>3, <2>4
<1>8. ASSUME NEW k \in Core, PowerCycle(k)
      PROVE  Contents' /\ Numbers' /\ Flags' /\ Phases'
  <2>1. Contents'
    BY <1>8, LoadedType DEF PowerCycle, Contents
  <2>2. Numbers'
    BY <1>8, EepromAssumption DEF PowerCycle, Numbers
  <2>3. Flags' /\ Phases'
    BY <1>8 DEF PowerCycle, Flags, Phases
  <2> QED
    BY <2>1, <2>2, <2>3
<1>9. CASE UNCHANGED vars
  BY <1>9 DEF vars, eeprom, times, load, ghosts, Contents, Numbers, Flags,
              Phases
<1> QED
  BY <1>1, <1>2, <1>3, <1>4, <1>5, <1>6, <1>7, <1>8, <1>9 DEF Next

\* Every variable stays in its type: eeprom_dirty in uint16_t, and the ages
\* within the times the code compares them with.
THEOREM TypeCorrect == Spec => []TypeOK
<1>1. Spec => [](TypeOK /\ Phases)
  BY InitType, NextType, PTL DEF Spec
<1> QED
  BY <1>1, PTL

-----------------------------------------------------------------------------
(* eeprom_dirty.                                                            *)

\* The changed bytes after one write.
LEMMA ChangedBySet ==
  ASSUME TypeOK, NEW c \in Cell, NEW v \in Value, Set(c, v)
  PROVE  Changed' = IF v = prev_val[c] THEN Changed \ {c}
                                       ELSE Changed \cup {c}
<1>1. prev_val' = prev_val
  BY DEF Set
<1>2. \A d \in Cell : val'[d] = IF d = c THEN v ELSE val[d]
  BY DEF Set, TypeOK, Contents, Bytes
<1> QED
  BY <1>1, <1>2 DEF Changed

\* A register write keeps eeprom_dirty the number of changed bytes.
LEMMA DirtyBySet ==
  ASSUME TypeOK, DirtyCounts, NEW c \in Cell, NEW v \in Value, Set(c, v)
  PROVE  DirtyCounts'
<1> SUFFICES ASSUME leaving # "reset"
             PROVE  eeprom_dirty' = Cardinality(Changed')
  BY DEF Set, DirtyCounts, load
<1>1. eeprom_dirty = Cardinality(Changed) /\ eeprom_dirty' = counted(c, v)
  BY DEF DirtyCounts, Set
<1>2. v # val[c]
  BY DEF Set
<1>3. CASE val[c] = prev_val[c]
  <2>1. c \notin Changed /\ Changed' = Changed \cup {c}
    BY <1>2, <1>3, ChangedBySet DEF Changed
  <2>2. Cardinality(Changed') = Cardinality(Changed) + 1
    BY <2>1, ChangedLemma, FS_AddElement
  <2>3. Changed' \in SUBSET Cell
    BY <2>1 DEF Changed
  <2>4. Cardinality(Changed') <= Cardinality(Cell)
    BY <2>3, FS_Subset, EepromAssumption
  <2>5. Cardinality(Changed) + 1 < 65536
    BY <2>2, <2>4, ChangedLemma, FS_CardinalityType, EepromAssumption
  <2>6. eeprom_dirty' = (Cardinality(Changed) + 1) % 65536
    BY <1>1, <1>3 DEF counted
  <2> QED
    BY <2>2, <2>5, <2>6, ChangedLemma
<1>4. CASE val[c] # prev_val[c] /\ v = prev_val[c]
  <2>1. c \in Changed /\ Changed' = Changed \ {c}
    BY <1>4, ChangedBySet DEF Changed
  <2>2. Cardinality(Changed') = Cardinality(Changed) - 1
    BY <2>1, ChangedLemma, FS_RemoveElement
  <2>3. IsFiniteSet(Changed')
    BY <2>1, ChangedLemma, FS_RemoveElement
  <2>4. Cardinality(Changed') \in Nat
    BY <2>3, FS_CardinalityType
  <2>5. Cardinality(Changed) < 65536
    BY ChangedLemma, FS_CardinalityType, EepromAssumption
  <2>6. eeprom_dirty' = (Cardinality(Changed) - 1) % 65536
    BY <1>1, <1>4 DEF counted
  <2> QED
    BY <2>2, <2>4, <2>5, <2>6, ChangedLemma
<1>5. CASE val[c] # prev_val[c] /\ v # prev_val[c]
  <2>1. Changed' = Changed
    BY <1>5, ChangedBySet DEF Changed
  <2> QED
    BY <1>1, <1>5, <2>1 DEF counted
<1> QED
  BY <1>3, <1>4, <1>5

\* Nothing differs from what was just read or saved.
LEMMA NothingChanged ==
  ASSUME val = prev_val
  PROVE  Cardinality(Changed) = 0
<1>1. Changed = {}
  BY DEF Changed
<1> QED
  BY <1>1, FS_EmptySet

\* A flush, done or refused, keeps eeprom_dirty the number of changed bytes.
LEMMA DirtyByFlush ==
  ASSUME DirtyCounts, leaving # "reset", NEW how \in Outcome, Flush(how)
  PROVE  eeprom_dirty' = Cardinality(Changed')
<1>1. CASE eeprom_dirty = 0 \/ ~Believed(how)
  BY <1>1 DEF Flush, DirtyCounts, Changed, eeprom
<1>2. CASE eeprom_dirty # 0 /\ Believed(how)
  <2>1. eeprom_dirty' = 0 /\ val' = prev_val'
    BY <1>2 DEF Flush
  <2>2. Changed' = {}
    BY <2>1 DEF Changed
  <2> QED
    BY <2>1, <2>2, FS_EmptySet
<1> QED
  BY <1>1, <1>2

\* At boot no byte differs from prev_val.
LEMMA InitDirty == Init => DirtyCounts
BY NothingChanged DEF Init, DirtyCounts

\* Every step keeps eeprom_dirty true.
LEMMA NextDirty ==
  TypeOK /\ Phases /\ DirtyCounts /\ [Next]_vars => DirtyCounts'
<1> SUFFICES ASSUME TypeOK, Phases, DirtyCounts, [Next]_vars
             PROVE  DirtyCounts'
  OBVIOUS
<1>1. ASSUME NEW c \in Cell, NEW v \in Value, Set(c, v)
      PROVE  DirtyCounts'
  BY <1>1, DirtyBySet
<1>2. ASSUME Tick PROVE DirtyCounts'
  <2>1. CASE due
    <3>1. PICK how \in Outcome : Flush(how)
      BY <1>2, <2>1 DEF Tick
    <3> QED
      BY <1>2, <3>1, DirtyByFlush DEF Tick, DirtyCounts, load
  <2>2. CASE ~due
    BY <1>2, <2>2 DEF Tick, DirtyCounts, Changed, load, eeprom
  <2> QED
    BY <2>1, <2>2
<1>3. ASSUME Elapse PROVE DirtyCounts'
  BY <1>3 DEF Elapse, DirtyCounts, Changed, load, eeprom
<1>4. ASSUME NEW why \in {"load", "reboot"}, NEW k \in Core, Leave(why, k)
      PROVE  DirtyCounts'
  BY <1>4 DEF Leave, Phases, DirtyCounts, Changed, eeprom
<1>5. ASSUME Reset PROVE DirtyCounts'
  BY <1>5 DEF Reset, DirtyCounts
<1>6. ASSUME FlushBeforeLoad PROVE DirtyCounts'
  <2>1. PICK how \in Outcome : Flush(how)
    BY <1>6 DEF FlushBeforeLoad
  <2> QED
    BY <1>6, <2>1, DirtyByFlush DEF FlushBeforeLoad, DirtyCounts
<1>7. ASSUME ReadCore PROVE DirtyCounts'
  <2>1. Changed' = {} /\ eeprom_dirty' = 0
    BY <1>7 DEF ReadCore, Changed
  <2> QED
    BY <2>1, FS_EmptySet DEF DirtyCounts
<1>8. ASSUME NEW k \in Core, PowerCycle(k) PROVE DirtyCounts'
  <2>1. Changed' = {} /\ eeprom_dirty' = 0
    BY <1>8 DEF PowerCycle, Changed
  <2> QED
    BY <2>1, FS_EmptySet DEF DirtyCounts
<1>9. CASE UNCHANGED vars
  BY <1>9 DEF vars, eeprom, load, DirtyCounts, Changed
<1> QED
  BY <1>1, <1>2, <1>3, <1>4, <1>5, <1>6, <1>7, <1>8, <1>9 DEF Next

\* eeprom_dirty is the number of bytes that differ from the file: no change
\* is forgotten and the card is not written for nothing, whatever the core
\* writes and undoes and however saves fail.  core_reset_settings() is left
\* out: it forgets the changes until read_core() runs.
THEOREM DirtyTrue == Spec => []DirtyCounts
<1>1. Init => TypeOK /\ Phases /\ DirtyCounts
  BY InitType, InitDirty
<1>2. TypeOK /\ Phases /\ DirtyCounts /\ [Next]_vars
        => (TypeOK /\ Phases /\ DirtyCounts)'
  BY NextType, NextDirty
<1> QED
  BY <1>1, <1>2, PTL DEF Spec

-----------------------------------------------------------------------------
(* What the file holds.                                                     *)

\* Outside a reset prev_val is what a load of the core would find, and after
\* a flush that succeeded val is that too.
Stored ==
  leaving # "reset" => /\ prev_val = Loaded(core)
                       /\ pc = "read" /\ flushed => val = prev_val

\* A byte that is not counted is not changed.
LEMMA CleanLemma ==
  ASSUME TypeOK, DirtyCounts, leaving # "reset", eeprom_dirty = 0
  PROVE  val = prev_val
<1>1. Changed = {}
  BY ChangedLemma, FS_EmptySet DEF DirtyCounts
<1>2. \A c \in Cell : val[c] = prev_val[c]
  BY <1>1 DEF Changed
<1> QED
  BY <1>2 DEF TypeOK, Contents, Bytes

\* A flush whose close does not fail leaves prev_val what the file holds.
LEMMA StoredByFlush ==
  ASSUME "close" \notin Faults, TypeOK, DirtyCounts, Stored,
         leaving # "reset", core' = core, NEW how \in Outcome, Flush(how)
  PROVE  /\ prev_val' = Loaded(core)'
         /\ flushed' => val' = prev_val'
<1>1. how = "done" \/ how = "refused"
  BY EepromAssumption DEF Outcome
<1>2. CASE eeprom_dirty = 0
  <2>1. val = prev_val
    BY <1>2, CleanLemma
  <2> QED
    BY <1>2, <2>1 DEF Flush, Stored, Loaded, eeprom
<1>3. CASE eeprom_dirty # 0 /\ how = "done"
  <2>1. file'[core] = val
    BY <1>3 DEF Flush, Written, TypeOK, Contents
  <2>2. prev_val' = val /\ val' = val
    BY <1>3 DEF Flush, Believed
  <2>3. val # Short
    BY LoadedLemma DEF TypeOK, Contents
  <2> QED
    BY <2>1, <2>2, <2>3 DEF Loaded
<1>4. CASE eeprom_dirty # 0 /\ how = "refused"
  <2>1. file' = file
    BY <1>4 DEF Flush, Written, TypeOK, Contents
  <2>2. prev_val' = prev_val /\ flushed' = FALSE
    BY <1>4 DEF Flush, Believed
  <2> QED
    BY <2>1, <2>2 DEF Stored, Loaded
<1> QED
  BY <1>1, <1>2, <1>3, <1>4

\* Every step keeps prev_val what the file holds, if no close fails.
LEMMA NextStored ==
  ASSUME "close" \notin Faults
  PROVE  TypeOK /\ Phases /\ DirtyCounts /\ Stored /\ [Next]_vars => Stored'
<1> SUFFICES ASSUME TypeOK, Phases, DirtyCounts, Stored, [Next]_vars
             PROVE  Stored'
  OBVIOUS
<1>1. ASSUME NEW c \in Cell, NEW v \in Value, Set(c, v) PROVE Stored'
  BY <1>1 DEF Set, Stored, Loaded, load
<1>2. ASSUME Tick PROVE Stored'
  <2>1. CASE due
    <3>1. PICK how \in Outcome : Flush(how)
      BY <1>2, <2>1 DEF Tick
    <3> QED
      BY <1>2, <3>1, StoredByFlush DEF Tick, Phases, Stored, Loaded, load
  <2>2. CASE ~due
    BY <1>2, <2>2 DEF Tick, Stored, Loaded, load, eeprom
  <2> QED
    BY <2>1, <2>2
<1>3. ASSUME Elapse PROVE Stored'
  BY <1>3 DEF Elapse, Stored, Loaded, load, eeprom
<1>4. ASSUME NEW why \in {"load", "reboot"}, NEW k \in Core, Leave(why, k)
      PROVE  Stored'
  BY <1>4 DEF Leave, Phases, Stored, Loaded, eeprom
<1>5. ASSUME Reset PROVE Stored'
  BY <1>5 DEF Reset, Stored
<1>6. ASSUME FlushBeforeLoad PROVE Stored'
  <2>1. PICK how \in Outcome : Flush(how)
    BY <1>6 DEF FlushBeforeLoad
  <2> QED
    BY <1>6, <2>1, StoredByFlush DEF FlushBeforeLoad, Stored, Loaded
<1>7. ASSUME ReadCore PROVE Stored'
  BY <1>7 DEF ReadCore, Stored, Loaded
<1>8. ASSUME NEW k \in Core, PowerCycle(k) PROVE Stored'
  BY <1>8 DEF PowerCycle, Stored, Loaded
<1>9. CASE UNCHANGED vars
  BY <1>9 DEF vars, eeprom, load, Stored, Loaded
<1> QED
  BY <1>1, <1>2, <1>3, <1>4, <1>5, <1>6, <1>7, <1>8, <1>9 DEF Next

\* The invariant behind PrevTrue and AllSaved.
LEMMA StoredInvariant ==
  ASSUME "close" \notin Faults
  PROVE  Spec => [](TypeOK /\ Phases /\ DirtyCounts /\ Stored)
<1> DEFINE Inv == TypeOK /\ Phases /\ DirtyCounts /\ Stored
<1>1. Init => Inv
  <2>1. Init => Stored
    BY DEF Init, Stored, Loaded
  <2> QED
    BY <2>1, InitType, InitDirty
<1>2. Inv /\ [Next]_vars => Inv'
  BY NextType, NextDirty, NextStored
<1> QED
  BY <1>1, <1>2, PTL DEF Spec

\* As long as no save fails when its file is closed, prev_val is the byte in
\* the file: what a power cycle would bring back.
THEOREM PrevTrue ==
  ASSUME "close" \notin Faults
  PROVE  Spec => []PrevInFile
<1>1. Phases /\ Stored => PrevInFile
  BY DEF Phases, Stored, PrevInFile
<1> QED
  BY <1>1, StoredInvariant, PTL

\* A core that is replaced, or a reboot, finds everything the core wrote in
\* the file, unless the card refused the save.
THEOREM AllSaved ==
  ASSUME "close" \notin Faults
  PROVE  Spec => NothingWaits
<1>1. Stored /\ [Next]_vars =>
        [ReadCore /\ leaving # "reset" /\ flushed => Loaded(core) = val]_vars
  BY DEF Stored, ReadCore
<1> QED
  BY <1>1, StoredInvariant, PTL DEF Spec, NothingWaits

-----------------------------------------------------------------------------
(* How long a change waits.                                                 *)

\* How the time a byte has waited relates to the ages core_eeprom_tick()
\* looks at.  Fresh: no change is older than the first one, nor, after a
\* save that worked, than that save.
Fresh ==
  /\ \A c \in Cell \ Changed : waited[c] = 0
  /\ leaving = "reset" => \A c \in Cell : waited[c] = 0
  /\ \A c \in Cell : waited[c] <= first_change \/ first_change = MaxAge
  /\ flushed => \A c \in Cell : waited[c] <= last_save \/ last_save = Gap

\* A tick leaves no change to become too old before the next one.
Punctual ==
  flushed => \A c \in Cell : waited[c] <= MaxAge /\ (ticked => waited[c] < MaxAge)

\* All bytes wait for nothing, which satisfies both.
LEMMA AtRest ==
  ASSUME Numbers', \A c \in Cell : waited'[c] = 0
  PROVE  Fresh' /\ Punctual'
BY EepromAssumption DEF Numbers, Fresh, Punctual

\* A flush that returns true leaves no change behind.
LEMMA FlushedAtRest ==
  ASSUME TypeOK, DirtyCounts, Fresh, NEW how \in Outcome, Flush(how), flushed'
  PROVE  \A c \in Cell : waited'[c] = 0
<1>1. CASE eeprom_dirty = 0 /\ leaving # "reset"
  <2>1. val = prev_val
    BY <1>1, CleanLemma
  <2>2. Changed = {} /\ waited' = waited
    BY <1>1, <2>1 DEF Changed, Flush
  <2> QED
    BY <2>2 DEF Fresh
<1>2. CASE eeprom_dirty = 0 /\ leaving = "reset"
  BY <1>2 DEF Flush, Fresh
<1>3. CASE eeprom_dirty # 0
  BY <1>3 DEF Flush
<1> QED
  BY <1>1, <1>2, <1>3

\* A flush that returns false changes only last_save and the file.
LEMMA FlushRefused ==
  ASSUME NEW how \in Outcome, Flush(how), ~flushed'
  PROVE  waited' = waited /\ Changed' = Changed
BY DEF Flush, Changed

\* A flush keeps the age of the oldest change within eeprom_first_change.
LEMMA FreshByFlush ==
  ASSUME TypeOK, Numbers', DirtyCounts, Fresh, NEW how \in Outcome, Flush(how),
         first_change' = first_change, leaving' = leaving, flushed' \in BOOLEAN
  PROVE  Fresh' /\ Punctual'
<1>1. CASE flushed'
  BY <1>1, FlushedAtRest, AtRest
<1>2. CASE ~flushed'
  BY <1>2, FlushRefused DEF Fresh, Punctual
<1> QED
  BY <1>1, <1>2

\* Every step keeps the oldest change young enough to be saved in time.
LEMMA NextFresh ==
  TypeOK /\ TypeOK' /\ Phases /\ DirtyCounts /\ Fresh /\ Punctual /\ [Next]_vars
    => Fresh' /\ Punctual'
<1> SUFFICES ASSUME TypeOK, TypeOK', Phases, DirtyCounts, Fresh, Punctual,
                    [Next]_vars
             PROVE  Fresh' /\ Punctual'
  OBVIOUS
<1>0. Numbers /\ Numbers' /\ Flags'
  BY DEF TypeOK
<1>1. ASSUME NEW c \in Cell, NEW v \in Value, Set(c, v)
      PROVE  Fresh' /\ Punctual'
  <2>1. \A d \in Cell : waited'[d] = waited[d] \/ waited'[d] = 0
    BY <1>0, <1>1 DEF Set, Numbers
  <2>2. \A d \in Cell \ Changed' : waited'[d] = 0
    <3> TAKE d \in Cell \ Changed'
    <3>1. CASE d = c
      <4>1. v = prev_val[c]
        BY <1>1, <3>1, ChangedBySet
      <4> QED
        BY <1>0, <1>1, <3>1, <4>1 DEF Set, Numbers
    <3>2. CASE d # c
      <4>1. d \notin Changed
        BY <1>1, <3>2, ChangedBySet
      <4> QED
        BY <2>1, <4>1 DEF Fresh
    <3> QED
      BY <3>1, <3>2
  <2>3. leaving' = "reset" => \A d \in Cell : waited'[d] = 0
    BY <1>1, <2>1 DEF Set, Fresh, load
  <2>4. \A d \in Cell : waited'[d] <= first_change' \/ first_change' = MaxAge
    <3>1. CASE first_change' = first_change
      BY <1>0, <2>1, <3>1 DEF Fresh, Numbers
    <3>2. CASE eeprom_dirty = 0 /\ leaving # "reset"
      <4>1. Changed = {}
        BY <3>2, CleanLemma DEF Changed
      <4>2. \A d \in Cell : waited'[d] = 0
        BY <2>1, <4>1 DEF Fresh
      <4> QED
        BY <1>0, <4>2 DEF Numbers
    <3>3. CASE eeprom_dirty = 0 /\ leaving = "reset"
      <4>1. \A d \in Cell : waited'[d] = 0
        BY <2>1, <3>3 DEF Fresh
      <4> QED
        BY <1>0, <4>1 DEF Numbers
    <3> QED
      BY <1>1, <3>1, <3>2, <3>3 DEF Set
  <2>5. flushed' => \A d \in Cell : waited'[d] <= last_save' \/ last_save' = Gap
    BY <1>0, <1>1, <2>1 DEF Set, Fresh, Numbers
  <2>6. Punctual'
    BY <1>0, <1>1, <2>1, EepromAssumption DEF Set, Punctual, Numbers
  <2> QED
    BY <2>2, <2>3, <2>4, <2>5, <2>6 DEF Fresh
<1>2. ASSUME Tick PROVE Fresh' /\ Punctual'
  <2>1. CASE due
    <3>1. PICK how \in Outcome : Flush(how)
      BY <1>2, <2>1 DEF Tick
    <3> QED
      BY <1>0, <1>2, <3>1, FreshByFlush DEF Tick, load, Flags
  <2>2. CASE ~due
    <3>1. UNCHANGED <<val, prev_val, first_change, last_save, leaving, flushed,
                      waited>>
      BY <1>2, <2>2 DEF Tick, load, eeprom
    <3>2. Fresh'
      BY <3>1 DEF Fresh, Changed
    <3>3. ASSUME flushed, NEW c \in Cell PROVE waited[c] < MaxAge
      <4>1. CASE eeprom_dirty = 0
        <5>1. Changed = {}
          BY <1>2, <4>1, CleanLemma DEF Tick, Phases, Changed
        <5> QED
          BY <5>1, EepromAssumption DEF Fresh
      <4>2. CASE last_save < Gap
        BY <1>0, <3>3, <4>2, EepromAssumption DEF Fresh, Numbers
      <4>3. CASE first_change < MaxAge
        BY <1>0, <4>3, EepromAssumption DEF Fresh, Numbers
      <4> QED
        BY <1>0, <2>2, <4>1, <4>2, <4>3, EepromAssumption DEF due, Numbers
    <3> QED
      BY <3>1, <3>2, <3>3 DEF Punctual
  <2> QED
    BY <2>1, <2>2
<1>3. ASSUME Elapse PROVE Fresh' /\ Punctual'
  <2>1. \A c \in Cell : waited'[c] = IF c \in Changed
                                     THEN Older(waited[c], MaxAge + 1) ELSE 0
    BY <1>3 DEF Elapse, Changed
  <2>2. Changed' = Changed /\ leaving' # "reset" /\ ~ticked'
    BY <1>3 DEF Elapse, Changed, eeprom, Phases, load
  <2>3. /\ first_change' = Older(first_change, MaxAge)
        /\ last_save' = Older(last_save, Gap)
        /\ flushed' = flushed /\ ticked
    BY <1>3 DEF Elapse
  <2>4. \A c \in Cell : waited'[c] <= waited[c] + 1
    BY <1>0, <2>1, EepromAssumption DEF Older, Numbers
  <2>5. \A c \in Cell : waited'[c] <= first_change' \/ first_change' = MaxAge
    BY <1>0, <2>3, <2>4, EepromAssumption DEF Older, Numbers, Fresh
  <2>6. flushed' => \A c \in Cell : waited'[c] <= last_save' \/ last_save' = Gap
    BY <1>0, <2>3, <2>4, EepromAssumption DEF Older, Numbers, Fresh
  <2>7. flushed' => \A c \in Cell : waited'[c] <= MaxAge
    BY <1>0, <2>3, <2>4, EepromAssumption DEF Punctual, Numbers
  <2> QED
    BY <2>1, <2>2, <2>5, <2>6, <2>7 DEF Fresh, Punctual
<1>4. ASSUME NEW why \in {"load", "reboot"}, NEW k \in Core, Leave(why, k)
      PROVE  Fresh' /\ Punctual'
  BY <1>4 DEF Leave, Fresh, Punctual, Changed, eeprom, times, ghosts
<1>5. ASSUME Reset PROVE Fresh' /\ Punctual'
  BY <1>0, <1>5, AtRest DEF Reset
<1>6. ASSUME FlushBeforeLoad PROVE Fresh' /\ Punctual'
  <2>1. PICK how \in Outcome : Flush(how)
    BY <1>6 DEF FlushBeforeLoad
  <2> QED
    BY <1>0, <1>6, <2>1, FreshByFlush DEF FlushBeforeLoad, Flags
<1>7. ASSUME ReadCore PROVE Fresh' /\ Punctual'
  BY <1>0, <1>7, AtRest DEF ReadCore
<1>8. ASSUME NEW k \in Core, PowerCycle(k) PROVE Fresh' /\ Punctual'
  BY <1>0, <1>8, AtRest DEF PowerCycle
<1>9. CASE UNCHANGED vars
  BY <1>9 DEF vars, eeprom, times, load, ghosts, Fresh, Punctual, Changed
<1> QED
  BY <1>1, <1>2, <1>3, <1>4, <1>5, <1>6, <1>7, <1>8, <1>9 DEF Next

\* No byte differs from the file for longer than EEPROM_SAVE_MAX_MS while the
\* saves work: neither a core that never stops writing nor the gap between
\* two saves can put a save off for ever.
THEOREM InTime == Spec => []SavedInTime
<1> DEFINE Inv == TypeOK /\ Phases /\ DirtyCounts /\ Fresh /\ Punctual
<1>1. Init => Inv
  <2>1. Init => Fresh /\ Punctual
    BY EepromAssumption DEF Init, Fresh, Punctual
  <2> QED
    BY <2>1, InitType, InitDirty
<1>2. Inv /\ [Next]_vars => Inv'
  BY NextType, NextDirty, NextFresh
<1>3. Inv => SavedInTime
  BY DEF Punctual, SavedInTime
<1> QED
  BY <1>1, <1>2, <1>3, PTL DEF Spec

-----------------------------------------------------------------------------
(* A reset of the settings.                                                 *)

\* Between core_reset_settings() and the load that follows nothing is counted
\* and the file is gone, if no frame of the core comes in.
Forgotten ==
  leaving = "reset" => /\ core \in Kgo2 /\ next_core = core
                       /\ eeprom_dirty = 0 /\ file[core] = Short

\* A reset takes the EEPROM of a core without a backup RAM to flush back to
\* its first content.
THEOREM ResetTrue ==
  ASSUME Bk \cap Kgo2 = {}
  PROVE  Spec => ResetForgets
<1>1. Init => Forgotten
  BY DEF Init, Forgotten
<1>2. TypeOK /\ Phases /\ Forgotten /\ [Next]_vars => Forgotten'
  <2> SUFFICES ASSUME TypeOK, Phases, Forgotten, [Next]_vars,
                      leaving' = "reset"
               PROVE  Forgotten'
    BY DEF Forgotten
  <2>1. ASSUME NEW c \in Cell, NEW v \in Value, Set(c, v) PROVE Forgotten'
    BY <2>1 DEF Set, Forgotten, Phases, load
  <2>2. ASSUME Tick PROVE Forgotten'
    BY <2>2 DEF Tick, Phases, load
  <2>3. ASSUME Elapse PROVE Forgotten'
    BY <2>3 DEF Elapse, Phases, load
  <2>4. ASSUME NEW why \in {"load", "reboot"}, NEW k \in Core, Leave(why, k)
        PROVE  Forgotten'
    BY <2>4 DEF Leave
  <2>5. ASSUME Reset PROVE Forgotten'
    BY <2>5 DEF Reset, Forgotten, TypeOK, Contents
  <2>6. ASSUME FlushBeforeLoad PROVE Forgotten'
    <3>1. PICK how \in Outcome : Flush(how)
      BY <2>6 DEF FlushBeforeLoad
    <3>2. eeprom_dirty = 0
      BY <2>6 DEF FlushBeforeLoad, Forgotten
    <3> QED
      BY <2>6, <3>1, <3>2 DEF FlushBeforeLoad, Flush, Forgotten, eeprom
  <2>7. ASSUME ReadCore PROVE Forgotten'
    BY <2>7 DEF ReadCore
  <2>8. ASSUME NEW k \in Core, PowerCycle(k) PROVE Forgotten'
    BY <2>8 DEF PowerCycle
  <2>9. CASE UNCHANGED vars
    BY <2>9 DEF vars, eeprom, load, Forgotten
  <2> QED
    BY <2>1, <2>2, <2>3, <2>4, <2>5, <2>6, <2>7, <2>8, <2>9 DEF Next
<1>3. Forgotten /\ [Next]_vars =>
        [ReadCore /\ leaving = "reset" =>
           \A c \in Cell \ touched : val'[c] = Erased]_vars
  BY DEF Forgotten, ReadCore, Loaded, Blank
<1> QED
  BY <1>1, <1>2, <1>3, InitType, NextType, PTL DEF Spec, ResetForgets

-----------------------------------------------------------------------------
(* The backup RAM: the inductive invariant.                                *)

\* The slot has the file of the game that runs, or none; it is asked for while the
\* core has no save.
OneGame ==
  /\ game_name = ram.game
  /\ IF bk_slot THEN bkFile = ram.game /\ bkFile # None ELSE bkFile = None
  /\ sees \in {"mounted", "flushing"} => bk_slot /\ ~bk_request /\ image[ram.game].n = kept
  /\ ram.game = None => sees = "nothing" /\ ~bk_request
  /\ bkApp = "load" => ~bk_slot

\* A write request is the running game's, with a change its file does not have; or its game
\* was replaced while all of it was here, and the loop serves it before it mounts a file.
Requested ==
  sector.st # "none" =>
    \/ ram.game # None /\ sector.ram.game = ram.game /\ image[ram.game].n = kept /\ sector.ram.n > kept
    \/ bkApp = "img" /\ ~bk_slot /\ sector.st = "whole"

\* A flush is waited for, and answered after its changes are in the file.
Flushed ==
  /\ sees = "flushing" => bkApp \in {"flush", "flushed"} /\ flush_result = "none" /\ reply = "none"
  /\ sees = "asks" => reply = "none"
  /\ sees = "mounted" /\ bkApp \notin {"flush", "flushed"} => reply = "none"
  /\ bkApp \in {"flush", "flushed"} /\ bk_slot =>
       IF sees = "flushing" THEN owed <= ram.n
       ELSE "done" \in {reply, flush_result} => image[bkFile].n >= owed
  /\ bkApp = "flushed" /\ flushOk /\ bk_slot => image[bkFile].n >= owed

SaveInv == BackupTypeOK /\ SaveOfItsGame /\ OneGame /\ Requested /\ Flushed

\* A RAM is a game and a number.
LEMMA RamType ==
  /\ Zero \in Ram
  /\ \A r \in Ram : r.game \in Games \cup {None} /\ r.n \in 0 .. MaxChanges /\ r.n \in Nat
  /\ \A g \in Games \cup {None}, n \in 0 .. MaxChanges : [game |-> g, n |-> n] \in Ram
  /\ MaxChanges \in Nat /\ None \notin Games
BY BackupAssumption DEF Ram, Zero

\* A RAM with another number is one of the same game.
LEMMA RamUpdate ==
  \A r \in Ram, n \in 0 .. MaxChanges :
    /\ [r EXCEPT !.n = n] \in Ram
    /\ [r EXCEPT !.n = n].game = r.game /\ [r EXCEPT !.n = n].n = n
BY DEF Ram

\* A card operation that fails is counted.
LEMMA FailType ==
  ASSUME BackupTypeOK, Fail
  PROVE  bkFails' \in 0 .. MaxFails
BY BackupAssumption DEF Fail, BackupTypeOK

\* What the mounter leaves of a request, in the file and on its way.
LEMMA ServeType ==
  ASSUME BackupTypeOK, OneGame, serve, ram' = ram
  PROVE  /\ image' \in [Games -> Ram] /\ kept' \in 0 .. MaxChanges /\ bkFails' \in 0 .. MaxFails
         /\ sector' \in [st : {"none", "sent", "taken", "whole"}, ram : Ram]
<1>1. sector' \in [st : {"none", "sent", "taken", "whole"}, ram : Ram]
  <2>1. sector' = NoSector
    BY DEF serve
  <2> QED
    BY <2>1, RamType DEF NoSector
<1>2. CASE /\ bkFile # None
           /\ image' = [image EXCEPT ![bkFile] = sector.ram]
           /\ kept' = IF ram.game = sector.ram.game THEN sector.ram.n ELSE kept
           /\ UNCHANGED bkFails
  <2>1. sector.ram \in Ram
    BY DEF BackupTypeOK
  <2>2. sector.ram.n \in 0 .. MaxChanges
    BY <2>1, RamType
  <2> QED
    BY <1>1, <1>2, <2>1, <2>2 DEF BackupTypeOK
<1>3. CASE bkFile = None /\ UNCHANGED <<image, kept, bkFails>>
  BY <1>1, <1>3 DEF BackupTypeOK
<1>4. CASE bkFile # None /\ Fail /\ UNCHANGED <<image, kept>>
  BY <1>1, <1>4, FailType DEF BackupTypeOK
<1> QED
  BY <1>2, <1>3, <1>4 DEF serve

\* The core asks for its file while it has none.
LEMMA Inv_AskFile == ASSUME SaveInv, AskFile PROVE SaveInv'
<1>1. BackupTypeOK'
  BY DEF AskFile, bkFlush, BackupTypeOK, SaveInv
<1>2. SaveOfItsGame'
  BY DEF AskFile, SaveOfItsGame, SaveInv
<1>3. OneGame'
  BY DEF AskFile, OneGame, SaveInv
<1>4. Requested'
  BY DEF AskFile, Requested, SaveInv
<1>5. Flushed'
  BY DEF AskFile, bkFlush, Flushed, SaveInv
<1> QED
  BY <1>1, <1>2, <1>3, <1>4, <1>5 DEF SaveInv

\* The game changes its RAM: nothing of it is on the way.
LEMMA Inv_Play == ASSUME SaveInv, Play PROVE SaveInv'
<1>1. BackupTypeOK'
  <2>1. ram.n + 1 \in 0 .. MaxChanges /\ ram \in Ram
    BY RamType DEF Play, BackupTypeOK, SaveInv
  <2>2. ram' = [ram EXCEPT !.n = ram.n + 1]
    BY DEF Play, SaveInv
  <2>3. ram' \in Ram
    BY <2>1, <2>2, RamUpdate DEF SaveInv
  <2> QED
    BY <2>3 DEF Play, bkSlot, bkFlush, BackupTypeOK, SaveInv
<1>2. SaveOfItsGame'
  BY DEF Play, SaveOfItsGame, SaveInv
<1>3. OneGame'
  BY DEF Play, bkSlot, OneGame, SaveInv
<1>4. Requested'
  BY DEF Play, bkSlot, Requested, SaveInv
<1>5. Flushed'
  BY RamType DEF Play, bkSlot, bkFlush, BackupTypeOK, Flushed, SaveInv
<1> QED
  BY <1>1, <1>2, <1>3, <1>4, <1>5 DEF SaveInv

\* A request is made of the running game, with a change its file does not have.
LEMMA Inv_AskWrite == ASSUME SaveInv, AskWrite PROVE SaveInv'
<1>1. BackupTypeOK'
  BY DEF AskWrite, bkCore, bkSlot, bkFlush, BackupTypeOK, SaveInv
<1>2. SaveOfItsGame'
  BY DEF AskWrite, SaveOfItsGame, SaveInv
<1>3. OneGame'
  BY DEF AskWrite, bkCore, bkSlot, OneGame, SaveInv
<1>4. Requested'
  BY DEF AskWrite, bkCore, OneGame, Requested, SaveInv
<1>5. Flushed'
  BY DEF AskWrite, bkCore, bkSlot, bkFlush, Flushed, SaveInv
<1> QED
  BY <1>1, <1>2, <1>3, <1>4, <1>5 DEF SaveInv

\* The core answers done when its file has every change, so those that are owed.
LEMMA Inv_Answer == ASSUME SaveInv, Answer PROVE SaveInv'
<1>1. BackupTypeOK'
  <2>1. CASE ram.n = kept /\ reply' = "done" /\ UNCHANGED bkFails
    BY <2>1 DEF Answer, bkSlot, bkFlush, BackupTypeOK, SaveInv
  <2>2. CASE Fail /\ reply' = "error"
    BY <2>2, FailType DEF Answer, bkSlot, bkFlush, BackupTypeOK, SaveInv
  <2> QED
    BY <2>1, <2>2 DEF Answer, SaveInv
<1>2. SaveOfItsGame'
  BY DEF Answer, SaveOfItsGame, SaveInv
<1>3. OneGame'
  BY DEF Answer, bkSlot, OneGame, SaveInv
<1>4. Requested'
  BY DEF Answer, Requested, SaveInv
<1>5. Flushed'
  BY DEF Answer, bkSlot, bkFlush, OneGame, Flushed, SaveInv
<1> QED
  BY <1>1, <1>2, <1>3, <1>4, <1>5 DEF SaveInv

\* An answer is taken as the result of the flush that waits for it, or when no flush waits.
LEMMA Inv_on_img_flush == ASSUME SaveInv, on_img_flush PROVE SaveInv'
<1>1. BackupTypeOK'
  BY DEF on_img_flush, bkSlot, BackupTypeOK, SaveInv
<1>2. SaveOfItsGame'
  BY DEF on_img_flush, SaveOfItsGame, SaveInv
<1>3. OneGame'
  BY DEF on_img_flush, bkSlot, OneGame, SaveInv
<1>4. Requested'
  BY DEF on_img_flush, bkSlot, Requested, SaveInv
<1>5. Flushed'
  BY DEF on_img_flush, bkSlot, Flushed, SaveInv
<1> QED
  BY <1>1, <1>2, <1>3, <1>4, <1>5 DEF SaveInv

\* A request gets on its way; only that of the running game may still be unsent.
LEMMA Inv_Pull == ASSUME SaveInv, Pull PROVE SaveInv'
<1>1. BackupTypeOK'
  BY DEF Pull, bkCore, bkSlot, bkFlush, BackupTypeOK, SaveInv
<1>2. SaveOfItsGame'
  BY DEF Pull, SaveOfItsGame, SaveInv
<1>3. OneGame'
  BY DEF Pull, bkCore, bkSlot, OneGame, SaveInv
<1>4. Requested'
  BY DEF Pull, bkCore, BackupTypeOK, Requested, SaveInv
<1>5. Flushed'
  BY DEF Pull, bkCore, bkSlot, bkFlush, Flushed, SaveInv
<1> QED
  BY <1>1, <1>2, <1>3, <1>4, <1>5 DEF SaveInv

\* The loop serves a request into the file of its game, or drops it when none is mounted.
LEMMA Inv_ImgTick == ASSUME SaveInv, ImgTick PROVE SaveInv'
<1>1. BackupTypeOK'
  <2>1. CASE serve
    BY <2>1, ServeType DEF ImgTick, bkSlot, bkFlush, BackupTypeOK, SaveInv
  <2>2. CASE UNCHANGED <<sector, image, kept, bkFails>>
    BY <2>2 DEF ImgTick, bkSlot, bkFlush, BackupTypeOK, SaveInv
  <2> QED
    BY <2>1, <2>2 DEF ImgTick, SaveInv
<1>2. SaveOfItsGame'
  BY DEF ImgTick, serve, BackupTypeOK, SaveOfItsGame, OneGame, Requested, SaveInv
<1>3. OneGame'
  BY DEF ImgTick, serve, bkSlot, BackupTypeOK, OneGame, Requested, Flushed, SaveInv
<1>4. Requested'
  BY DEF ImgTick, serve, NoSector, Requested, SaveInv
<1>5. Flushed'
  BY DEF ImgTick, serve, Flushed, SaveInv
<1> QED
  BY <1>1, <1>2, <1>3, <1>4, <1>5 DEF SaveInv

\* The file of the running game is mounted; what a replaced game left was served before.
LEMMA Inv_bk_tick == ASSUME SaveInv, bk_tick PROVE SaveInv'
<1> DEFINE Idle == ~bk_request /\ UNCHANGED <<bk_request, bk_slot, bkFile, ram, kept, sees, bkFails>>
            Mounts == /\ bk_request /\ bk_request' = FALSE /\ game_name # None
                      /\ img_mount(game_name) /\ bk_slot' = TRUE /\ UNCHANGED bkFails
            Skips  == /\ bk_request /\ bk_request' = FALSE
                      /\ game_name = None \/ Fail
                      /\ game_name = None => UNCHANGED bkFails
                      /\ img_mount(None) /\ bk_slot' = FALSE
<1>0. Idle \/ Mounts \/ Skips
  BY DEF bk_tick, SaveInv
<1>a. /\ bkApp = "bk" /\ bkApp' = "ui"
      /\ UNCHANGED <<game_name, image, sector, reply, purpose, flush_result, owed, flushOk>>
  BY DEF bk_tick, bkFlush, SaveInv
<1>b. ASSUME Mounts
      PROVE  /\ game_name \in Games /\ game_name = ram.game /\ bkFile' = game_name
             /\ image[game_name] \in Ram /\ image[game_name].n \in 0 .. MaxChanges
             /\ ram' \in Ram /\ ram'.game = ram.game
             /\ sees = "asks" => sees' = "mounted" /\ kept' = image[ram.game].n
             /\ sees # "asks" => UNCHANGED <<sees, kept>>
  <2>1. game_name \in Games /\ game_name = ram.game /\ bkFile' = game_name /\ Shown(game_name)
    BY <1>b DEF img_mount, BackupTypeOK, OneGame, SaveInv
  <2>2. image[game_name] \in Ram /\ image[game_name].n \in 0 .. MaxChanges
    BY <2>1, RamType DEF BackupTypeOK, SaveInv
  <2>3. CASE sees = "asks"
    <3>1. /\ ram' = [ram EXCEPT !.n = image[game_name].n]
          /\ sees' = "mounted" /\ kept' = image[game_name].n
      BY <2>1, <2>3, RamType DEF Shown, SaveInv
    <3>2. ram' \in Ram /\ ram'.game = ram.game
      BY <2>2, <3>1, RamUpdate DEF BackupTypeOK, SaveInv
    <3> QED
      BY <2>1, <2>2, <2>3, <3>1, <3>2
  <2>4. CASE sees # "asks"
    BY <2>1, <2>2, <2>4, RamType DEF Shown, BackupTypeOK, SaveInv
  <2> QED
    BY <2>3, <2>4
<1>1. BackupTypeOK'
  <2>1. CASE Idle
    BY <1>a, <2>1 DEF BackupTypeOK, SaveInv
  <2>2. CASE Mounts
    BY <1>a, <1>b, <2>2 DEF BackupTypeOK, SaveInv
  <2>3. CASE Skips
    <3>1. bkFails' \in 0 .. MaxFails
      BY <2>3, FailType DEF BackupTypeOK, SaveInv
    <3> QED
      BY <1>a, <2>3, <3>1 DEF img_mount, Shown, BackupTypeOK, SaveInv
  <2> QED
    BY <1>0, <2>1, <2>2, <2>3
<1>2. SaveOfItsGame'
  BY DEF bk_tick, img_mount, Shown, SaveOfItsGame, SaveInv
<1>3. OneGame'
  <2>1. CASE Idle
    BY <1>a, <2>1 DEF OneGame, SaveInv
  <2>2. CASE Mounts
    <3>1. sees \notin {"mounted", "flushing"}
      BY <2>2 DEF OneGame, SaveInv
    <3> QED
      BY <1>a, <1>b, <2>2, <3>1 DEF OneGame, SaveInv
  <2>3. CASE Skips
    BY <1>a, <2>3 DEF img_mount, Shown, OneGame, SaveInv
  <2> QED
    BY <1>0, <2>1, <2>2, <2>3
<1>4. Requested'
  <2>1. sector.st # "none" => /\ ram.game # None /\ sector.ram.game = ram.game
                              /\ image[ram.game].n = kept /\ sector.ram.n > kept
    BY <1>a DEF Requested, SaveInv
  <2>2. kept' \in {kept, image[ram.game].n} /\ ram'.game = ram.game
    <3>1. CASE Mounts
      BY <1>b, <3>1
    <3>2. CASE UNCHANGED <<ram, kept>>
      BY <3>2
    <3> QED
      BY <1>0, <3>1, <3>2 DEF img_mount, Shown, SaveInv
  <2> QED
    BY <1>a, <2>1, <2>2 DEF Requested, SaveInv
<1>5. Flushed'
  <2>1. CASE Idle
    BY <1>a, <2>1 DEF Flushed, SaveInv
  <2>2. CASE Mounts
    BY <1>a, <2>2 DEF img_mount, Shown, Flushed, SaveInv
  <2>3. CASE Skips
    BY <1>a, <2>3 DEF img_mount, Shown, Flushed, SaveInv
  <2> QED
    BY <1>0, <2>1, <2>2, <2>3
<1> QED
  BY <1>1, <1>2, <1>3, <1>4, <1>5 DEF SaveInv

\* A flush begins with no answer on its way.
LEMMA Inv_Pick == ASSUME SaveInv, Pick PROVE SaveInv'
<1>1. BackupTypeOK'
  BY RamType DEF Pick, bkSlot, BackupTypeOK, SaveInv
<1>2. SaveOfItsGame'
  BY DEF Pick, SaveOfItsGame, SaveInv
<1>3. OneGame'
  BY DEF Pick, bkSlot, OneGame, SaveInv
<1>4. Requested'
  BY DEF Pick, Requested, SaveInv
<1>5. Flushed'
  BY RamType DEF Pick, bkSlot, BackupTypeOK, OneGame, Flushed, SaveInv
<1> QED
  BY <1>1, <1>2, <1>3, <1>4, <1>5 DEF SaveInv

\* The loop goes on.
LEMMA Inv_NotPicked == ASSUME SaveInv, NotPicked PROVE SaveInv'
<1>1. BackupTypeOK'
  BY DEF NotPicked, bkCore, bkSlot, bkFlush, BackupTypeOK, SaveInv
<1>2. SaveOfItsGame'
  BY DEF NotPicked, SaveOfItsGame, SaveInv
<1>3. OneGame'
  BY DEF NotPicked, bkCore, bkSlot, OneGame, SaveInv
<1>4. Requested'
  BY DEF NotPicked, bkCore, Requested, SaveInv
<1>5. Flushed'
  BY DEF NotPicked, bkCore, Flushed, SaveInv
<1> QED
  BY <1>1, <1>2, <1>3, <1>4, <1>5 DEF SaveInv

\* A request served inside a flush belongs to the running game.
LEMMA Inv_FlushServe == ASSUME SaveInv, FlushServe PROVE SaveInv'
<1>1. BackupTypeOK'
  BY ServeType DEF FlushServe, bkSlot, bkFlush, BackupTypeOK, SaveInv
<1>2. SaveOfItsGame'
  BY DEF FlushServe, serve, BackupTypeOK, SaveOfItsGame, OneGame, Requested, SaveInv
<1>3. OneGame'
  BY DEF FlushServe, serve, bkSlot, BackupTypeOK, OneGame, Requested, Flushed, SaveInv
<1>4. Requested'
  BY DEF FlushServe, serve, NoSector, Requested, SaveInv
<1>5. Flushed'
  BY RamType DEF FlushServe, serve, bkSlot, bkFlush, BackupTypeOK, OneGame, Requested, Flushed, SaveInv
<1> QED
  BY <1>1, <1>2, <1>3, <1>4, <1>5 DEF SaveInv

\* The flush ends with the answer, or without one and then not as done.
LEMMA Inv_bk_flush == ASSUME SaveInv, bk_flush PROVE SaveInv'
<1>1. BackupTypeOK'
  BY DEF bk_flush, bk_flush_result, bkCore, bkSlot, BackupTypeOK, SaveInv
<1>2. SaveOfItsGame'
  BY DEF bk_flush, bk_flush_result, SaveOfItsGame, SaveInv
<1>3. OneGame'
  BY DEF bk_flush, bk_flush_result, bkCore, bkSlot, OneGame, SaveInv
<1>4. Requested'
  BY DEF bk_flush, bk_flush_result, bkCore, Requested, SaveInv
<1>5. Flushed'
  BY DEF bk_flush, bk_flush_result, bkCore, bkSlot, Flushed, SaveInv
<1> QED
  BY <1>1, <1>2, <1>3, <1>4, <1>5 DEF SaveInv

\* The slot is closed before the next game is opened.
LEMMA Inv_CloseGame == ASSUME SaveInv, CloseGame PROVE SaveInv'
<1>1. BackupTypeOK'
  BY DEF CloseGame, bk_close, img_mount, Shown, bkFlush, BackupTypeOK, SaveInv
<1>2. SaveOfItsGame'
  BY DEF CloseGame, bk_close, img_mount, Shown, SaveOfItsGame, SaveInv
<1>3. OneGame'
  BY DEF CloseGame, bk_close, img_mount, Shown, OneGame, SaveInv
<1>4. Requested'
  BY DEF CloseGame, bk_close, img_mount, Shown, Requested, SaveInv
<1>5. Flushed'
  BY DEF CloseGame, bk_close, img_mount, Shown, OneGame, Flushed, SaveInv
<1> QED
  BY <1>1, <1>2, <1>3, <1>4, <1>5 DEF SaveInv

\* The next game: what is left of a request is whole, and no file is mounted.
LEMMA Inv_send_file == ASSUME SaveInv, send_file PROVE SaveInv'
<1>1. BackupTypeOK'
  <2>1. ASSUME NEW g \in Games, bk_set_game(g),
               ram' = [game |-> g, n |-> 0] /\ kept' = 0 /\ sees' = "nothing",
               sector' = CutRequest /\ reply' = reply /\ UNCHANGED bkFails
        PROVE  BackupTypeOK'
    <3>1. ram' \in Ram
      BY <2>1, RamType DEF SaveInv
    <3>2. sector' \in [st : {"none", "sent", "taken", "whole"}, ram : Ram]
      BY <2>1, RamType DEF CutRequest, NoSector, BackupTypeOK, SaveInv
    <3> QED
      BY <2>1, <3>1, <3>2, RamType DEF send_file, bk_set_game, bkFlush, BackupTypeOK, SaveInv
  <2>2. CASE Fail /\ UNCHANGED <<game_name, bkCore, sector>>
    BY <2>2, FailType DEF send_file, bkCore, bkFlush, BackupTypeOK, SaveInv
  <2> QED
    BY <2>1, <2>2 DEF send_file, SaveInv
<1>2. SaveOfItsGame'
  BY DEF send_file, bk_set_game, CutRequest, SaveOfItsGame, SaveInv
<1>3. OneGame'
  BY RamType DEF send_file, bk_set_game, CutRequest, bkCore, OneGame, SaveInv
<1>4. Requested'
  BY DEF send_file, bk_set_game, CutRequest, NoSector, bkCore, OneGame, Requested, SaveInv
<1>5. Flushed'
  BY DEF send_file, bk_set_game, CutRequest, bkCore, Flushed, SaveInv
<1> QED
  BY <1>1, <1>2, <1>3, <1>4, <1>5 DEF SaveInv

\* Another core or a reboot: nothing is left.
LEMMA Inv_replaced == ASSUME SaveInv, replaced PROVE SaveInv'
<1>1. BackupTypeOK'
  BY RamType DEF replaced, bk_forget, NoSector, Zero, bkFlush, BackupTypeOK, SaveInv
<1>2. SaveOfItsGame'
  BY DEF replaced, bk_forget, Zero, SaveOfItsGame, SaveInv
<1>3. OneGame'
  BY DEF replaced, bk_forget, Zero, OneGame, SaveInv
<1>4. Requested'
  BY DEF replaced, bk_forget, NoSector, Zero, Requested, SaveInv
<1>5. Flushed'
  BY DEF replaced, bk_forget, Zero, Flushed, SaveInv
<1> QED
  BY <1>1, <1>2, <1>3, <1>4, <1>5 DEF SaveInv

\* The invariant of the save of a game.
THEOREM BackupInvariant == BackupSpec => []SaveInv
<1>1. ASSUME BackupInit PROVE SaveInv
  <2>1. BackupTypeOK
    <3>1. image \in [Games -> Ram] /\ ram \in Ram /\ NoSector \in [st : {"none", "sent", "taken", "whole"}, ram : Ram]
      BY <1>1, RamType DEF BackupInit, NoSector
    <3>2. {game_name, bkFile} \subseteq Games \cup {None} /\ {flush_result, reply} \subseteq {"none", "done", "error"}
      BY <1>1 DEF BackupInit
    <3>3. kept \in 0 .. MaxChanges /\ owed \in 0 .. MaxChanges /\ bkFails \in 0 .. MaxFails
      BY <1>1, BackupAssumption DEF BackupInit
    <3>4. sector \in [st : {"none", "sent", "taken", "whole"}, ram : Ram]
      BY <1>1, <3>1 DEF BackupInit
    <3> QED
      BY <1>1, <3>1, <3>2, <3>3, <3>4 DEF BackupInit, BackupTypeOK
  <2>2. SaveOfItsGame /\ OneGame /\ Requested /\ Flushed
    BY <1>1 DEF BackupInit, SaveOfItsGame, OneGame, Requested, Flushed, NoSector, Zero
  <2> QED
    BY <2>1, <2>2 DEF SaveInv
<1>2. ASSUME SaveInv, [BackupNext]_bkVars PROVE SaveInv'
  <2>1. CASE UNCHANGED bkVars
    BY <1>2, <2>1 DEF bkVars, BackupTypeOK, SaveOfItsGame, OneGame, Requested, Flushed, SaveInv
  <2>2. CASE BackupNext
    BY <1>2, <2>2, Inv_AskFile, Inv_Play, Inv_AskWrite, Inv_Answer, Inv_on_img_flush, Inv_Pull,
       Inv_ImgTick, Inv_bk_tick, Inv_Pick, Inv_NotPicked, Inv_FlushServe, Inv_bk_flush,
       Inv_CloseGame, Inv_send_file, Inv_replaced DEF BackupNext
  <2> QED
    BY <1>2, <2>1, <2>2
<1> QED
  BY <1>1, <1>2, PTL DEF BackupSpec

\* A save is the game's own, and a flush that reports success left in its file what the game
\* had changed (bk_save.c); whatever the core sends late and whatever fails.
THEOREM SaveIsRight == BackupSpec => []SaveRight
<1>1. SaveInv => SaveRight
  BY DEF Flushed, SaveRight, FlushHonest, SaveInv
<1> QED
  BY <1>1, BackupInvariant, PTL

-----------------------------------------------------------------------------
(* The disks made from a .SAV.                                             *)

\* Where the disk in use before the run is, at each of its steps; and what is installed is
\* whole.
Run ==
  /\ making \in {"make", "eject", "unlink", "keep"} => fat["DISK"].id = before
  /\ making \in {"unlink", "keep", "back"} => has_old
  /\ making \in {"install", "back"} => /\ ~exists("DISK")
                                       /\ IF has_old THEN fat["OLD"].id = before ELSE before = -1
  /\ making \in {"eject", "unlink", "keep", "install"} => fat["TMP"].whole

DiskInv == UkncTypeOK /\ OldDiskKept /\ Run

\* The files of the directory, and that another file at a name leaves it a directory.
LEMMA FatType ==
  ASSUME UkncTypeOK
  PROVE  /\ NoFile \in [id : -1 .. MaxSav, whole : BOOLEAN] /\ NoFile.id = -1
         /\ \A n \in 0 .. MaxSav, w \in BOOLEAN : [id |-> n, whole |-> w] \in [id : -1 .. MaxSav, whole : BOOLEAN]
         /\ \A p \in Path : fat[p] \in [id : -1 .. MaxSav, whole : BOOLEAN] /\ fat[p].id \in -1 .. MaxSav
         /\ \A p \in Path, f \in [id : -1 .. MaxSav, whole : BOOLEAN] :
              [fat EXCEPT ![p] = f] \in [Path -> [id : -1 .. MaxSav, whole : BOOLEAN]]
         /\ MaxSav \in Nat
BY UkncAssumption DEF UkncTypeOK, NoFile, Path

\* The user mounts or ejects a disk between two runs.
LEMMA Inv_MountDisk == ASSUME DiskInv, MountDisk PROVE DiskInv'
<1>1. UkncTypeOK'
  BY UkncAssumption DEF MountDisk, UkncTypeOK, SavSteps, Path, DiskInv
<1>2. OldDiskKept'
  BY DEF MountDisk, OldDiskKept, exists, DiskInv
<1>3. Run'
  BY DEF MountDisk, Run, DiskInv
<1> QED
  BY <1>1, <1>2, <1>3 DEF DiskInv

\* A run begins: the disk in use is noted.
LEMMA Inv_Begin == ASSUME DiskInv, Begin PROVE DiskInv'
<1>1. UkncTypeOK'
  <2>1. saved' \in 0 .. MaxSav
    BY FatType DEF Begin, UkncTypeOK, DiskInv
  <2>2. before' \in -1 .. MaxSav
    BY FatType DEF Begin, Path, DiskInv
  <2> QED
    BY <2>1, <2>2 DEF Begin, UkncTypeOK, SavSteps, DiskInv
<1>2. OldDiskKept'
  BY DEF Begin, OldDiskKept, exists, DiskInv
<1>3. Run'
  BY DEF Begin, Run, DiskInv
<1> QED
  BY <1>1, <1>2, <1>3 DEF DiskInv

\* Only the unfinished disk changes, and only a whole one goes on.
LEMMA Inv_make_disk == ASSUME DiskInv, make_disk PROVE DiskInv'
<1>1. UkncTypeOK'
  BY UkncAssumption, FatType, ZenonT(60) DEF make_disk, after_make, UkncTypeOK, SavSteps, Path, DiskInv
<1>2. OldDiskKept'
  <2>1. fat' \in {fat} \cup {[fat EXCEPT !["TMP"] = [id |-> saved, whole |-> w]] : w \in BOOLEAN}
    BY DEF make_disk, DiskInv
  <2>2. \A p \in {"DISK", "OLD"} : fat'[p] = fat[p]
    BY <2>1, FatType DEF Path, DiskInv
  <2> QED
    BY <2>2 DEF make_disk, OldDiskKept, exists, DiskInv
<1>3. Run'
  BY FatType DEF make_disk, after_make, Run, exists, NoFile, Path, DiskInv
<1> QED
  BY <1>1, <1>2, <1>3 DEF DiskInv

\* The drives give the disk up; whether there is one decides what follows.
LEMMA Inv_EjectDisk == ASSUME DiskInv, EjectDisk PROVE DiskInv'
<1>1. UkncTypeOK'
  BY FatType DEF EjectDisk, UkncTypeOK, SavSteps, exists, DiskInv
<1>2. OldDiskKept'
  BY DEF EjectDisk, OldDiskKept, exists, DiskInv
<1>3. Run'
  BY FatType DEF EjectDisk, Run, exists, DiskInv
<1> QED
  BY <1>1, <1>2, <1>3 DEF DiskInv

\* The disk kept from the run before goes, the one in use stays.
LEMMA Inv_Unlink == ASSUME DiskInv, Unlink PROVE DiskInv'
<1>1. UkncTypeOK'
  BY UkncAssumption, FatType DEF Unlink, UkncTypeOK, SavSteps, Path, DiskInv
<1>2. OldDiskKept'
  BY FatType DEF Unlink, OldDiskKept, Run, exists, NoFile, Path, DiskInv
<1>3. Run'
  BY FatType DEF Unlink, Run, exists, NoFile, Path, DiskInv
<1> QED
  BY <1>1, <1>2, <1>3 DEF DiskInv

\* The disk in use gets its other name, or the run ends.
LEMMA Inv_Keep == ASSUME DiskInv, Keep PROVE DiskInv'
<1>1. UkncTypeOK'
  BY UkncAssumption, FatType, ZenonT(60) DEF Keep, rename, UkncTypeOK, SavSteps, Path, DiskInv
<1>2. OldDiskKept'
  BY FatType DEF Keep, rename, OldDiskKept, exists, NoFile, Path, DiskInv
<1>3. Run'
  BY FatType DEF Keep, rename, Run, exists, NoFile, Path, DiskInv
<1> QED
  BY <1>1, <1>2, <1>3 DEF DiskInv

\* The whole new disk gets the name of the one that was kept.
LEMMA Inv_Install == ASSUME DiskInv, Install PROVE DiskInv'
<1>1. UkncTypeOK'
  BY UkncAssumption, FatType, ZenonT(60) DEF Install, rename, else_back, UkncTypeOK, SavSteps, Path, DiskInv
<1>2. OldDiskKept'
  BY FatType DEF Install, rename, else_back, OldDiskKept, Run, exists, NoFile, Path, DiskInv
<1>3. Run'
  BY DEF Install, rename, else_back, Run, exists, DiskInv
<1> QED
  BY <1>1, <1>2, <1>3 DEF DiskInv

\* The kept disk gets its name back, or stays under the other one.
LEMMA Inv_Back == ASSUME DiskInv, Back PROVE DiskInv'
<1>1. UkncTypeOK'
  BY UkncAssumption, FatType, ZenonT(60) DEF Back, rename, UkncTypeOK, SavSteps, Path, DiskInv
<1>2. OldDiskKept'
  BY FatType DEF Back, rename, OldDiskKept, exists, NoFile, Path, DiskInv
<1>3. Run'
  BY DEF Back, rename, Run, DiskInv
<1> QED
  BY <1>1, <1>2, <1>3 DEF DiskInv

\* The unfinished disk goes.
LEMMA Inv_Clean == ASSUME DiskInv, Clean PROVE DiskInv'
<1>1. UkncTypeOK'
  BY UkncAssumption, FatType DEF Clean, UkncTypeOK, SavSteps, Path, DiskInv
<1>2. OldDiskKept'
  BY FatType DEF Clean, OldDiskKept, exists, NoFile, Path, DiskInv
<1>3. Run'
  BY DEF Clean, Run, DiskInv
<1> QED
  BY <1>1, <1>2, <1>3 DEF DiskInv

\* The first drive mounts the new disk.
LEMMA Inv_MountNew == ASSUME DiskInv, MountNew PROVE DiskInv'
<1>1. UkncTypeOK'
  BY UkncAssumption DEF MountNew, UkncTypeOK, SavSteps, Path, DiskInv
<1>2. OldDiskKept'
  BY DEF MountNew, OldDiskKept, exists, DiskInv
<1>3. Run'
  BY DEF MountNew, Run, DiskInv
<1> QED
  BY <1>1, <1>2, <1>3 DEF DiskInv

\* The power goes at any step: at most the unfinished disk is partial.
LEMMA Inv_PowerCut == ASSUME DiskInv, PowerCut PROVE DiskInv'
<1>1. UkncTypeOK'
  BY UkncAssumption DEF PowerCut, UkncTypeOK, SavSteps, Path, DiskInv
<1>2. OldDiskKept'
  BY DEF PowerCut, OldDiskKept, exists, DiskInv
<1>3. Run'
  BY DEF PowerCut, Run, DiskInv
<1> QED
  BY <1>1, <1>2, <1>3 DEF DiskInv

\* The invariant of the disks.
THEOREM DiskInvariant == UkncSpec => []DiskInv
<1>1. ASSUME UkncInit PROVE DiskInv
  <2>1. NoFile \in [id : -1 .. MaxSav, whole : BOOLEAN] /\ [id |-> 0, whole |-> TRUE] \in [id : -1 .. MaxSav, whole : BOOLEAN]
    BY UkncAssumption DEF NoFile
  <2>2. fat \in [Path -> [id : -1 .. MaxSav, whole : BOOLEAN]]
    BY <1>1, <2>1 DEF UkncInit
  <2>3. UkncTypeOK
    <3>1. held \in [FloppySlots -> -1 .. MaxSav] /\ spelled \in [FloppySlots -> Spellings]
      BY <1>1, UkncAssumption DEF UkncInit
    <3>2. saved \in 0 .. MaxSav /\ before \in -1 .. MaxSav
      BY <1>1, UkncAssumption DEF UkncInit
    <3> QED
      BY <1>1, <2>2, <3>1, <3>2 DEF UkncInit, UkncTypeOK, SavSteps
  <2>4. OldDiskKept /\ Run
    BY <1>1 DEF UkncInit, OldDiskKept, Run, exists, NoFile, Path
  <2> QED
    BY <2>3, <2>4 DEF DiskInv
<1>2. ASSUME DiskInv, [UkncNext]_ukncVars PROVE DiskInv'
  <2>1. CASE UNCHANGED ukncVars
    BY <1>2, <2>1 DEF ukncVars, DiskInv, UkncTypeOK, OldDiskKept, Run, exists
  <2>2. CASE UkncNext
    BY <1>2, <2>2, Inv_MountDisk, Inv_Begin, Inv_make_disk, Inv_EjectDisk, Inv_Unlink, Inv_Keep,
       Inv_Install, Inv_Back, Inv_Clean, Inv_MountNew, Inv_PowerCut DEF UkncNext
  <2> QED
    BY <1>2, <2>1, <2>2
<1> QED
  BY <1>1, <1>2, PTL DEF UkncSpec

\* The disk in use before a run is never lost, and no name leads to a disk that is not
\* whole, however the drives spell it (uknc_sav.c).
THEOREM DiskKept == UkncSpec => []OldDiskKept
<1>1. DiskInv => OldDiskKept
  BY DEF DiskInv
<1> QED
  BY <1>1, DiskInvariant, PTL

\* If the drives spell their directory as the firmware does, no drive has a file open that is
\* renamed.
THEOREM SavIsRight == ASSUME Spellings = {"code"} PROVE UkncSpec => []SavRight
<1>1. ASSUME UkncInit PROVE NoneHeld
  BY <1>1 DEF UkncInit, NoneHeld
<1>2. ASSUME DiskInv, NoneHeld, [UkncNext]_ukncVars PROVE NoneHeld'
  <2>1. CASE EjectDisk
    BY <1>2, <2>1 DEF EjectDisk, eject_disk, NoneHeld, DiskInv, Run, UkncTypeOK
  <2>2. CASE UNCHANGED ukncVars
    BY <1>2, <2>2 DEF ukncVars, NoneHeld
  <2>3. CASE Unlink \/ Keep \/ Install \/ Back
    BY <1>2, <2>3 DEF Unlink, Keep, Install, Back, rename, else_back, NoneHeld
  <2>4. CASE MountDisk \/ Begin \/ make_disk \/ Clean \/ MountNew \/ PowerCut
    BY <1>2, <2>4 DEF MountDisk, Begin, make_disk, after_make, Clean, MountNew, PowerCut, NoneHeld
  <2> QED
    BY <1>2, <2>1, <2>2, <2>3, <2>4 DEF UkncNext
<1>3. DiskInv /\ NoneHeld => SavRight
  BY DEF DiskInv, SavRight
<1> QED
  BY <1>1, <1>2, <1>3, DiskInvariant, PTL DEF UkncSpec
-----------------------------------------------------------------------------
(* The clock a core sees.                                                  *)

Moment == [s : Nat, d : Nat, m : Nat]
Banks == {k.bank : k \in ClockCores}
RegBs == {"bin", "bcd", "bin_set", "bcd_set"}
\* A register and what it was sent, rtc_last_write_*.
LastWrites == {"none", "s", "d", "m", "b", "cell"} \X (Nat \cup RegBs \cup {"mine"})
Wanted == UNION {[D -> Nat] : D \in SUBSET Time}
Clocks == [core : ClockCores, bcd : BOOLEAN, last : LastWrites, pending : BOOLEAN, regs : Moment]
Seens == [time : [s : Int, d : Int, m : Int], b : RegBs, cell : {Unwritten, "mine"}]
Pasts ==
  [writes : Nat, loads : Nat, sets : Nat, seconds : Nat, want : Wanted, broken : BOOLEAN,
   twin : BOOLEAN, fresh : BOOLEAN, wroteB : [Banks -> {Unwritten, "bin", "bcd"}]]

RtcTypeOK ==
  /\ chip \in Moment /\ fields \in Moment
  /\ clk \in Clocks
  /\ eep \in [Banks -> [b : RegBs \cup {Unwritten}, cell : {Unwritten, "mine"}]]
  /\ seen \in Seens
  /\ rtcPast \in Pasts

\* The mode of the fields is that of register B, in the core and in the bank.
ModesTrue ==
  ~rtcPast.twin =>
    /\ Mc(clk.core.type) => clk.bcd = mc_is_bcd(clk.core.type, seen.b)
    /\ Mc(clk.core.type) /\ clk.core.bank # NoEepromBank => clk.bcd = mc_is_bcd(clk.core.type, mc_reg(clk.core.bank))
    /\ \A bank \in Banks : OrDefault(eep[bank].b) = OrDefault(rtcPast.wroteB[bank]) /\ ~set(eep[bank].b)

\* What was sent is what the fields were, and these are the clock's.
FreshTrue == rtcPast.fresh => fields = chip

\* What the core wrote is in the fields, or in the digits that wait.
Agrees(w, f) == \A r \in DOMAIN w : f[r] = w[r]
WantTrue ==
  ~rtcPast.broken /\ ~rtcPast.twin =>
    /\ clk.pending => Agrees(rtcPast.want, clk.regs)
    /\ ~clk.pending => Agrees(rtcPast.want, fields)
    /\ ~clk.pending /\ kg_datetime_valid(fields) => Agrees(rtcPast.want, chip)

\* Only what the last core wrote waits under a core without an MSM6242B.
LateTrue == clk.pending /\ ~Msm(clk.core.type) => rtcPast.broken

RtcInv == RtcTypeOK /\ ChipIsDate /\ ModesTrue /\ FreshTrue /\ SeenRight /\ WantTrue /\ LateTrue

\* What a register takes comes back as it was written (rtc.h).
LEMMA BcdBack == \A v \in Nat : kg_bin2bcd(v) \in Nat /\ kg_bcd2bin(kg_bin2bcd(v)) = v
<1> SUFFICES ASSUME NEW v \in Nat PROVE kg_bin2bcd(v) \in Nat /\ kg_bcd2bin(kg_bin2bcd(v)) = v
  OBVIOUS
<1> DEFINE q == v \div 10
<1>1. q \in Nat /\ 10 * q <= v /\ v < 10 * q + 10
  OBVIOUS
<1>2. \A a, c \in Nat : 10 * a <= c /\ c < 10 * a + 10 => (c + 6 * a) \div 16 = a
  OBVIOUS
<1>3. (v + 6 * q) \div 16 = q
  BY <1>1, <1>2
<1> QED
  BY <1>1, <1>3 DEF kg_bin2bcd, kg_bcd2bin

\* What a core writes as BCD is a number.
LEMMA BcdType == \A x \in Nat : kg_bcd2bin(x) \in Nat
<1> SUFFICES ASSUME NEW x \in Nat PROVE kg_bcd2bin(x) \in Nat
  OBVIOUS
<1>1. x \div 16 \in Nat /\ 16 * (x \div 16) <= x
  OBVIOUS
<1> QED
  BY <1>1 DEF kg_bcd2bin

\* The clock is set to a date or not at all (adjust()).
LEMMA AdjustType ==
  ASSUME RtcTypeOK, ChipIsDate, NEW f \in Moment
  PROVE  adjust(f) \in Moment /\ kg_datetime_valid(adjust(f))
  BY DEF adjust, RtcTypeOK, ChipIsDate

\* The fields in the mode of the core, one by one (send_time()).
LEMMA SendLemma ==
  ASSUME NEW c, NEW f \in Moment
  PROVE  /\ send_time(c, f) \in [s : Int, d : Int, m : Int]
         /\ \A r \in Time : send_time(c, f)[r] = Sent(c.core.type, c.bcd, f[r])
<1>1. \A v \in Nat : Sent(c.core.type, c.bcd, v) \in Int
  BY BcdBack DEF Sent
<1>2. f.s \in Nat /\ f.d \in Nat /\ f.m \in Nat
  BY DEF Moment
<1> QED
  BY <1>1, <1>2 DEF send_time, Time

\* Sent in the mode of register B, the core reads the time right.
LEMMA SentMode ==
  ASSUME NEW k \in ClockCores, NEW bcd \in BOOLEAN, NEW b, Mc(k.type) => bcd = mc_is_bcd(k.type, b), NEW v
  PROVE  /\ Sent(k.type, bcd, v) = IF CoreBcd(k.type, b) THEN kg_bin2bcd(v) ELSE v
  BY DEF Sent, CoreBcd, Mc, Ds

\* Reading the settings of a core back changes its data mode only.
LEMMA ReadAll ==
  ASSUME NEW c \in Clocks
  PROVE  LET e == read_all(c)
         IN /\ e \in Clocks
            /\ e.core = c.core /\ e.pending = c.pending /\ e.regs = c.regs
            /\ Mc(c.core.type) => e.bcd = mc_is_bcd(c.core.type, mc_reg(c.core.bank))
<1> DEFINE n == CASE Ds(c.core.type) -> TRUE [] Mc(c.core.type) -> mc_is_bcd(c.core.type, mc_reg(c.core.bank)) [] OTHER -> c.bcd
<1>1. read_all(c) = [c EXCEPT !.bcd = n]
  BY DEF read_all
<1>2. n \in BOOLEAN
  BY DEF mc_is_bcd, dm, Clocks
<1>3. Mc(c.core.type) => n = mc_is_bcd(c.core.type, mc_reg(c.core.bank))
  BY DEF Mc, Ds
<1> HIDE DEF n
<1> QED
  BY <1>1, <1>2, <1>3 DEF Clocks
\* The first time is a date.
LEMMA FirstIsDate == FirstTime \in Moment /\ kg_datetime_valid(FirstTime)
  BY ClockAssumption DEF kg_datetime_valid, Moment

\* Nothing is asked of the clock after its setting.
LEMMA NothingWanted == <<>> \in Wanted /\ \A f : Agrees(<<>>, f)
<1>1. DOMAIN <<>> = {}
  OBVIOUS
<1>2. <<>> \in [{} -> Nat]
  OBVIOUS
<1> QED
  BY <1>1, <1>2 DEF Wanted, Agrees

\* What is wanted after a write, and after a second.
LEMMA WantsType ==
  \A w \in Wanted : \A r \in Time : \A v \in Nat :
    /\ Wants(w, r, v) \in Wanted /\ DOMAIN Wants(w, r, v) = DOMAIN w \cup {r}
    /\ Wants(w, r, v)[r] = v
    /\ \A q \in DOMAIN w : q # r => Wants(w, r, v)[q] = w[q]
<1> SUFFICES ASSUME NEW w \in Wanted, NEW r \in Time, NEW v \in Nat
             PROVE  /\ Wants(w, r, v) \in Wanted /\ DOMAIN Wants(w, r, v) = DOMAIN w \cup {r}
                    /\ Wants(w, r, v)[r] = v
                    /\ \A q \in DOMAIN w : q # r => Wants(w, r, v)[q] = w[q]
  OBVIOUS
<1>1. PICK D \in SUBSET Time : w \in [D -> Nat]
  BY DEF Wanted
<1>2. Wants(w, r, v) \in [D \cup {r} -> Nat]
  BY <1>1 DEF Wants
<1> QED
  BY <1>1, <1>2 DEF Wanted, Wants

\* The seconds go on by themselves: they are no longer what was written.
LEMMA WantLess ==
  ASSUME NEW w \in Wanted
  PROVE  LET u == [r \in DOMAIN w \ {"s"} |-> w[r]]
         IN u \in Wanted /\ DOMAIN u = DOMAIN w \ {"s"} /\ \A r \in DOMAIN u : u[r] = w[r]
<1>1. PICK D \in SUBSET Time : w \in [D -> Nat]
  BY DEF Wanted
<1>2. [r \in DOMAIN w \ {"s"} |-> w[r]] \in [D \ {"s"} -> Nat]
  BY <1>1
<1> QED
  BY <1>1, <1>2 DEF Wanted

\* Wanted are parts of the time.
LEMMA WantedDomain == \A w \in Wanted : DOMAIN w \subseteq Time
  BY DEF Wanted

\* All of it at the start.
LEMMA RtcStarts == RtcInit => RtcInv
<1> SUFFICES ASSUME RtcInit PROVE RtcInv
  OBVIOUS
<1>1. PICK k \in ClockCores :
        clk = [core |-> k, bcd |-> k.type # "msm", last |-> NoWrite, pending |-> FALSE, regs |-> FirstTime]
  BY DEF RtcInit
<1>2. k \in [type : {"msm", "ds", "mc", "zx"}, bank : 0 .. 255]
  BY ClockAssumption
<1>3. NoWrite \in LastWrites
  BY DEF NoWrite, LastWrites
<1>4. chip \in Moment /\ fields \in Moment /\ ChipIsDate /\ chip = fields
  BY FirstIsDate DEF RtcInit, ChipIsDate
<1>5. clk \in Clocks
  BY <1>1, <1>3, FirstIsDate DEF Clocks
<1>6. eep = [b \in Banks |-> [b |-> Unwritten, cell |-> Unwritten]]
  BY DEF RtcInit, Banks
<1>7. seen = rtc_send_all(clk, fields)
  BY DEF RtcInit
<1>8. seen \in Seens
  <2>1. (IF Mc(clk.core.type) THEN Overwritten ELSE send_time(clk, fields)) \in [s : Int, d : Int, m : Int]
    BY <1>4, SendLemma DEF Overwritten
  <2>2. rtc_get_eeprom_reg(eep, clk.core.bank, "cell") \in {Unwritten, "mine"}
    BY <1>1, <1>6 DEF rtc_get_eeprom_reg, Banks
  <2> QED
    BY <1>7, <2>1, <2>2 DEF rtc_send_all, RegBs, MC_REG_B_DEFAULT, Seens
<1>9. rtcPast = [writes |-> 0, loads |-> 0, sets |-> 0, seconds |-> 0, want |-> <<>>, broken |-> FALSE, twin |-> FALSE,
                 fresh |-> FALSE, wroteB |-> [b \in Banks |-> Unwritten]]
  BY <1>6 DEF RtcInit
<1>10. RtcTypeOK
  BY <1>4, <1>5, <1>6, <1>8, <1>9, NothingWanted DEF RtcTypeOK, Pasts
<1>11. ModesTrue
  <2>1. Mc(clk.core.type) => clk.bcd
    BY <1>1 DEF Mc
  <2>2. Mc(clk.core.type) => seen.b = "bcd"
    BY <1>7, <2>1 DEF rtc_send_all
  <2>3. clk.core.bank # NoEepromBank => mc_reg(clk.core.bank) = "bcd"
    BY <1>1, <1>6 DEF mc_reg, OrDefault, rtc_get_eeprom_reg, MC_REG_B_DEFAULT, Banks
  <2>4. mc_is_bcd(clk.core.type, "bcd")
    BY DEF mc_is_bcd, dm
  <2>5. \A bank \in Banks : OrDefault(eep[bank].b) = OrDefault(rtcPast.wroteB[bank]) /\ ~set(eep[bank].b)
    BY <1>6, <1>9 DEF set, Unwritten
  <2>6. Mc(clk.core.type) => clk.bcd = TRUE
    BY <1>1 DEF Mc
  <2> QED
    BY <2>2, <2>3, <2>4, <2>5, <2>6 DEF ModesTrue
<1>12. FreshTrue /\ SeenRight /\ LateTrue
  BY <1>1, <1>9 DEF FreshTrue, SeenRight, LateTrue
<1>13. WantTrue
  BY <1>1, <1>9, NothingWanted DEF WantTrue
<1> QED
  BY <1>4, <1>10, <1>11, <1>12, <1>13 DEF RtcInv

\* Another core is loaded.
LEMMA Rtc_LoadCore == ASSUME RtcInv, LoadCore PROVE RtcInv'
<1>1. PICK k \in ClockCores :
        clk' = read_all([clk EXCEPT !.core = k]) /\ seen' = rtc_send_all(clk', chip)
  BY DEF LoadCore
<1> DEFINE c == [clk EXCEPT !.core = k]
<1>2. c \in Clocks
      /\ c.core = k /\ c.pending = clk.pending
  BY DEF RtcInv, RtcTypeOK, Clocks
<1>3. clk' \in Clocks
      /\ clk'.core = k /\ clk'.pending = clk.pending
      /\ (Mc(k.type) => clk'.bcd = mc_is_bcd(k.type, mc_reg(k.bank)))
  BY <1>1, <1>2, ReadAll
<1>4. chip \in Moment /\ fields' = chip /\ chip' = chip /\ eep' = eep
  BY DEF LoadCore, RtcInv, RtcTypeOK
<1> DEFINE late == clk.pending
           sent == ~Mc(k.type)
           n == rtcPast.loads + 1
<1>5. /\ rtcPast' = [rtcPast EXCEPT !.loads = n, !.want = <<>>, !.broken = late, !.fresh = sent]
      /\ late \in BOOLEAN /\ sent \in BOOLEAN /\ n \in Nat
  <2>1. rtcPast' = [rtcPast EXCEPT !.loads = n, !.want = <<>>, !.broken = late, !.fresh = sent]
    BY <1>3 DEF LoadCore
  <2>2. sent \in BOOLEAN
    BY DEF Mc
  <2> QED
    BY <2>1, <2>2 DEF RtcInv, RtcTypeOK, Clocks, Pasts
<1>6. k \in [type : {"msm", "ds", "mc", "zx"}, bank : 0 .. 255] /\ k.bank \in Banks
  BY ClockAssumption DEF Banks
<1>7. seen' \in Seens
  <2>1. (IF Mc(k.type) THEN Overwritten ELSE send_time(clk', chip)) \in [s : Int, d : Int, m : Int]
    BY <1>4, SendLemma DEF Overwritten
  <2>2. rtc_get_eeprom_reg(eep, k.bank, "cell") \in {Unwritten, "mine"}
    BY <1>6 DEF rtc_get_eeprom_reg, RtcInv, RtcTypeOK
  <2> QED
    BY <1>1, <1>3, <2>1, <2>2 DEF rtc_send_all, RegBs, MC_REG_B_DEFAULT, Seens
<1>8. rtcPast' \in Pasts
      /\ rtcPast'.want = <<>> /\ rtcPast'.broken = late /\ rtcPast'.fresh = sent
      /\ rtcPast'.twin = rtcPast.twin /\ rtcPast'.wroteB = rtcPast.wroteB
  <2> HIDE DEF late, sent, n
  <2> QED
    BY <1>5, NothingWanted DEF RtcInv, RtcTypeOK, Pasts
<1>9. RtcTypeOK' /\ ChipIsDate'
  BY <1>3, <1>4, <1>7, <1>8 DEF RtcInv, RtcTypeOK, ChipIsDate
<1>10. ModesTrue'
  <2>1. mc_reg(k.bank)' = mc_reg(k.bank)
    BY <1>4 DEF mc_reg
  <2>2. Mc(k.type) => clk'.bcd = mc_is_bcd(k.type, seen'.b)
    BY <1>1, <1>3, <1>6 DEF rtc_send_all, mc_is_bcd, dm, Mc
  <2>3. Mc(k.type) => clk'.bcd = mc_is_bcd(k.type, mc_reg(k.bank)')
    BY <1>3, <2>1
  <2>4. ~rtcPast.twin => \A bank \in Banks : OrDefault(eep[bank].b) = OrDefault(rtcPast.wroteB[bank]) /\ ~set(eep[bank].b)
    BY DEF RtcInv, ModesTrue
  <2> QED
    BY <1>3, <1>4, <1>8, <2>2, <2>3, <2>4 DEF ModesTrue
<1>11. FreshTrue' /\ LateTrue'
  BY <1>3, <1>4, <1>8 DEF FreshTrue, LateTrue
<1>12. SeenRight'
  <2>1. SUFFICES ASSUME ~Mc(k.type), NEW r \in Time
                 PROVE  seen'.time[r] = IF CoreBcd(k.type, seen'.b) THEN kg_bin2bcd(chip[r]) ELSE chip[r]
    BY <1>3, <1>4, <1>8 DEF SeenRight
  <2>2. seen'.time = send_time(clk', chip)
    BY <1>1, <1>3, <2>1 DEF rtc_send_all
  <2>3. seen'.time[r] = Sent(k.type, clk'.bcd, chip[r])
    BY <1>3, <1>4, <2>2, SendLemma
  <2> QED
    BY <1>3, <2>1, <2>3, SentMode DEF Clocks
<1>13. WantTrue'
  BY <1>8, NothingWanted DEF WantTrue
<1> QED
  BY <1>9, <1>10, <1>11, <1>12, <1>13 DEF RtcInv

\* A digit for an MSM6242B.
LEMMA Rtc_MsmWrite ==
  ASSUME RtcInv, NEW r \in Time, NEW v \in Nat, MsmWrite(r, v) PROVE RtcInv'
<1> DEFINE t == IF msm_first(r) THEN TimeOf(fields) ELSE clk.regs
<1>1. t \in Moment /\ t = IF clk.pending THEN clk.regs ELSE TimeOf(fields)
  <2>1. TimeOf(fields) \in Moment /\ clk.regs \in Moment /\ clk.pending \in BOOLEAN
    BY DEF RtcInv, RtcTypeOK, TimeOf, Moment, Clocks
  <2> QED
    BY <2>1 DEF msm_first
<1>2. \A q \in Time : ~clk.pending => t[q] = fields[q]
  BY <1>1 DEF TimeOf, Time
<1>3. clk' = [clk EXCEPT !.regs = [t EXCEPT ![r] = v], !.pending = TRUE]
  BY DEF MsmWrite
<1> HIDE DEF t
<1>4. [t EXCEPT ![r] = v] \in Moment /\ [t EXCEPT ![r] = v][r] = v
      /\ \A q \in Time : q # r => [t EXCEPT ![r] = v][q] = t[q]
  BY <1>1 DEF Moment, Time
<1>5. clk' \in Clocks
      /\ clk'.core = clk.core /\ clk'.bcd = clk.bcd /\ clk'.pending = TRUE /\ clk'.regs = [t EXCEPT ![r] = v]
  BY <1>3, <1>4 DEF RtcInv, RtcTypeOK, Clocks
<1>6. seen' \in Seens /\ seen'.b = seen.b
  BY DEF MsmWrite, RtcInv, RtcTypeOK, Time, Seens
<1>7. rtcPast.want \in Wanted
  BY DEF RtcInv, RtcTypeOK, Pasts
<1> DEFINE w == Wants(rtcPast.want, r, v)
           n == rtcPast.writes + 1
<1>8. w \in Wanted /\ DOMAIN w = DOMAIN rtcPast.want \cup {r} /\ DOMAIN w \subseteq Time
      /\ w[r] = v /\ \A q \in DOMAIN rtcPast.want : q # r => w[q] = rtcPast.want[q]
  <2>1. /\ Wants(rtcPast.want, r, v) \in Wanted
        /\ DOMAIN Wants(rtcPast.want, r, v) = DOMAIN rtcPast.want \cup {r}
        /\ Wants(rtcPast.want, r, v)[r] = v
        /\ \A q \in DOMAIN rtcPast.want : q # r => Wants(rtcPast.want, r, v)[q] = rtcPast.want[q]
    BY <1>7, WantsType, ZenonT(60)
  <2>2. DOMAIN Wants(rtcPast.want, r, v) \subseteq Time
    BY <2>1, WantedDomain, ZenonT(60)
  <2> QED
    BY <2>1, <2>2
<1>9. rtcPast' = [rtcPast EXCEPT !.writes = n, !.want = w, !.fresh = FALSE] /\ n \in Nat
  BY DEF MsmWrite, Wrote, RtcInv, RtcTypeOK, Pasts
<1> HIDE DEF w, n
<1>9a. rtcPast' \in Pasts
      /\ rtcPast'.want = w /\ rtcPast'.broken = rtcPast.broken /\ rtcPast'.fresh = FALSE
      /\ rtcPast'.twin = rtcPast.twin /\ rtcPast'.wroteB = rtcPast.wroteB
  BY <1>8, <1>9 DEF RtcInv, RtcTypeOK, Pasts
<1>10. chip' = chip /\ fields' = fields /\ eep' = eep /\ Msm(clk.core.type)
  BY DEF MsmWrite
<1>11. RtcTypeOK' /\ ChipIsDate'
  BY <1>5, <1>6, <1>9a, <1>10 DEF RtcInv, RtcTypeOK, ChipIsDate
<1>12. ModesTrue'
  BY <1>5, <1>6, <1>9a, <1>10 DEF RtcInv, ModesTrue, mc_reg
<1>13. FreshTrue' /\ SeenRight' /\ LateTrue'
  BY <1>5, <1>9a, <1>10 DEF FreshTrue, SeenRight, LateTrue
<1>14. WantTrue'
  <2>1. SUFFICES ASSUME ~rtcPast.broken, ~rtcPast.twin, NEW q \in DOMAIN w
                 PROVE  clk'.regs[q] = w[q]
    BY <1>5, <1>9a DEF WantTrue, Agrees
  <2>2. CASE q = r
    BY <1>4, <1>5, <1>8, <2>2
  <2>3. CASE q # r
    <3>1. q \in DOMAIN rtcPast.want /\ q \in Time /\ w[q] = rtcPast.want[q]
      BY <1>8, <2>3
    <3>2. t[q] = rtcPast.want[q]
      BY <1>1, <1>2, <2>1, <3>1 DEF RtcInv, WantTrue, Agrees
    <3> QED
      BY <1>4, <1>5, <2>3, <3>1, <3>2
  <2> QED
    BY <2>2, <2>3
<1> QED
  BY <1>11, <1>12, <1>13, <1>14 DEF RtcInv

\* What comes back is what the core wrote, if both go by the same register B.
LEMMA TakenMode ==
  \A k \in ClockCores : \A v \in Nat : \A bcd, b :
    (Mc(k.type) => bcd = mc_is_bcd(k.type, b)) /\ ~Msm(k.type) =>
      Taken(k.type, bcd, IF CoreBcd(k.type, b) THEN kg_bin2bcd(v) ELSE v) = v
<1> SUFFICES ASSUME NEW k \in ClockCores, NEW v \in Nat, NEW bcd, NEW b,
                    Mc(k.type) => bcd = mc_is_bcd(k.type, b), ~Msm(k.type)
             PROVE  Taken(k.type, bcd, IF CoreBcd(k.type, b) THEN kg_bin2bcd(v) ELSE v) = v
  OBVIOUS
<1>1. k.type \in {"msm", "ds", "mc", "zx"}
  BY ClockAssumption
<1>2. Ds(k.type) \/ Mc(k.type)
  BY <1>1 DEF Msm, Ds, Mc
<1>3. kg_bcd2bin(kg_bin2bcd(v)) = v
  BY BcdBack
<1> QED
  BY <1>2, <1>3 DEF Taken, CoreBcd, Mc, Ds

\* A register of the other clocks.
LEMMA Rtc_TimeWrite ==
  ASSUME RtcInv, NEW r \in Time, NEW v \in Nat, TimeWrite(r, v) PROVE RtcInv'
<1> DEFINE x == Coded(v)
           got == Taken(clk.core.type, clk.bcd, x)
           f == [fields EXCEPT ![r] = got]
           w == Wants(rtcPast.want, r, v)
           n == rtcPast.writes + 1
           late == rtcPast.twin \/ (Skipped(r, x) /\ (chip[r] # v \/ fields[r] # v))
<1>1. clk \in Clocks /\ seen \in Seens /\ chip \in Moment /\ fields \in Moment /\ rtcPast \in Pasts /\ eep' = eep
  BY DEF RtcInv, RtcTypeOK, TimeWrite
<1>2. x \in Nat /\ got \in Nat
  <2>1. x \in Nat
    BY BcdBack DEF Coded
  <2> QED
    BY <2>1, BcdType DEF Taken
<1>3. ~rtcPast.twin => got = v
  <2>1. clk.core \in ClockCores /\ clk.bcd \in BOOLEAN /\ ~Msm(clk.core.type)
    BY <1>1 DEF Clocks, TimeWrite
  <2> QED
    <3>1. ~rtcPast.twin => (Mc(clk.core.type) => clk.bcd = mc_is_bcd(clk.core.type, seen.b))
      BY DEF RtcInv, ModesTrue
    <3> DEFINE y == IF CoreBcd(clk.core.type, seen.b) THEN kg_bin2bcd(v) ELSE v
    <3>2. x = y
      BY DEF Coded
    <3>3. ~rtcPast.twin => Taken(clk.core.type, clk.bcd, y) = v
      BY <2>1, <3>1, TakenMode, ZenonT(60)
    <3> QED
      BY <3>2, <3>3
<1>4. /\ seen' = [seen EXCEPT !.time[r] = x]
      /\ IF Skipped(r, x) THEN UNCHANGED <<clk, fields, chip>>
         ELSE clk' = [clk EXCEPT !.last = <<r, x>>] /\ fields' = f /\ chip' = adjust(f)
      /\ ~Msm(clk.core.type)
  BY DEF TimeWrite
<1>5. rtcPast' = [[rtcPast EXCEPT !.writes = n, !.want = w, !.fresh = FALSE] EXCEPT !.twin = late]
      /\ n \in Nat /\ late \in BOOLEAN
  BY <1>1 DEF TimeWrite, Wrote, Pasts
<1>6. w \in Wanted /\ DOMAIN w = DOMAIN rtcPast.want \cup {r} /\ DOMAIN w \subseteq Time
      /\ w[r] = v /\ \A q \in DOMAIN rtcPast.want : q # r => w[q] = rtcPast.want[q]
  <2>1. rtcPast.want \in Wanted
    BY <1>1 DEF Pasts
  <2> QED
    <3>1. /\ Wants(rtcPast.want, r, v) \in Wanted
          /\ DOMAIN Wants(rtcPast.want, r, v) = DOMAIN rtcPast.want \cup {r}
          /\ Wants(rtcPast.want, r, v)[r] = v
          /\ \A q \in DOMAIN rtcPast.want : q # r => Wants(rtcPast.want, r, v)[q] = rtcPast.want[q]
      BY <2>1, WantsType, ZenonT(60)
    <3>2. DOMAIN Wants(rtcPast.want, r, v) \subseteq Time
      BY <3>1, WantedDomain, ZenonT(60)
    <3> QED
      BY <3>1, <3>2
<1>7. late <=> rtcPast.twin \/ (Skipped(r, x) /\ (chip[r] # v \/ fields[r] # v))
  OBVIOUS
<1>8. /\ f \in Moment /\ f[r] = got /\ \A q \in Time : q # r => f[q] = fields[q]
      /\ seen' \in Seens /\ seen'.b = seen.b
  <2> HIDE DEF x, got
  <2>1. f \in Moment /\ f[r] = got /\ \A q \in Time : q # r => f[q] = fields[q]
    BY <1>1, <1>2 DEF Moment, Time
  <2>2. seen' \in Seens /\ seen'.b = seen.b
    BY <1>1, <1>2, <1>4 DEF Seens, Time
  <2> QED
    BY <2>1, <2>2
<1> HIDE DEF x, got, f, w, n, late
<1>9. rtcPast' \in Pasts /\ rtcPast'.want = w /\ rtcPast'.broken = rtcPast.broken /\ rtcPast'.fresh = FALSE
      /\ rtcPast'.twin = late /\ rtcPast'.wroteB = rtcPast.wroteB
  <2>1. rtcPast' = [rtcPast EXCEPT !.writes = n, !.want = w, !.fresh = FALSE, !.twin = late]
    BY <1>5
  <2> QED
    BY <1>1, <1>5, <1>6, <2>1 DEF Pasts
<1>10. clk' \in Clocks /\ clk'.core = clk.core /\ clk'.bcd = clk.bcd /\ clk'.pending = clk.pending /\ clk'.regs = clk.regs
  <2>1. <<r, x>> \in LastWrites
    BY <1>2 DEF LastWrites, Time
  <2> QED
    BY <1>1, <1>4, <2>1 DEF Clocks
<1>11. chip' \in Moment /\ fields' \in Moment /\ kg_datetime_valid(chip)'
  <2>1. chip' \in Moment /\ fields' \in Moment /\ kg_datetime_valid(chip')
    BY <1>1, <1>4, <1>8, AdjustType DEF RtcInv, ChipIsDate
  <2> QED
    BY <2>1 DEF kg_datetime_valid
<1>12. RtcTypeOK' /\ ChipIsDate'
  BY <1>1, <1>8, <1>9, <1>10, <1>11 DEF RtcInv, RtcTypeOK, ChipIsDate
<1>13. ModesTrue'
  BY <1>1, <1>7, <1>8, <1>9, <1>10 DEF RtcInv, ModesTrue, mc_reg
<1>14. FreshTrue' /\ SeenRight'
  BY <1>9 DEF FreshTrue, SeenRight
<1>15. LateTrue'
  BY <1>9, <1>10 DEF RtcInv, LateTrue
<1>16. WantTrue'
  <2>1. SUFFICES ASSUME ~rtcPast.broken, ~late
                 PROVE  /\ ~clk.pending
                        /\ Agrees(w, fields')
                        /\ kg_datetime_valid(fields') => Agrees(w, chip')
    BY <1>9, <1>10 DEF WantTrue
  <2>2. ~clk.pending /\ ~rtcPast.twin /\ got = v
    BY <1>3, <1>4, <1>7, <2>1 DEF RtcInv, LateTrue
  <2>3. Agrees(rtcPast.want, fields) /\ (kg_datetime_valid(fields) => Agrees(rtcPast.want, chip))
    BY <2>1, <2>2 DEF RtcInv, WantTrue
  <2>4. CASE Skipped(r, x)
    <3>1. fields' = fields /\ chip' = chip /\ chip[r] = v /\ fields[r] = v
      BY <1>4, <1>7, <2>1, <2>4
    <3> QED
      BY <1>6, <2>2, <2>3, <3>1 DEF Agrees
  <2>5. CASE ~Skipped(r, x)
    <3>1. fields' = f /\ chip' = adjust(f)
      BY <1>4, <2>5
    <3>2. \A q \in DOMAIN w : f[q] = w[q]
      BY <1>6, <1>8, <2>2, <2>3 DEF Agrees
    <3> QED
      BY <2>2, <3>1, <3>2 DEF Agrees, adjust
  <2> QED
    BY <2>4, <2>5
<1> QED
  BY <1>12, <1>13, <1>14, <1>15, <1>16 DEF RtcInv

\* Register B.
LEMMA Rtc_RegBWrite ==
  ASSUME RtcInv, NEW data \in RegBs, RegBWrite(data) PROVE RtcInv'
<1> DEFINE type == clk.core.type
           bank == clk.core.bank
           skip == clk.last = <<"b", data>>
           n == rtcPast.writes + 1
           late == rtcPast.twin \/ (skip /\ (clk.bcd # mc_is_bcd(type, data) \/ dm(mc_reg(bank)) # dm(data)))
           b2 == IF type = "zx" \/ bank = NoEepromBank THEN rtcPast.wroteB ELSE [rtcPast.wroteB EXCEPT ![bank] = ModeOf(data)]
<1>1. clk \in Clocks /\ seen \in Seens /\ chip \in Moment /\ fields \in Moment /\ rtcPast \in Pasts
      /\ eep \in [Banks -> [b : RegBs \cup {Unwritten}, cell : {Unwritten, "mine"}]]
  BY DEF RtcInv, RtcTypeOK
<1>2. clk.core \in ClockCores /\ bank \in Banks /\ type \in {"msm", "ds", "mc", "zx"} /\ Mc(type)
  BY <1>1, ClockAssumption DEF Clocks, Banks, RegBWrite
<1>3. /\ seen' = [seen EXCEPT !.b = data]
      /\ IF skip THEN UNCHANGED <<clk, eep>>
         ELSE /\ clk' = [clk EXCEPT !.last = <<"b", data>>, !.bcd = mc_is_bcd(type, data)]
              /\ eep' = IF type = "zx" THEN eep ELSE rtc_set_eeprom_reg(eep, bank, "b", kept_write(data))
      /\ chip' = chip /\ fields' = fields
  BY DEF RegBWrite
<1>4. rtcPast' = [rtcPast EXCEPT !.writes = n, !.fresh = FALSE, !.want = <<>>, !.twin = late, !.wroteB = b2]
      /\ n \in Nat /\ late \in BOOLEAN
  BY <1>1 DEF RegBWrite, Pasts
<1>5. ModeOf(data) \in {"bin", "bcd"} /\ (dm(ModeOf(data)) <=> dm(data)) /\ ~set(ModeOf(data))
  BY DEF ModeOf, dm, set
<1>6. b2 \in [Banks -> {Unwritten, "bin", "bcd"}]
  BY <1>1, <1>2, <1>5 DEF Pasts
<1>7. late <=> rtcPast.twin \/ (skip /\ (clk.bcd # mc_is_bcd(type, data) \/ dm(mc_reg(bank)) # dm(data)))
  OBVIOUS
<1>8. seen' \in Seens /\ seen'.b = data
  BY <1>1, <1>3 DEF Seens
<1>9. rtcPast' \in Pasts /\ rtcPast'.want = <<>> /\ rtcPast'.broken = rtcPast.broken /\ rtcPast'.fresh = FALSE
      /\ rtcPast'.twin = late /\ rtcPast'.wroteB = b2
  <2> HIDE DEF n, late, b2
  <2> QED
    BY <1>1, <1>4, <1>6, NothingWanted DEF Pasts
<1>10. clk' \in Clocks /\ clk'.core = clk.core /\ clk'.pending = clk.pending
       /\ (~skip => clk'.bcd = mc_is_bcd(type, data))
  <2>1. <<"b", data>> \in LastWrites
    BY DEF LastWrites
  <2>2. mc_is_bcd(type, data) \in BOOLEAN
    BY DEF mc_is_bcd, dm
  <2> HIDE DEF skip
  <2>3. CASE skip
    BY <1>1, <1>3, <2>3
  <2>4. CASE ~skip
    <3>1. clk' = [clk EXCEPT !.last = <<"b", data>>, !.bcd = mc_is_bcd(type, data)]
      BY <1>3, <2>4
    <3> QED
      BY <1>1, <2>1, <2>2, <3>1 DEF Clocks
  <2> QED
    BY <2>3, <2>4
<1>11. /\ eep' \in [Banks -> [b : RegBs \cup {Unwritten}, cell : {Unwritten, "mine"}]]
       /\ \A k \in Banks : k # bank => eep'[k] = eep[k]
       /\ skip \/ type = "zx" \/ bank = NoEepromBank => eep' = eep
       /\ ~skip /\ type # "zx" /\ bank # NoEepromBank => eep'[bank].b = ModeOf(data)
  <2>1. ModeOf(data) \in RegBs
    BY <1>5 DEF RegBs
  <2> HIDE DEF skip
  <2>2. CASE skip \/ type = "zx" \/ bank = NoEepromBank
    BY <1>1, <1>3, <2>2 DEF rtc_set_eeprom_reg
  <2>3. CASE ~(skip \/ type = "zx" \/ bank = NoEepromBank)
    <3>1. eep' = [eep EXCEPT ![bank]["b"] = ModeOf(data)]
      BY <1>3, <2>3 DEF rtc_set_eeprom_reg, kept_write
    <3> HIDE DEF bank
    <3> QED
      BY <1>1, <1>2, <2>1, <2>3, <3>1
  <2> QED
    BY <2>2, <2>3
<1> HIDE DEF skip, n, late
<1>12. RtcTypeOK' /\ ChipIsDate'
  BY <1>1, <1>3, <1>8, <1>9, <1>10, <1>11 DEF RtcInv, RtcTypeOK, ChipIsDate
<1>13. ModesTrue'
  <2>1. SUFFICES ASSUME ~late
                 PROVE  /\ clk'.bcd = mc_is_bcd(type, data)
                        /\ bank # NoEepromBank => clk'.bcd = mc_is_bcd(type, mc_reg(bank)')
                        /\ \A k \in Banks : OrDefault(eep'[k].b) = OrDefault(b2[k]) /\ ~set(eep'[k].b)
    BY <1>8, <1>9, <1>10 DEF ModesTrue
  <2>2. ~rtcPast.twin /\ (skip => clk.bcd = mc_is_bcd(type, data) /\ (dm(mc_reg(bank)) <=> dm(data)))
    BY <1>7, <2>1
  <2>3. clk'.bcd = mc_is_bcd(type, data)
    BY <1>3, <1>10, <2>2
  <2>4. bank # NoEepromBank => mc_is_bcd(type, data) = mc_is_bcd(type, mc_reg(bank)')
    <3>1. CASE type = "zx"
      BY <3>1 DEF mc_is_bcd
    <3>2. CASE type # "zx" /\ skip
      <4>1. mc_reg(bank)' = mc_reg(bank)
        BY <1>10, <1>11, <3>2 DEF mc_reg
      <4> QED
        BY <2>2, <3>2, <4>1 DEF mc_is_bcd
    <3>3. CASE type # "zx" /\ ~skip
      <4>1. bank # NoEepromBank => mc_reg(bank)' = ModeOf(data)
        BY <1>5, <1>10, <1>11, <3>3 DEF mc_reg, rtc_get_eeprom_reg, OrDefault, Unwritten
      <4> QED
        BY <1>5, <4>1 DEF mc_is_bcd
    <3> QED
      BY <3>1, <3>2, <3>3
  <2>5. ASSUME NEW k \in Banks PROVE OrDefault(eep'[k].b) = OrDefault(b2[k]) /\ ~set(eep'[k].b)
    <3>1. OrDefault(eep[k].b) = OrDefault(rtcPast.wroteB[k]) /\ ~set(eep[k].b)
      BY <2>2 DEF RtcInv, ModesTrue
    <3>2. CASE k # bank \/ type = "zx" \/ bank = NoEepromBank
      <4>1. eep'[k] = eep[k] /\ b2[k] = rtcPast.wroteB[k]
        BY <1>1, <1>2, <1>11, <3>2 DEF Pasts
      <4> QED
        BY <3>1, <4>1
    <3>3. CASE k = bank /\ type # "zx" /\ bank # NoEepromBank
      <4>1. b2[k] = ModeOf(data)
        BY <1>1, <1>2, <3>3 DEF Pasts
      <4>2. CASE ~skip
        BY <1>5, <1>11, <3>3, <4>1, <4>2
      <4>3. CASE skip
        <5>1. eep'[k] = eep[k] /\ (dm(mc_reg(bank)) <=> dm(data)) /\ mc_reg(bank) = OrDefault(eep[k].b)
          BY <1>11, <2>2, <3>3, <4>3 DEF mc_reg, rtc_get_eeprom_reg
        <5>2. eep[k].b \in RegBs \cup {Unwritten}
          BY <1>1
        <5>3. OrDefault(eep[k].b) = ModeOf(data)
          BY <3>1, <5>1, <5>2 DEF OrDefault, MC_REG_B_DEFAULT, Unwritten, dm, set, ModeOf, RegBs
        <5> QED
          BY <1>5, <3>1, <4>1, <5>1, <5>3 DEF OrDefault, Unwritten
      <4> QED
        BY <4>2, <4>3
    <3> QED
      BY <3>2, <3>3
  <2> QED
    BY <2>3, <2>4, <2>5
<1>14. FreshTrue' /\ SeenRight'
  BY <1>9 DEF FreshTrue, SeenRight
<1>15. LateTrue'
  BY <1>9, <1>10 DEF RtcInv, LateTrue
<1>16. WantTrue'
  BY <1>9, NothingWanted DEF WantTrue
<1> QED
  BY <1>12, <1>13, <1>14, <1>15, <1>16 DEF RtcInv

\* A cell of the core's own.
LEMMA Rtc_CellWrite == ASSUME RtcInv, CellWrite PROVE RtcInv'
<1> DEFINE bank == clk.core.bank
           n == rtcPast.writes + 1
<1>1. clk \in Clocks /\ seen \in Seens /\ chip \in Moment /\ fields \in Moment /\ rtcPast \in Pasts
      /\ eep \in [Banks -> [b : RegBs \cup {Unwritten}, cell : {Unwritten, "mine"}]]
  BY DEF RtcInv, RtcTypeOK
<1>2. clk.core \in ClockCores /\ bank \in Banks
  BY <1>1 DEF Clocks, Banks
<1>3. /\ seen' = [seen EXCEPT !.cell = "mine"] /\ clk' = [clk EXCEPT !.last = <<"cell", "mine">>]
      /\ eep' = rtc_set_eeprom_reg(eep, bank, "cell", "mine")
      /\ rtcPast' = [rtcPast EXCEPT !.writes = n] /\ n \in Nat
      /\ chip' = chip /\ fields' = fields
  BY <1>1 DEF CellWrite, Pasts
<1>4. seen' \in Seens /\ seen'.b = seen.b /\ seen'.time = seen.time
  BY <1>1, <1>3 DEF Seens
<1>5. clk' \in Clocks /\ clk'.core = clk.core /\ clk'.bcd = clk.bcd /\ clk'.pending = clk.pending /\ clk'.regs = clk.regs
  <2>1. <<"cell", "mine">> \in LastWrites
    BY DEF LastWrites
  <2> QED
    BY <1>1, <1>3, <2>1 DEF Clocks
<1>6. rtcPast' \in Pasts /\ rtcPast'.want = rtcPast.want /\ rtcPast'.broken = rtcPast.broken
      /\ rtcPast'.fresh = rtcPast.fresh /\ rtcPast'.twin = rtcPast.twin /\ rtcPast'.wroteB = rtcPast.wroteB
  <2> HIDE DEF n
  <2> QED
    BY <1>1, <1>3 DEF Pasts
<1>7. /\ eep' \in [Banks -> [b : RegBs \cup {Unwritten}, cell : {Unwritten, "mine"}]]
      /\ \A k \in Banks : eep'[k].b = eep[k].b
  <2>1. CASE bank = NoEepromBank
    BY <1>1, <1>3, <2>1 DEF rtc_set_eeprom_reg
  <2>2. CASE bank # NoEepromBank
    <3>1. eep' = [eep EXCEPT ![bank]["cell"] = "mine"]
      BY <1>3, <2>2 DEF rtc_set_eeprom_reg
    <3> HIDE DEF bank
    <3> QED
      BY <1>1, <1>2, <3>1
  <2> QED
    BY <2>1, <2>2
<1>8. RtcTypeOK' /\ ChipIsDate'
  BY <1>1, <1>3, <1>4, <1>5, <1>6, <1>7 DEF RtcInv, RtcTypeOK, ChipIsDate
<1>9. ModesTrue'
  <2>1. bank # NoEepromBank => mc_reg(bank)' = mc_reg(bank)
    BY <1>2, <1>5, <1>7 DEF mc_reg, rtc_get_eeprom_reg
  <2> QED
    BY <1>4, <1>5, <1>6, <1>7, <2>1 DEF RtcInv, ModesTrue
<1>10. FreshTrue' /\ SeenRight' /\ LateTrue' /\ WantTrue'
  BY <1>3, <1>4, <1>5, <1>6 DEF RtcInv, FreshTrue, SeenRight, LateTrue, WantTrue
<1> QED
  BY <1>8, <1>9, <1>10 DEF RtcInv

\* The poll of the clock.
LEMMA Rtc_Poll == ASSUME RtcInv, Poll PROVE RtcInv'
<1>1. clk \in Clocks /\ seen \in Seens /\ chip \in Moment /\ fields \in Moment /\ rtcPast \in Pasts
  BY DEF RtcInv, RtcTypeOK
<1>2. PICK read \in BOOLEAN :
        LET f == IF read THEN chip ELSE fields
        IN /\ fields' = f
           /\ seen' = IF clk.pending THEN seen ELSE [seen EXCEPT !.time = send_time(clk, f)]
           /\ rtcPast' = [rtcPast EXCEPT !.fresh = (read /\ ~clk.pending) \/ (@ /\ fields = f),
                                         !.broken = @ \/ (read /\ ~kg_datetime_valid(fields))]
           /\ UNCHANGED <<chip, clk, eep>>
  BY DEF Poll
<1> DEFINE f == IF read THEN chip ELSE fields
           fresh == (read /\ ~clk.pending) \/ (rtcPast.fresh /\ fields = f)
           broken == rtcPast.broken \/ (read /\ ~kg_datetime_valid(fields))
<1>3. fields' = f /\ f \in Moment /\ chip' = chip /\ clk' = clk /\ eep' = eep
  BY <1>1, <1>2
<1>4. rtcPast' = [rtcPast EXCEPT !.fresh = fresh, !.broken = broken] /\ fresh \in BOOLEAN /\ broken \in BOOLEAN
  BY <1>1, <1>2 DEF Pasts
<1>5. /\ fresh <=> (read /\ ~clk.pending) \/ (rtcPast.fresh /\ fields = f)
      /\ broken <=> rtcPast.broken \/ (read /\ ~kg_datetime_valid(fields))
  OBVIOUS
<1>6. seen' = (IF clk.pending THEN seen ELSE [seen EXCEPT !.time = send_time(clk, f)])
  BY <1>2
<1>7. f = IF read THEN chip ELSE fields
  OBVIOUS
<1> HIDE DEF f, fresh, broken
<1>8. rtcPast' \in Pasts /\ rtcPast'.want = rtcPast.want /\ rtcPast'.broken = broken
      /\ rtcPast'.fresh = fresh /\ rtcPast'.twin = rtcPast.twin /\ rtcPast'.wroteB = rtcPast.wroteB
  BY <1>1, <1>4 DEF Pasts
<1>9. /\ seen' \in Seens /\ seen'.b = seen.b
      /\ clk.pending => seen'.time = seen.time
      /\ ~clk.pending => seen'.time = send_time(clk, f)
  <2>1. send_time(clk, f) \in [s : Int, d : Int, m : Int]
    BY <1>3, SendLemma
  <2> QED
    BY <1>1, <1>6, <2>1 DEF Seens
<1>10. RtcTypeOK' /\ ChipIsDate'
  BY <1>1, <1>3, <1>8, <1>9 DEF RtcInv, RtcTypeOK, ChipIsDate
<1>11. ModesTrue'
  BY <1>3, <1>8, <1>9 DEF RtcInv, ModesTrue, mc_reg
<1>12. fresh => f = chip
  BY <1>5, <1>7 DEF RtcInv, FreshTrue
<1>13. FreshTrue'
  BY <1>3, <1>8, <1>12 DEF FreshTrue
<1>14. SeenRight'
  <2>1. SUFFICES ASSUME fresh, ~rtcPast.twin, NEW r \in Time
                 PROVE  seen'.time[r] = IF CoreBcd(clk.core.type, seen.b) THEN kg_bin2bcd(chip[r]) ELSE chip[r]
    BY <1>3, <1>8, <1>9 DEF SeenRight
  <2>2. CASE clk.pending
    <3>1. rtcPast.fresh
      BY <1>5, <2>1, <2>2
    <3> QED
      BY <1>9, <2>1, <2>2, <3>1 DEF RtcInv, SeenRight
  <2>3. CASE ~clk.pending
    <3>1. seen'.time[r] = Sent(clk.core.type, clk.bcd, chip[r])
      BY <1>1, <1>9, <1>12, <2>1, <2>3, SendLemma
    <3>2. clk.core \in ClockCores /\ clk.bcd \in BOOLEAN
          /\ (Mc(clk.core.type) => clk.bcd = mc_is_bcd(clk.core.type, seen.b))
      BY <1>1, <2>1 DEF Clocks, RtcInv, ModesTrue
    <3> QED
      BY <3>1, <3>2, SentMode
  <2> QED
    BY <2>2, <2>3
<1>15. LateTrue'
  BY <1>3, <1>5, <1>8 DEF RtcInv, LateTrue
<1>16. WantTrue'
  BY <1>3, <1>5, <1>7, <1>8 DEF RtcInv, WantTrue
<1> QED
  BY <1>10, <1>11, <1>13, <1>14, <1>15, <1>16 DEF RtcInv

\* The digits become a time, or are given back.
LEMMA Rtc_msm_commit == ASSUME RtcInv, msm_commit PROVE RtcInv'
<1>1. clk \in Clocks /\ seen \in Seens /\ chip \in Moment /\ fields \in Moment /\ rtcPast \in Pasts /\ clk.regs \in Moment
      /\ clk.pending = TRUE
  BY DEF RtcInv, RtcTypeOK, Clocks, msm_commit
<1> DEFINE c == [clk EXCEPT !.pending = FALSE]
           fresh == fields' = chip'
           back == rtcPast.twin \/ ModeTakenBack
           w == IF kg_datetime_valid(clk.regs) THEN rtcPast.want ELSE <<>>
<1>2. c \in Clocks /\ c.core = clk.core /\ c.pending = FALSE /\ c.regs = clk.regs /\ c.bcd = clk.bcd
  BY <1>1 DEF Clocks
<1>3. /\ IF msm_in_range(clk.regs) THEN chip' = adjust(clk.regs) /\ fields' = chip' /\ clk' = read_all(c)
         ELSE clk' = c /\ UNCHANGED <<chip, fields>>
      /\ seen' = [seen EXCEPT !.time = send_time(clk', fields')]
      /\ eep' = eep
  BY DEF msm_commit
<1>4. rtcPast' = [rtcPast EXCEPT !.want = w, !.fresh = fresh, !.twin = back]
  BY DEF msm_commit
<1> HIDE DEF c
<1>5. w \in Wanted /\ fresh \in BOOLEAN /\ back \in BOOLEAN
  <2>1. w \in Wanted
    BY <1>1, NothingWanted DEF Pasts
  <2>2. back \in BOOLEAN
    BY <1>1 DEF ModeTakenBack, Mc, Pasts
  <2> QED
    BY <2>1, <2>2
<1>6. (fresh <=> fields' = chip') /\ (back <=> rtcPast.twin \/ ModeTakenBack)
      /\ w = IF kg_datetime_valid(clk.regs) THEN rtcPast.want ELSE <<>>
  OBVIOUS
<1> HIDE DEF fresh, back, w
<1>7. rtcPast' \in Pasts /\ rtcPast'.want = w /\ rtcPast'.broken = rtcPast.broken
      /\ rtcPast'.fresh = fresh /\ rtcPast'.twin = back /\ rtcPast'.wroteB = rtcPast.wroteB
  BY <1>1, <1>4, <1>5 DEF Pasts
<1>8. /\ clk' \in Clocks /\ clk'.core = clk.core /\ clk'.pending = FALSE
      /\ clk'.bcd = clk.bcd \/ (Mc(clk.core.type) => clk'.bcd = mc_is_bcd(clk.core.type, mc_reg(clk.core.bank)))
  <2>1. CASE msm_in_range(clk.regs)
    <3>1. clk' = read_all(c)
      BY <1>3, <2>1
    <3> QED
      BY <1>2, <3>1, ReadAll
  <2>2. CASE ~msm_in_range(clk.regs)
    BY <1>2, <1>3, <2>2
  <2> QED
    BY <2>1, <2>2
<1>9. chip' \in Moment /\ fields' \in Moment /\ kg_datetime_valid(chip')
  BY <1>1, <1>3, AdjustType DEF RtcInv, ChipIsDate
<1>10. seen' \in Seens /\ seen'.b = seen.b /\ seen'.time = send_time(clk', fields')
  <2>1. send_time(clk', fields') \in [s : Int, d : Int, m : Int]
    BY <1>9, SendLemma
  <2> QED
    BY <1>1, <1>3, <2>1 DEF Seens
<1>11. RtcTypeOK' /\ ChipIsDate'
  <2>1. ChipIsDate'
    BY <1>9 DEF ChipIsDate, kg_datetime_valid
  <2> QED
    BY <1>3, <1>7, <1>8, <1>9, <1>10, <2>1 DEF RtcInv, RtcTypeOK
<1>12. ModesTrue'
  <2>1. SUFFICES ASSUME ~back
                 PROVE  /\ Mc(clk.core.type) => clk'.bcd = mc_is_bcd(clk.core.type, seen.b)
                        /\ Mc(clk.core.type) /\ clk.core.bank # NoEepromBank =>
                             clk'.bcd = mc_is_bcd(clk.core.type, mc_reg(clk.core.bank))
                        /\ \A bank \in Banks : OrDefault(eep[bank].b) = OrDefault(rtcPast.wroteB[bank]) /\ ~set(eep[bank].b)
    BY <1>3, <1>7, <1>8, <1>10 DEF ModesTrue, mc_reg
  <2>2. ~rtcPast.twin /\ ~ModeTakenBack
    BY <1>6, <2>1
  <2>3. /\ Mc(clk.core.type) => clk.bcd = mc_is_bcd(clk.core.type, seen.b)
        /\ Mc(clk.core.type) /\ clk.core.bank # NoEepromBank => clk.bcd = mc_is_bcd(clk.core.type, mc_reg(clk.core.bank))
        /\ \A bank \in Banks : OrDefault(eep[bank].b) = OrDefault(rtcPast.wroteB[bank]) /\ ~set(eep[bank].b)
    BY <2>2 DEF RtcInv, ModesTrue
  <2>4. Mc(clk.core.type) => clk'.bcd = clk.bcd
    BY <1>8, <2>2, <2>3 DEF ModeTakenBack
  <2> QED
    BY <2>3, <2>4
<1>13. FreshTrue' /\ LateTrue'
  BY <1>6, <1>7, <1>8 DEF FreshTrue, LateTrue
<1>14. SeenRight'
  <2>1. SUFFICES ASSUME fresh, ~back, NEW r \in Time
                 PROVE  seen'.time[r] = IF CoreBcd(clk'.core.type, seen'.b) THEN kg_bin2bcd(chip'[r]) ELSE chip'[r]
    BY <1>7 DEF SeenRight
  <2>2. seen'.time[r] = Sent(clk'.core.type, clk'.bcd, chip'[r])
    BY <1>6, <1>9, <1>10, <2>1, SendLemma
  <2>3. clk'.core \in ClockCores /\ clk'.bcd \in BOOLEAN
        /\ (Mc(clk'.core.type) => clk'.bcd = mc_is_bcd(clk'.core.type, seen'.b))
    BY <1>7, <1>8, <1>12, <2>1 DEF Clocks, ModesTrue
  <2> QED
    BY <2>2, <2>3, SentMode
<1>15. WantTrue'
  <2>1. SUFFICES ASSUME ~rtcPast.broken, ~rtcPast.twin
                 PROVE  Agrees(w, fields') /\ Agrees(w, chip')
    BY <1>6, <1>7, <1>8 DEF WantTrue
  <2>2. Agrees(rtcPast.want, clk.regs)
    BY <1>1, <2>1 DEF RtcInv, WantTrue
  <2>3. CASE kg_datetime_valid(clk.regs)
    <3>1. \A a \in 1 .. 28 : a \in 1 .. 31
      OBVIOUS
    <3>2. msm_in_range(clk.regs)
      BY <2>3, <3>1 DEF kg_datetime_valid, msm_in_range
    <3>3. chip' = clk.regs /\ fields' = clk.regs
      BY <1>3, <2>3, <3>2 DEF adjust
    <3> QED
      BY <1>6, <2>2, <2>3, <3>3
  <2>4. CASE ~kg_datetime_valid(clk.regs)
    BY <1>6, <2>4, NothingWanted
  <2> QED
    BY <2>3, <2>4
<1> QED
  BY <1>11, <1>12, <1>13, <1>14, <1>15 DEF RtcInv

\* The user or NTP sets the clock.
LEMMA Rtc_rtc_save == ASSUME RtcInv, rtc_save PROVE RtcInv'
<1>1. clk \in Clocks /\ seen \in Seens /\ chip \in Moment /\ fields \in Moment /\ rtcPast \in Pasts
  BY DEF RtcInv, RtcTypeOK
<1> DEFINE late == clk.pending
           n == rtcPast.sets + 1
<1>2. /\ rtcPast' = [rtcPast EXCEPT !.sets = n, !.want = <<>>, !.broken = late, !.fresh = FALSE]
      /\ n \in Nat /\ late \in BOOLEAN
      /\ clk' = clk /\ eep' = eep /\ seen' = seen /\ chip' = adjust(fields')
  BY <1>1 DEF rtc_save, Pasts, Clocks
<1>3. fields' \in Moment
  <2>1. PICK d \in WrittenDays \cap 1 .. 31 : fields' = [s |-> 0, d |-> d, m |-> 1]
    BY DEF rtc_save
  <2>2. d \in Nat
    OBVIOUS
  <2> QED
    BY <2>1, <2>2 DEF Moment
<1>4. chip' \in Moment /\ kg_datetime_valid(chip')
  BY <1>2, <1>3, AdjustType DEF RtcInv
<1>5. rtcPast' \in Pasts /\ rtcPast'.want = <<>> /\ rtcPast'.broken = late
      /\ rtcPast'.fresh = FALSE /\ rtcPast'.twin = rtcPast.twin /\ rtcPast'.wroteB = rtcPast.wroteB
  <2> HIDE DEF n, late
  <2> QED
    BY <1>1, <1>2, NothingWanted DEF Pasts
<1>6. RtcTypeOK' /\ ChipIsDate'
  <2>1. ChipIsDate'
    BY <1>4 DEF ChipIsDate, kg_datetime_valid
  <2> QED
    BY <1>1, <1>2, <1>3, <1>4, <1>5, <2>1 DEF RtcInv, RtcTypeOK
<1>7. ModesTrue'
  BY <1>2, <1>5 DEF RtcInv, ModesTrue, mc_reg
<1>8. FreshTrue' /\ SeenRight' /\ LateTrue' /\ WantTrue'
  BY <1>2, <1>5, NothingWanted DEF FreshTrue, SeenRight, LateTrue, WantTrue
<1> QED
  BY <1>6, <1>7, <1>8 DEF RtcInv

\* The clock goes on.
LEMMA Rtc_SecondPasses == ASSUME RtcInv, SecondPasses PROVE RtcInv'
<1>1. clk \in Clocks /\ seen \in Seens /\ chip \in Moment /\ fields \in Moment /\ rtcPast \in Pasts
  BY DEF RtcInv, RtcTypeOK
<1> DEFINE w == [r \in DOMAIN rtcPast.want \ {"s"} |-> rtcPast.want[r]]
           n == rtcPast.seconds + 1
           t == (chip.s + 1) % 60
<1>2. /\ rtcPast' = [rtcPast EXCEPT !.seconds = n, !.fresh = FALSE, !.want = w] /\ n \in Nat
      /\ clk' = clk /\ eep' = eep /\ seen' = seen /\ fields' = fields /\ chip' = [chip EXCEPT !.s = t]
  BY <1>1 DEF SecondPasses, Pasts
<1>3. t \in 0 .. 59 /\ t \in Nat
  BY <1>1 DEF Moment
<1>4. w \in Wanted /\ DOMAIN w = DOMAIN rtcPast.want \ {"s"} /\ DOMAIN w \subseteq Time
      /\ \A r \in DOMAIN w : w[r] = rtcPast.want[r]
  <2>1. rtcPast.want \in Wanted
    BY <1>1 DEF Pasts
  <2> QED
    BY <2>1, WantLess, WantedDomain
<1> HIDE DEF t, w, n
<1>5. chip' \in Moment /\ chip'.s = t /\ chip'.d = chip.d /\ chip'.m = chip.m
  BY <1>1, <1>2, <1>3 DEF Moment
<1>6. rtcPast' \in Pasts /\ rtcPast'.want = w /\ rtcPast'.broken = rtcPast.broken
      /\ rtcPast'.fresh = FALSE /\ rtcPast'.twin = rtcPast.twin /\ rtcPast'.wroteB = rtcPast.wroteB
  BY <1>1, <1>2, <1>4 DEF Pasts
<1>7. RtcTypeOK' /\ ChipIsDate'
  <2>1. ChipIsDate'
    BY <1>3, <1>5 DEF RtcInv, ChipIsDate, kg_datetime_valid
  <2> QED
    BY <1>1, <1>2, <1>5, <1>6, <2>1 DEF RtcInv, RtcTypeOK
<1>8. ModesTrue'
  BY <1>2, <1>6 DEF RtcInv, ModesTrue, mc_reg
<1>9. FreshTrue' /\ SeenRight' /\ LateTrue'
  BY <1>2, <1>6 DEF RtcInv, FreshTrue, SeenRight, LateTrue
<1>10. WantTrue'
  <2>1. \A f : Agrees(rtcPast.want, f) => Agrees(w, f)
    BY <1>4 DEF Agrees
  <2>2. \A r \in DOMAIN w : chip'[r] = chip[r]
    BY <1>1, <1>4, <1>5 DEF Time, Moment
  <2>3. Agrees(w, chip) => Agrees(w, chip')
    BY <2>2 DEF Agrees
  <2> QED
    BY <1>2, <1>6, <2>1, <2>3 DEF RtcInv, WantTrue
<1> QED
  BY <1>7, <1>8, <1>9, <1>10 DEF RtcInv

\* The invariant of the clock.
THEOREM RtcInvariant == RtcSpec => []RtcInv
<1>1. ASSUME RtcInv, [RtcNext]_rtcVars PROVE RtcInv'
  <2>1. CASE UNCHANGED rtcVars
    <3>1. UNCHANGED chip /\ UNCHANGED fields /\ UNCHANGED clk /\ UNCHANGED eep /\ UNCHANGED seen /\ UNCHANGED rtcPast
      BY <2>1 DEF rtcVars
    <3> QED
      BY <1>1, <3>1 DEF RtcInv, RtcTypeOK, ChipIsDate, kg_datetime_valid, ModesTrue, FreshTrue, SeenRight, WantTrue,
                        LateTrue, mc_reg
  <2>2. CASE rtc_set_data
    <3>1. PICK r \in Time : \E v \in (IF r = "d" THEN WrittenDays ELSE IF r = "m" THEN {1, 2} ELSE {FirstTime.s}) :
                              (MsmWrite(r, v) \/ TimeWrite(r, v))
          \/ (\E data \in WrittenRegBs : RegBWrite(data)) \/ CellWrite
      BY <2>2 DEF rtc_set_data, Time
    <3>2. \A v : v \in (IF r = "d" THEN WrittenDays ELSE IF r = "m" THEN {1, 2} ELSE {FirstTime.s}) => v \in Nat
      BY ClockAssumption
    <3>3. WrittenRegBs \subseteq RegBs
      BY ClockAssumption DEF RegBs
    <3> QED
      BY <1>1, <3>1, <3>2, <3>3, Rtc_MsmWrite, Rtc_TimeWrite, Rtc_RegBWrite, Rtc_CellWrite
  <2> QED
    BY <1>1, <2>1, <2>2, Rtc_LoadCore, Rtc_Poll, Rtc_msm_commit, Rtc_rtc_save, Rtc_SecondPasses DEF RtcNext
<1> QED
  BY <1>1, RtcStarts, PTL DEF RtcSpec

\* The clock of the board is a date whatever a core writes; what a core wrote stands in it;
\* what was sent to a core is read right in its own mode, and the mode is kept (rtc.c).
THEOREM RtcIsRight == RtcSpec => []RtcRight
<1>1. RtcInv => RtcRight
  BY DEF RtcInv, RtcRight, WrittenStands, WantTrue, Agrees, ModeKept, ModesTrue, RtcTypeOK
<1> QED
  BY <1>1, RtcInvariant, PTL

-----------------------------------------------------------------------------
(* The LED matrix.                                                         *)

MxModes == {"scroll", "audio", "effect", "image", "blank", "draw", "icon", "loading"}
MxStates == [mode : MxModes, enabled : BOOLEAN,
             preview : {"none", "clock", "meter"}, passes : Nat, repeat : Nat, left : Nat, image : Nat]
Settings == {c \in [mode : {"core", "scroll", "effect", "image", "blank"}, repeat : Nat, then : {"core", "effect", "blank"},
                    frames : Nat, boot : BOOLEAN] : c.mode = "image" => c.frames > 0}
Pics == {"image", "text", "meters", "effect", "core", "icon", "bar"} \X Nat
Leds == [rows : SUBSET Pics, shown : SUBSET Pics]
Loading == {"clears", "flushes", "sends", "reads", "ends"}
AppTasks == [at : {"runs", "reboots", "begins"} \cup Loading, next : Settings, id : Nat]
MxPasts == [loads : Nat, edits : Nat, presses : Nat, draws : Nat, carried : SUBSET MxButtons, saved : BOOLEAN,
            asked : {"none", "clock", "meter"}]

MxTypeOK ==
  /\ mx \in MxStates /\ cfg \in Settings /\ bootCore \in BOOLEAN /\ led \in Leds /\ appTask \in AppTasks
  /\ task \in [at : {"sleeps", "tell"}, btns : SUBSET MxButtons, i : Nat]
  /\ btn \in [held : SUBSET MxButtons, prev : SUBSET MxButtons, heard : SUBSET MxButtons]
  /\ mxPast \in MxPasts

\* What the mode m and the picture l have to do with the task APP and the settings. First
\* the mode of a load and of a reboot, and what is shown meanwhile.
LoadFits(m, l) ==
  /\ appTask.at \in Loading <=> m.mode = "loading"
  /\ appTask.at = "reboots" <=> m.mode = "icon"
  /\ appTask.at \in Loading \ {"clears"} => \A p \in l.rows \cup l.shown : p[1] = "bar"

DarkFits(m, l) == ~m.enabled => l.shown = {} /\ m.mode \in {"blank", "loading"}

\* The matrix is the core's own.
Owned(m) == cfg.mode = "core" \/ (cfg.repeat > 0 /\ cfg.then = "core") \/ m.preview = "meter"
CoreFits(m, l) ==
  /\ \A p \in l.rows \cup l.shown : p[1] = "core" => p[2] = appTask.id /\ Owned(m)
  /\ core_owns_matrix(m) => Owned(m)

\* The passes of the text are counted for the settings that are.
RepeatFits(m) ==
  /\ m.mode = "scroll" /\ m.repeat > 0 => m.passes < m.repeat /\ m.repeat = cfg.repeat
  /\ m.mode = "image" => cfg.mode = "image" /\ m.image < cfg.frames /\ (cfg.repeat > 0 => m.passes < cfg.repeat)

\* While the core runs the mode is one that is its, or was asked for.
RunFits(m) ==
  appTask.at = "runs" =>
    /\ m.preview = mxPast.asked
    /\ m.enabled =>
         \/ mxPast.asked = "none" /\ m.mode \in Shows(cfg.mode, bootCore)
         \/ mxPast.asked = "none" /\ cfg.repeat > 0 /\ m.mode \in Shows(cfg.then, bootCore)
         \/ mxPast.asked = "clock" /\ m.mode = "effect"
         \/ mxPast.asked = "meter" /\ m.mode \in {"audio", "draw"}

Fits(m, l) ==
  m \in MxStates /\ l \in Leds /\ LoadFits(m, l) /\ DarkFits(m, l) /\ CoreFits(m, l) /\ RepeatFits(m) /\ RunFits(m)

\* The buttons told so far are those of this poll, the others those of the last one.
Told(known) == btn.heard \subseteq known /\ known \ mxPast.carried \subseteq btn.heard
ButtonsTold ==
  /\ task.at = "sleeps" => Told(btn.prev)
  /\ task.at = "tell" => task.i > 0 /\ Told({b \in task.btns : b < task.i} \cup {b \in btn.prev : b >= task.i})

MatrixInv == MxTypeOK /\ Fits(mx, led) /\ ButtonsTold

Modes == {"core", "scroll", "effect", "image", "blank"}

\* The parsed settings of a core (kg_matrix_parse()).
LEMMA ParsedType == \A c \in MatrixCores : kg_matrix_parse(c) \in Settings
<1> SUFFICES ASSUME NEW c \in MatrixCores PROVE kg_matrix_parse(c) \in Settings
  OBVIOUS
<1> DEFINE mode == IF c.mode \notin {"scroll", "effect", "image", "blank"} \/ (c.mode = "scroll" /\ ~c.text) THEN "core" ELSE c.mode
           then == IF c.then \in {"effect", "blank"} THEN c.then ELSE "core"
           repeat == IF c.repeat = Never THEN 0 ELSE c.repeat
           frames == parse_frames(c.frames)
<1>1. mode \in Modes
  BY DEF Modes
<1>2. then \in {"core", "effect", "blank"}
  OBVIOUS
<1>3. repeat \in Nat /\ c.boot \in BOOLEAN
  <2>1. c.repeat \in 0 .. 255
    BY MatrixAssumption
  <2>2. c.boot \in BOOLEAN
    BY MatrixAssumption, ZenonT(60)
  <2> QED
    BY <2>1, <2>2
<1>4. frames \in Nat /\ frames > 0
  BY DEF parse_frames, KG_MATRIX_FRAMES
<1>5. kg_matrix_parse(c) = [mode |-> mode, repeat |-> repeat, then |-> then, frames |-> frames, boot |-> c.boot]
  BY DEF kg_matrix_parse
<1> HIDE DEF mode, then, repeat, frames
<1> QED
  BY <1>1, <1>2, <1>3, <1>4, <1>5 DEF Settings, Modes

\* A picture.
LEMMA PicsType ==
  ASSUME MxTypeOK
  PROVE  /\ \A what \in {"image", "text", "meters", "effect", "core", "icon", "bar"} :
              /\ Pic(what) \in Pics /\ Pic(what)[1] = what /\ Pic(what)[2] = appTask.id
              /\ Draws(what) \in Leds /\ \A p \in Draws(what).rows \cup Draws(what).shown : p = Pic(what)
         /\ Dark \in Leds /\ Dark.rows = {} /\ Dark.shown = {}
<1>1. appTask.id \in Nat
  BY DEF MxTypeOK, AppTasks
<1> QED
  BY <1>1 DEF Pic, Pics, Draws, Dark, Leds

\* A mode that starts: its picture is dark or the first of its own, its passes are none.
Started(m, s, repeat) ==
  /\ s[1] \in MxStates /\ s[2] \in Leds /\ s[1].enabled = m.enabled /\ s[1].preview = m.preview /\ s[1].passes = 0
  /\ s[1].mode = "scroll" => s[1].repeat = 0 \/ s[1].repeat = repeat
  /\ s[1].mode = "image" => s[1].image = 0
  /\ s[1].mode # "image" => s[2] = Dark
  /\ \A p \in s[2].rows \cup s[2].shown : p[1] = "image"

\* A mode that starts, from its fields.
LEMMA StartedIs ==
  ASSUME NEW m \in MxStates, NEW n \in MxStates, NEW l \in Leds, NEW s, s = <<n, l>>, NEW repeat,
         n.enabled = m.enabled, n.preview = m.preview, n.passes = 0,
         n.mode = "scroll" => n.repeat = 0 \/ n.repeat = repeat,
         n.mode = "image" => n.image = 0 /\ \A p \in l.rows \cup l.shown : p[1] = "image",
         n.mode # "image" => l = Dark
  PROVE  Started(m, s, repeat) /\ s[1].mode = n.mode
<1>1. s[1] = n /\ s[2] = l
  OBVIOUS
<1>2. n.mode # "image" => l.rows = {} /\ l.shown = {}
  BY DEF Dark
<1> QED
  BY <1>1, <1>2 DEF Started

\* Every mode starts as it should (matrix_start_mode()).
LEMMA StartMode ==
  ASSUME MxTypeOK, NEW m \in MxStates, NEW mode \in Modes, NEW c \in Settings, NEW boot \in BOOLEAN
  PROVE  /\ Started(m, matrix_start_mode(m, mode, c, boot), c.repeat)
         /\ matrix_start_mode(m, mode, c, boot)[1].mode =
              (IF mode # "core" THEN mode ELSE IF boot THEN "scroll" ELSE "audio")
<1> DEFINE s == matrix_start_mode(m, mode, c, boot)
<1>1. c.repeat \in Nat /\ ScrollSteps \in Nat
  BY MatrixAssumption DEF Settings
<1>d. Dark \in Leds
  BY PicsType
<1>2. ASSUME NEW r \in Nat, r = 0 \/ r = c.repeat
      PROVE  Started(m, Scroll(m, r), c.repeat) /\ Scroll(m, r)[1].mode = "scroll"
  <2> DEFINE n == [m EXCEPT !.mode = "scroll", !.passes = 0, !.repeat = r, !.left = ScrollSteps]
  <2>1. n \in MxStates
    BY <1>1 DEF MxStates, MxModes
  <2>2. n.mode = "scroll" /\ n.passes = 0 /\ n.repeat = r /\ n.enabled = m.enabled /\ n.preview = m.preview
    BY DEF MxStates
  <2>3. Scroll(m, r) = <<n, Dark>>
    BY DEF Scroll
  <2> HIDE DEF n
  <2> QED
    BY <1>2, <1>d, <2>1, <2>2, <2>3, StartedIs
<1>3. ASSUME NEW k \in {"audio", "effect", "blank"}, NEW t, t = <<[m EXCEPT !.mode = k, !.passes = 0], Dark>>
      PROVE  Started(m, t, c.repeat) /\ t[1].mode = k
  <2> DEFINE n == [m EXCEPT !.mode = k, !.passes = 0]
  <2>1. n \in MxStates
    BY DEF MxStates, MxModes
  <2>2. n.mode = k /\ n.passes = 0 /\ n.enabled = m.enabled /\ n.preview = m.preview
    BY DEF MxStates
  <2>3. t = <<n, Dark>>
    BY <1>3
  <2> HIDE DEF n
  <2> QED
    BY <1>d, <2>1, <2>2, <2>3, StartedIs
<1>4. CASE mode = "scroll"
  <2>1. s = Scroll(m, c.repeat)
    BY <1>4 DEF matrix_start_mode
  <2> QED
    BY <1>1, <1>2, <1>4, <2>1
<1>5. CASE mode = "effect"
  <2>1. s = <<[m EXCEPT !.mode = "effect", !.passes = 0], Dark>>
    BY <1>5 DEF matrix_start_mode
  <2> QED
    BY <1>3, <1>5, <2>1
<1>6. CASE mode = "image"
  <2> DEFINE n == [m EXCEPT !.mode = "image", !.passes = 0, !.image = 0]
             l == Draws("image")
  <2>1. s = <<n, l>>
    BY <1>6 DEF matrix_start_mode
  <2>2. l \in Leds /\ \A p \in l.rows \cup l.shown : p[1] = "image"
    BY PicsType
  <2>3. n \in MxStates
    BY DEF MxStates, MxModes
  <2>4. n.mode = "image" /\ n.passes = 0 /\ n.image = 0 /\ n.enabled = m.enabled /\ n.preview = m.preview
    BY DEF MxStates
  <2> HIDE DEF n, l, s
  <2>5. Started(m, s, c.repeat) /\ s[1].mode = n.mode
    BY <2>1, <2>2, <2>3, <2>4, StartedIs
  <2> QED
    BY <1>6, <2>4, <2>5 DEF s
<1>7. CASE mode = "blank"
  <2>1. s = <<[m EXCEPT !.mode = "blank", !.passes = 0], Dark>>
    BY <1>7 DEF matrix_start_mode
  <2> QED
    BY <1>3, <1>7, <2>1
<1>8. CASE mode = "core"
  <2>1. CASE boot
    <3>1. s = Scroll(m, 0)
      BY <1>8, <2>1 DEF matrix_start_mode
    <3> QED
      BY <1>2, <1>8, <2>1, <3>1
  <2>2. CASE ~boot
    <3>1. s = <<[m EXCEPT !.mode = "audio", !.passes = 0], Dark>>
      BY <1>8, <2>2 DEF matrix_start_mode, StartAudio
    <3> QED
      BY <1>3, <1>8, <2>2, <3>1
  <2> QED
    BY <2>1, <2>2
<1> QED
  BY <1>4, <1>5, <1>6, <1>7, <1>8 DEF Modes

\* The same under a preview and switched off (matrix_start()).
LEMMA StartLemma ==
  ASSUME MxTypeOK, NEW m \in MxStates, NEW mode \in Modes, NEW c \in Settings, NEW boot \in BOOLEAN
  PROVE  LET s == matrix_start(m, mode, c, boot)
         IN /\ Started(m, s, c.repeat)
            /\ ~m.enabled => s[1].mode = "blank"
            /\ m.enabled /\ m.preview = "clock" => s[1].mode = "effect"
            /\ m.enabled /\ m.preview = "meter" => s[1].mode = "audio"
            /\ m.enabled /\ m.preview = "none" =>
                 s[1].mode = IF mode # "core" THEN mode ELSE IF boot THEN "scroll" ELSE "audio"
<1> DEFINE s == matrix_start(m, mode, c, boot)
<1>1. m.preview \in {"none", "clock", "meter"} /\ m.enabled \in BOOLEAN
  BY DEF MxStates
<1>d. Dark \in Leds
  BY PicsType
<1>p. ASSUME NEW k \in {"audio", "effect"}, s = <<[m EXCEPT !.mode = k, !.passes = 0], Dark>>
      PROVE  Started(m, s, c.repeat) /\ s[1].mode = k
  <2> DEFINE n == [m EXCEPT !.mode = k, !.passes = 0]
  <2>1. n \in MxStates
    BY DEF MxStates, MxModes
  <2>2. n.mode = k /\ n.passes = 0 /\ n.enabled = m.enabled /\ n.preview = m.preview
    BY DEF MxStates
  <2>3. s = <<n, Dark>>
    BY <1>p
  <2> HIDE DEF n, s
  <2> QED
    BY <1>d, <2>1, <2>2, <2>3, StartedIs
<1>2. CASE m.enabled /\ m.preview = "clock"
  <2>1. s = <<[m EXCEPT !.mode = "effect", !.passes = 0], Dark>>
    BY <1>2 DEF matrix_start, matrix_start_preview
  <2> HIDE DEF s
  <2>2. Started(m, s, c.repeat) /\ s[1].mode = "effect"
    BY <1>p, <2>1
  <2> QED
    BY <1>2, <2>2 DEF s
<1>3. CASE m.enabled /\ m.preview = "meter"
  <2>1. s = <<[m EXCEPT !.mode = "audio", !.passes = 0], Dark>>
    BY <1>3 DEF matrix_start, matrix_start_preview, StartAudio
  <2> HIDE DEF s
  <2>2. Started(m, s, c.repeat) /\ s[1].mode = "audio"
    BY <1>p, <2>1
  <2> QED
    BY <1>3, <2>2 DEF s
<1>4. CASE ~m.enabled
  <2>1. s = matrix_start_mode(m, "blank", c, boot) /\ "blank" \in Modes
    BY <1>4 DEF matrix_start, Modes
  <2> QED
    BY <1>4, <2>1, StartMode
<1>5. CASE m.enabled /\ m.preview = "none"
  <2>1. s = matrix_start_mode(m, mode, c, boot)
    BY <1>5 DEF matrix_start
  <2> QED
    BY <1>5, <2>1, StartMode
<1> QED
  BY <1>1, <1>2, <1>3, <1>4, <1>5

\* What starts by the settings c of a core.
StartsBy(m, s, mode, c, boot) ==
  /\ s[1] \in MxStates /\ s[2] \in Leds /\ s[1].enabled = m.enabled /\ s[1].preview = m.preview
  /\ s[1].mode \in {"blank", "effect", "audio", "scroll", "image"}
  /\ ~m.enabled => s[1].mode = "blank" /\ s[2].shown = {}
  /\ \A p \in s[2].rows \cup s[2].shown : p[1] = "image"
  /\ s[1].mode = "audio" => m.preview = "meter" \/ mode = "core"
  /\ s[1].mode = "scroll" /\ s[1].repeat > 0 => s[1].passes < s[1].repeat /\ s[1].repeat = c.repeat
  /\ s[1].mode = "image" => mode = "image" /\ s[1].image = 0 /\ s[1].passes = 0
  /\ m.enabled =>
       \/ m.preview = "none" /\ s[1].mode \in Shows(mode, boot)
       \/ m.preview = "clock" /\ s[1].mode = "effect"
       \/ m.preview = "meter" /\ s[1].mode = "audio"

\* matrix_start() starts by the settings it is given.
LEMMA StartFacts ==
  ASSUME MxTypeOK, NEW m \in MxStates, NEW mode \in Modes, NEW c \in Settings, NEW boot \in BOOLEAN
  PROVE  StartsBy(m, matrix_start(m, mode, c, boot), mode, c, boot)
<1> DEFINE s == matrix_start(m, mode, c, boot)
           n == s[1]
           l == s[2]
           fresh == IF mode # "core" THEN mode ELSE IF boot THEN "scroll" ELSE "audio"
<1>2. /\ Started(m, s, c.repeat)
      /\ ~m.enabled => n.mode = "blank"
      /\ m.enabled /\ m.preview = "clock" => n.mode = "effect"
      /\ m.enabled /\ m.preview = "meter" => n.mode = "audio"
      /\ m.enabled /\ m.preview = "none" => n.mode = fresh
  BY StartLemma
<1>3. /\ n \in MxStates /\ l \in Leds /\ n.enabled = m.enabled /\ n.preview = m.preview /\ n.passes = 0
      /\ n.mode = "scroll" => n.repeat = 0 \/ n.repeat = c.repeat
      /\ n.mode = "image" => n.image = 0
      /\ n.mode # "image" => l = Dark
      /\ \A p \in l.rows \cup l.shown : p[1] = "image"
  BY <1>2 DEF Started
<1>4. m.preview \in {"none", "clock", "meter"} /\ m.enabled \in BOOLEAN
  BY DEF MxStates
<1>5. n.repeat \in Nat
  BY <1>3 DEF MxStates
<1> HIDE DEF s, n, l
<1>6. n.mode \in {"blank", "effect", "audio", "scroll", "image"}
  BY <1>2, <1>4 DEF Modes
<1>7. ~m.enabled => n.mode = "blank" /\ l.shown = {}
  BY <1>2, <1>3 DEF Dark
<1>8. n.mode = "audio" => m.preview = "meter" \/ mode = "core"
  BY <1>2, <1>4, <1>6 DEF Modes
<1>9. n.mode = "scroll" /\ n.repeat > 0 => n.passes < n.repeat /\ n.repeat = c.repeat
  BY <1>3, <1>5
<1>10. n.mode = "image" => mode = "image" /\ n.image = 0 /\ n.passes = 0
  BY <1>2, <1>3, <1>4
<1>11. fresh \in Shows(mode, boot)
  <2>1. mode = "core" => fresh \in Shows("core", boot)
    BY DEF Shows
  <2>2. mode # "core" => fresh \in Shows(mode, boot)
    BY DEF Shows
  <2> QED
    BY <2>1, <2>2
<1> HIDE DEF fresh
<1>12. m.enabled =>
         \/ m.preview = "none" /\ n.mode \in Shows(mode, boot)
         \/ m.preview = "clock" /\ n.mode = "effect"
         \/ m.preview = "meter" /\ n.mode = "audio"
  BY <1>2, <1>4, <1>11
<1> QED
  BY <1>3, <1>6, <1>7, <1>8, <1>9, <1>10, <1>12 DEF StartsBy, s, n, l

\* What the settings of the core are.
LEMMA SettingsParts ==
  \A c \in Settings :
    /\ c.mode \in Modes /\ c.then \in Modes /\ c.repeat \in Nat /\ c.frames \in Nat /\ c.boot \in BOOLEAN
    /\ c.then \in {"core", "effect", "blank"} /\ (c.mode = "image" => c.frames > 0)
<1> SUFFICES ASSUME NEW c \in Settings
             PROVE  /\ c.mode \in Modes /\ c.then \in Modes /\ c.repeat \in Nat /\ c.frames \in Nat /\ c.boot \in BOOLEAN
                    /\ c.then \in {"core", "effect", "blank"} /\ (c.mode = "image" => c.frames > 0)
  OBVIOUS
<1>1. c.boot \in BOOLEAN
  BY ZenonT(60) DEF Settings
<1>2. c.mode \in Modes /\ c.then \in {"core", "effect", "blank"} /\ c.repeat \in Nat /\ c.frames \in Nat /\ (c.mode = "image" => c.frames > 0)
  BY DEF Settings, Modes
<1> QED
  BY <1>1, <1>2 DEF Modes

\* What starts by the settings fits them.
LEMMA StartFits ==
  ASSUME MxTypeOK, NEW m \in MxStates, NEW mode \in Modes,
         mode = cfg.mode \/ (mode = cfg.then /\ cfg.repeat > 0),
         appTask.at \in {"runs", "begins"},
         appTask.at = "runs" => m.preview = mxPast.asked
  PROVE  LET s == matrix_start(m, mode, cfg, bootCore) IN Fits(s[1], s[2])
<1> DEFINE s == matrix_start(m, mode, cfg, bootCore)
<1>1. cfg \in Settings /\ bootCore \in BOOLEAN
  BY DEF MxTypeOK
<1>2. StartsBy(m, s, mode, cfg, bootCore)
  BY <1>1, StartFacts
<1>3. cfg.mode \in Modes /\ cfg.repeat \in Nat /\ cfg.then \in {"core", "effect", "blank"} /\ cfg.frames \in Nat
      /\ (cfg.mode = "image" => cfg.frames > 0)
  BY <1>1, SettingsParts
<1> HIDE DEF s
<1>4. LoadFits(s[1], s[2])
  BY <1>2 DEF LoadFits, Loading, StartsBy
<1>5. DarkFits(s[1], s[2])
  BY <1>2 DEF DarkFits, StartsBy
<1>6. CoreFits(s[1], s[2])
  BY <1>2 DEF CoreFits, Owned, core_owns_matrix, StartsBy
<1>7. RepeatFits(s[1])
  BY <1>2, <1>3 DEF RepeatFits, StartsBy
<1>8. RunFits(s[1])
  BY <1>2 DEF RunFits, StartsBy
<1> QED
  BY <1>2, <1>4, <1>5, <1>6, <1>7, <1>8 DEF Fits, StartsBy, s

\* What is drawn over a picture that is not the core's fits as the one before.
LEMMA DrawnFits ==
  ASSUME MxTypeOK, Fits(mx, led), NEW m \in MxStates, NEW l \in Leds, RepeatFits(m),
         m.mode = mx.mode, m.enabled = mx.enabled, m.preview = mx.preview, mx.mode \in {"audio", "scroll", "effect", "image"},
         l = led \/ \A p \in l.rows \cup l.shown : p[1] # "core"
  PROVE  Fits(m, l)
<1>1. LoadFits(mx, led) /\ DarkFits(mx, led) /\ CoreFits(mx, led) /\ RunFits(mx)
  BY DEF Fits
<1>2. mx.enabled
  BY <1>1 DEF DarkFits, MxTypeOK, MxStates
<1>3. LoadFits(m, l)
  BY <1>1 DEF LoadFits
<1>4. DarkFits(m, l)
  BY <1>2 DEF DarkFits
<1>5. CoreFits(m, l)
  BY <1>1 DEF CoreFits, Owned, core_owns_matrix
<1>6. RunFits(m)
  BY <1>1 DEF RunFits
<1> QED
  BY <1>3, <1>4, <1>5, <1>6 DEF Fits

\* The end of a pass: one more, or what comes after the last.
LEMMA PassFits ==
  ASSUME MxTypeOK, Fits(mx, led), mx.mode \in {"scroll", "image"},
         NEW m \in MxStates, NEW l \in Leds, NEW repeat \in Nat,
         m.mode = mx.mode, m.enabled = mx.enabled, m.preview = mx.preview, m.passes = mx.passes, m.repeat = mx.repeat,
         m.mode = "image" => m.image < cfg.frames,
         repeat = IF mx.mode = "scroll" THEN mx.repeat ELSE cfg.repeat,
         l = led \/ \A p \in l.rows \cup l.shown : p[1] # "core"
  PROVE  LET s == matrix_pass_done(m, l, repeat) IN Fits(s[1], s[2])
<1> DEFINE s == matrix_pass_done(m, l, repeat)
<1>1. LoadFits(mx, led) /\ RepeatFits(mx) /\ RunFits(mx)
  BY DEF Fits
<1>2. cfg \in Settings /\ bootCore \in BOOLEAN /\ appTask.at \in {"runs", "reboots", "begins"} \cup Loading
  BY DEF MxTypeOK, AppTasks
<1>3. m.passes \in Nat /\ m.repeat \in Nat
  BY DEF MxStates
<1>4. cfg.repeat \in Nat /\ cfg.then \in Modes
  BY <1>2 DEF Settings, Modes
<1>5. CASE pass_over(m, repeat)
  <2> DEFINE n == [m EXCEPT !.passes = 0]
  <2>1. n \in MxStates /\ n.preview = m.preview
    BY DEF MxStates
  <2>2. cfg.repeat > 0
    BY <1>1, <1>3, <1>4, <1>5 DEF pass_over, RepeatFits
  <2>3. appTask.at \in {"runs", "begins"}
    BY <1>1, <1>2 DEF LoadFits
  <2>4. appTask.at = "runs" => n.preview = mxPast.asked
    BY <1>1, <2>1 DEF RunFits
  <2>5. s = matrix_start(n, cfg.then, cfg, bootCore)
    BY <1>5 DEF matrix_pass_done
  <2> HIDE DEF n
  <2> QED
    BY <1>4, <2>1, <2>2, <2>3, <2>4, <2>5, StartFits
<1>6. CASE ~pass_over(m, repeat)
  <2> DEFINE k == IF repeat = 0 THEN 0 ELSE m.passes + 1
             n == [m EXCEPT !.passes = k]
  <2>1. k \in Nat /\ (repeat > 0 => k < repeat)
    BY <1>3, <1>6 DEF pass_over
  <2>2. s = <<n, l>>
    BY <1>6 DEF matrix_pass_done
  <2> HIDE DEF k
  <2>3. /\ n \in MxStates /\ n.preview = m.preview /\ n.mode = m.mode /\ n.enabled = m.enabled
        /\ n.passes = k /\ n.repeat = m.repeat /\ n.image = m.image
    BY <2>1 DEF MxStates
  <2> HIDE DEF n, s
  <2>4. RepeatFits(n)
    BY <1>1, <1>3, <1>4, <2>1, <2>3 DEF RepeatFits
  <2>5. Fits(n, l)
    BY <2>3, <2>4, DrawnFits
  <2> QED
    BY <2>2, <2>5 DEF s
<1> QED
  BY <1>5, <1>6

\* A frame.
LEMMA FrameFits ==
  ASSUME MxTypeOK, Fits(mx, led)
  PROVE  \A f \in Framed : Fits(f[1], f[2])
<1>1. mx \in MxStates /\ led \in Leds /\ cfg \in Settings
  BY DEF MxTypeOK
<1>2. RepeatFits(mx)
  BY DEF Fits
<1>3. /\ mx.passes \in Nat /\ mx.repeat \in Nat /\ mx.left \in Nat /\ mx.image \in Nat
      /\ cfg.repeat \in Nat /\ cfg.frames \in Nat /\ ScrollSteps \in Nat
  BY <1>1, MatrixAssumption DEF MxStates, Settings
<1>4. \A what \in {"meters", "text", "effect", "image"} :
        Draws(what) \in Leds /\ \A p \in Draws(what).rows \cup Draws(what).shown : p[1] # "core"
  BY PicsType
<1>5. ASSUME mx.mode = "audio" PROVE Fits(mx, Draws("meters"))
  BY <1>1, <1>2, <1>4, <1>5, DrawnFits
<1>6. ASSUME mx.mode = "effect" PROVE Fits(mx, Draws("effect"))
  BY <1>1, <1>2, <1>4, <1>6, DrawnFits
<1>7. ASSUME mx.mode = "scroll" PROVE Fits(Scrolled[1], Scrolled[2])
  <2>1. CASE mx.left > 0
    <3> DEFINE k == mx.left - 1
               n == [mx EXCEPT !.left = k]
    <3>1. k \in Nat
      BY <1>3, <2>1
    <3>2. Scrolled = <<n, Draws("text")>>
      BY <2>1 DEF Scrolled
    <3> HIDE DEF k
    <3>3. /\ n \in MxStates /\ n.mode = mx.mode /\ n.enabled = mx.enabled /\ n.preview = mx.preview
          /\ n.passes = mx.passes /\ n.repeat = mx.repeat
      BY <1>1, <3>1 DEF MxStates
    <3> HIDE DEF n
    <3>4. RepeatFits(n)
      BY <1>2, <1>7, <3>3 DEF RepeatFits
    <3>5. Fits(n, Draws("text"))
      BY <1>4, <1>7, <3>3, <3>4, DrawnFits
    <3> QED
      BY <3>2, <3>5
  <2>2. CASE ~(mx.left > 0)
    <3> DEFINE n == [mx EXCEPT !.left = ScrollSteps]
    <3>1. Scrolled = matrix_pass_done(n, Draws("text"), mx.repeat)
      BY <2>2 DEF Scrolled
    <3>2. /\ n \in MxStates /\ n.mode = mx.mode /\ n.enabled = mx.enabled /\ n.preview = mx.preview
          /\ n.passes = mx.passes /\ n.repeat = mx.repeat
      BY <1>1, <1>3 DEF MxStates
    <3> HIDE DEF n
    <3> QED
      BY <1>3, <1>4, <1>7, <3>1, <3>2, PassFits
  <2> QED
    BY <2>1, <2>2
<1>8. ASSUME mx.mode = "image" PROVE Fits(Turned[1], Turned[2])
  <2> DEFINE k == next_image(mx.image)
             n == [mx EXCEPT !.image = k]
             l == IF cfg.frames > 1 THEN Draws("image") ELSE led
  <2>1. cfg.frames > 0
    BY <1>2, <1>3, <1>8 DEF RepeatFits
  <2>2. k \in Nat /\ k < cfg.frames
    <3>1. \A a \in Nat, b \in Nat \ {0} : a % b \in Nat /\ a % b < b
      OBVIOUS
    <3> QED
      BY <1>3, <2>1, <3>1 DEF next_image
  <2>3. Turned = IF k = 0 THEN matrix_pass_done(n, l, cfg.repeat) ELSE <<n, l>>
    BY DEF Turned
  <2>4. l \in Leds /\ (l = led \/ \A p \in l.rows \cup l.shown : p[1] # "core")
    BY <1>1, <1>4
  <2> HIDE DEF k
  <2>5. /\ n \in MxStates /\ n.mode = mx.mode /\ n.enabled = mx.enabled /\ n.preview = mx.preview
        /\ n.passes = mx.passes /\ n.repeat = mx.repeat /\ n.image = k
    BY <1>1, <2>2 DEF MxStates
  <2> HIDE DEF n, l
  <2>6. CASE k = 0
    BY <1>3, <1>8, <2>2, <2>3, <2>4, <2>5, <2>6, PassFits
  <2>7. CASE k # 0
    <3>1. RepeatFits(n)
      BY <1>2, <1>8, <2>2, <2>5 DEF RepeatFits
    <3>2. Fits(n, l)
      BY <1>8, <2>4, <2>5, <3>1, DrawnFits
    <3> QED
      BY <2>3, <2>7, <3>2
  <2> QED
    BY <2>6, <2>7
<1> QED
  BY <1>5, <1>6, <1>7, <1>8 DEF Framed

\* What is shown is judged by the core, its settings and where APP is.
LEMMA FitsKept ==
  ASSUME UNCHANGED <<cfg, bootCore, appTask>>, mxPast'.asked = mxPast.asked, Fits(mx', led')
  PROVE  Fits(mx, led)'
<1>1. LoadFits(mx, led)'
  BY DEF Fits, LoadFits
<1>2. DarkFits(mx, led)'
  BY DEF Fits, DarkFits
<1>3. CoreFits(mx, led)'
  BY DEF Fits, CoreFits, Owned, core_owns_matrix
<1>4. RepeatFits(mx)'
  BY DEF Fits, RepeatFits
<1>5. RunFits(mx)'
  BY DEF Fits, RunFits, Shows
<1>6. mx' \in MxStates /\ led' \in Leds
  BY DEF Fits
<1> QED
  BY <1>1, <1>2, <1>3, <1>4, <1>5, <1>6 DEF Fits

\* What MATRIX has told is left alone.
LEMMA ToldKept ==
  ASSUME ButtonsTold, UNCHANGED <<task, btn>>, mxPast'.carried = mxPast.carried
  PROVE  ButtonsTold'
BY DEF ButtonsTold, Told

\* The parts of the type.
LEMMA MxParts ==
  ASSUME MatrixInv
  PROVE  /\ mx \in MxStates /\ led \in Leds /\ cfg \in Settings /\ bootCore \in BOOLEAN /\ appTask \in AppTasks
         /\ appTask.at \in {"runs", "reboots", "begins"} \cup Loading /\ appTask.next \in Settings /\ appTask.id \in Nat
         /\ mxPast \in MxPasts /\ Fits(mx, led) /\ ButtonsTold /\ MxTypeOK
         /\ LoadFits(mx, led) /\ DarkFits(mx, led) /\ CoreFits(mx, led) /\ RepeatFits(mx) /\ RunFits(mx)
BY DEF MatrixInv, MxTypeOK, AppTasks, Fits

\* A frame, and the buttons that are asked.
LEMMA StepFrame == MatrixInv /\ matrix_frame => MatrixInv'
<1> SUFFICES ASSUME MatrixInv, matrix_frame PROVE MatrixInv'
  OBVIOUS
<1>1. MxTypeOK /\ Fits(mx, led) /\ ButtonsTold
  BY MxParts
<1>2. UNCHANGED <<cfg, bootCore, appTask, btn, mxPast>> /\ task.at = "sleeps"
  BY DEF matrix_frame
<1>3. Fits(mx', led')
  BY <1>1, FrameFits DEF matrix_frame
<1>4. Fits(mx, led)'
  BY <1>2, <1>3, FitsKept
<1>5. PICK b \in {btn.prev, btn.held} : task' = [at |-> "tell", btns |-> b, i |-> 1]
  BY DEF matrix_frame
<1>6. btn.prev \in SUBSET MxButtons /\ b \in SUBSET MxButtons /\ MxButtons \subseteq Nat \ {0}
  BY <1>1, <1>5, MatrixAssumption DEF MxTypeOK
<1>7. MxTypeOK'
  <2>1. task' \in [at : {"sleeps", "tell"}, btns : SUBSET MxButtons, i : Nat]
    BY <1>5, <1>6
  <2>2. mx' \in MxStates /\ led' \in Leds
    BY <1>3 DEF Fits
  <2> QED
    BY <1>1, <1>2, <2>1, <2>2 DEF MxTypeOK
<1>8. ButtonsTold'
  <2>1. Told(btn.prev)
    BY <1>1, <1>2 DEF ButtonsTold
  <2>2. {c \in b : c < 1} \cup {c \in btn.prev : c >= 1} = btn.prev
    <3>1. \A c \in Nat \ {0} : ~(c < 1) /\ c >= 1
      OBVIOUS
    <3>2. \A c \in b \cup btn.prev : ~(c < 1) /\ c >= 1
      BY <1>6, <3>1
    <3> QED
      BY <3>2
  <2>3. task'.at = "tell" /\ task'.i = 1 /\ task'.btns = b
    BY <1>5
  <2>4. Told({c \in task.btns : c < task.i} \cup {c \in btn.prev : c >= task.i})'
    BY <1>2, <2>1, <2>2, <2>3 DEF Told
  <2> QED
    BY <2>3, <2>4 DEF ButtonsTold
<1> QED
  BY <1>4, <1>7, <1>8 DEF MatrixInv

\* One button is told, if it has changed.
LEMMA StepReport == MatrixInv /\ ReportButton => MatrixInv'
<1> SUFFICES ASSUME MatrixInv, ReportButton PROVE MatrixInv'
  OBVIOUS
<1>1. MxTypeOK /\ Fits(mx, led) /\ ButtonsTold
  BY MxParts
<1> DEFINE i == task.i
           heard == IF Differs THEN IF i \in task.btns THEN btn.heard \cup {i} ELSE btn.heard \ {i} ELSE btn.heard
           carried == mxPast.carried \ {b \in {i} : b \notin task.btns}
           next == i + 1
<1>2. UNCHANGED <<mx, cfg, bootCore, led, appTask>> /\ task.at = "tell" /\ i \in MxButtons
  BY DEF ReportButton
<1>3. i \in Nat /\ next \in Nat /\ next > 0 /\ task.btns \in SUBSET MxButtons /\ btn.prev \in SUBSET MxButtons /\ btn.heard \in SUBSET MxButtons
      /\ MxButtons \subseteq Nat /\ mxPast.carried \in SUBSET MxButtons
  BY <1>1, MatrixAssumption DEF MxTypeOK, MxPasts
<1>4. heard \in SUBSET MxButtons /\ carried \in SUBSET MxButtons
  BY <1>2, <1>3
<1>5. btn' = [btn EXCEPT !.heard = heard]
  BY <1>1 DEF ReportButton, Reports, MxTypeOK
<1>6. task' = [task EXCEPT !.i = next] /\ mxPast' = [mxPast EXCEPT !.carried = carried]
  BY DEF ReportButton
<1>7. ButtonsTold'
  <2> DEFINE known == {b \in task.btns : b < i} \cup {b \in btn.prev : b >= i}
             now == {b \in task.btns : b < next} \cup {b \in btn.prev : b >= next}
  <2>1. btn.heard \subseteq known /\ known \ mxPast.carried \subseteq btn.heard
    BY <1>1, <1>2 DEF ButtonsTold, Told
  <2>2. \A b \in Nat : b # i => (b < i <=> b < next) /\ (b >= i <=> b >= next)
    BY <1>3
  <2>3. i < next /\ ~(i >= next) /\ ~(i < i) /\ i >= i
    BY <1>3
  <2> HIDE DEF i, next
  <2>4. \A b \in MxButtons : b # i => (b \in now <=> b \in known)
    BY <1>3, <2>2
  <2>5. (i \in now <=> i \in task.btns) /\ (i \in known <=> i \in btn.prev)
    BY <2>3
  <2>6. now \subseteq MxButtons /\ known \subseteq MxButtons
    BY <1>3
  <2>7. Differs <=> ((i \in task.btns) # (i \in btn.prev))
    BY DEF Differs, i
  <2> HIDE DEF now, known
  <2>8. heard \subseteq now
    BY <1>4, <2>1, <2>4, <2>5, <2>6, <2>7
  <2>9. now \ carried \subseteq heard
    <3> SUFFICES ASSUME NEW b \in now, b \notin carried PROVE b \in heard
      OBVIOUS
    <3>1. CASE b = i
      <4>1. i \in task.btns /\ i \notin mxPast.carried
        BY <2>5, <3>1
      <4> QED
        BY <2>1, <2>5, <2>7, <3>1, <4>1
    <3>2. CASE b # i
      <4>1. b \in known /\ b \notin mxPast.carried
        BY <2>4, <2>6, <3>2
      <4> QED
        BY <2>1, <3>2, <4>1
    <3> QED
      BY <3>1, <3>2
  <2> HIDE DEF heard, carried
  <2>10. btn'.heard = heard /\ btn'.prev = btn.prev /\ mxPast'.carried = carried /\ task'.i = next /\ task'.at = "tell" /\ task'.btns = task.btns
    BY <1>1, <1>2, <1>5, <1>6 DEF MxTypeOK, MxPasts
  <2>11. Told({b \in task.btns : b < task.i} \cup {b \in btn.prev : b >= task.i})'
    BY <2>8, <2>9, <2>10 DEF Told, now
  <2> QED
    BY <1>3, <2>10, <2>11 DEF ButtonsTold
<1> HIDE DEF i, heard, carried, next
<1>8. mxPast'.asked = mxPast.asked
  BY <1>1, <1>6 DEF MxTypeOK, MxPasts
<1>9. Fits(mx, led)'
  BY <1>1, <1>2, <1>8, FitsKept
<1>10. MxTypeOK'
  <2>1. btn' \in [held : SUBSET MxButtons, prev : SUBSET MxButtons, heard : SUBSET MxButtons]
    BY <1>1, <1>4, <1>5 DEF MxTypeOK
  <2>2. task' \in [at : {"sleeps", "tell"}, btns : SUBSET MxButtons, i : Nat]
    BY <1>1, <1>3, <1>6 DEF MxTypeOK
  <2>3. mxPast' \in MxPasts
    BY <1>1, <1>4, <1>6 DEF MxTypeOK, MxPasts
  <2> QED
    BY <1>1, <1>2, <2>1, <2>2, <2>3 DEF MxTypeOK
<1> QED
  BY <1>7, <1>9, <1>10 DEF MatrixInv

\* All are told: what was polled is what the core has heard.
LEMMA StepFrameEnds == MatrixInv /\ FrameEnds => MatrixInv'
<1> SUFFICES ASSUME MatrixInv, FrameEnds PROVE MatrixInv'
  OBVIOUS
<1>1. MxTypeOK /\ Fits(mx, led) /\ ButtonsTold
  BY MxParts
<1>2. UNCHANGED <<mx, cfg, bootCore, led, appTask, mxPast>> /\ task.at = "tell" /\ task.i \notin MxButtons
      /\ btn' = [btn EXCEPT !.prev = task.btns] /\ task' = [at |-> "sleeps", btns |-> {}, i |-> 0]
  BY DEF FrameEnds
<1>3. task.i \in Nat /\ task.btns \in SUBSET MxButtons /\ btn.prev \in SUBSET MxButtons
  BY <1>1 DEF MxTypeOK
<1>4. PICK n \in MxButtons : MxButtons = 1 .. n
  BY MatrixAssumption
<1>5. task.i > 0
  BY <1>1, <1>2 DEF ButtonsTold
<1>6. n \in Nat /\ task.i > n
  BY <1>2, <1>3, <1>4, <1>5
<1>7. {b \in task.btns : b < task.i} \cup {b \in btn.prev : b >= task.i} = task.btns
  BY <1>3, <1>4, <1>6
<1>8. Told(task.btns)
  BY <1>1, <1>2, <1>7 DEF ButtonsTold
<1>9. btn' \in [held : SUBSET MxButtons, prev : SUBSET MxButtons, heard : SUBSET MxButtons] /\ btn'.heard = btn.heard /\ btn'.prev = task.btns
  BY <1>1, <1>2, <1>3 DEF MxTypeOK
<1>10. ButtonsTold'
  BY <1>2, <1>8, <1>9 DEF ButtonsTold, Told
<1>11. task' \in [at : {"sleeps", "tell"}, btns : SUBSET MxButtons, i : Nat]
  BY <1>2
<1>12. MxTypeOK'
  BY <1>1, <1>2, <1>9, <1>11 DEF MxTypeOK
<1>13. Fits(mx, led)'
  BY <1>1, <1>2, FitsKept
<1> QED
  BY <1>10, <1>12, <1>13 DEF MatrixInv

\* A press tells nobody.
LEMMA StepPress == MatrixInv /\ Press => MatrixInv'
<1> SUFFICES ASSUME MatrixInv, Press PROVE MatrixInv'
  OBVIOUS
<1>1. MxTypeOK /\ Fits(mx, led) /\ ButtonsTold
  BY MxParts
<1>2. UNCHANGED <<mx, cfg, bootCore, led, appTask, task>>
  BY DEF Press
<1>3. PICK b \in MxButtons : btn' = [btn EXCEPT !.held = IF b \in btn.held THEN btn.held \ {b} ELSE btn.held \cup {b}]
  BY DEF Press
<1>4. btn' \in [held : SUBSET MxButtons, prev : SUBSET MxButtons, heard : SUBSET MxButtons] /\ btn'.heard = btn.heard /\ btn'.prev = btn.prev
  <2> DEFINE downs == IF b \in btn.held THEN btn.held \ {b} ELSE btn.held \cup {b}
  <2>1. downs \in SUBSET MxButtons
    BY <1>1 DEF MxTypeOK
  <2> HIDE DEF downs
  <2>2. btn' = [btn EXCEPT !.held = downs]
    BY <1>3 DEF downs
  <2> QED
    BY <1>1, <2>1, <2>2 DEF MxTypeOK
<1>5. mxPast' \in MxPasts /\ mxPast'.carried = mxPast.carried /\ mxPast'.asked = mxPast.asked
  <2> DEFINE k == mxPast.presses + 1
  <2>1. k \in Nat
    BY <1>1 DEF MxTypeOK, MxPasts
  <2>2. mxPast' = [mxPast EXCEPT !.presses = k]
    BY DEF Press
  <2> HIDE DEF k
  <2> QED
    BY <1>1, <2>1, <2>2 DEF MxTypeOK, MxPasts
<1>6. ButtonsTold'
  BY <1>1, <1>2, <1>4, <1>5 DEF ButtonsTold, Told
<1>7. MxTypeOK'
  BY <1>1, <1>2, <1>4, <1>5 DEF MxTypeOK
<1>8. Fits(mx, led)'
  BY <1>1, <1>2, <1>5, FitsKept
<1> QED
  BY <1>6, <1>7, <1>8 DEF MatrixInv

\* What the core draws.
LEMMA DrawType ==
  ASSUME MatrixInv, Draw
  PROVE  /\ UNCHANGED <<cfg, bootCore, appTask, task, btn>> /\ ButtonsTold'
         /\ mxPast' \in MxPasts /\ mxPast'.asked = mxPast.asked
<1> DEFINE k == mxPast.draws + 1
<1>1. k \in Nat
  BY DEF MatrixInv, MxTypeOK, MxPasts
<1>2. mxPast' = [mxPast EXCEPT !.draws = k] /\ UNCHANGED <<cfg, bootCore, appTask, task, btn>>
  BY DEF Draw
<1> HIDE DEF k
<1>3. mxPast' \in MxPasts /\ mxPast'.asked = mxPast.asked /\ mxPast'.carried = mxPast.carried
  BY <1>1, <1>2 DEF MatrixInv, MxTypeOK, MxPasts
<1> QED
  BY <1>2, <1>3, ToldKept DEF MatrixInv

\* A picture of the core that runs, which owns the matrix.
LEMMA CoreDraws ==
  ASSUME MatrixInv, core_owns_matrix(mx), NEW m \in MxStates, NEW l \in Leds,
         m.mode \in {"audio", "draw"}, m.enabled = mx.enabled, m.preview = mx.preview,
         \A p \in l.rows \cup l.shown : p \in led.rows \cup led.shown \/ p = Pic("core")
  PROVE  Fits(m, l)
<1>1. LoadFits(mx, led) /\ DarkFits(mx, led) /\ CoreFits(mx, led) /\ RepeatFits(mx) /\ RunFits(mx)
  BY MxParts
<1>2. mx.mode \in {"audio", "draw"} /\ mx.enabled
  BY <1>1, MxParts DEF core_owns_matrix, DarkFits, MxStates
<1>3. Pic("core")[1] = "core" /\ Pic("core")[2] = appTask.id
  BY DEF Pic
<1>4. LoadFits(m, l)
  BY <1>1, <1>2 DEF LoadFits
<1>5. DarkFits(m, l)
  BY <1>2 DEF DarkFits
<1>6. Owned(m)
  BY <1>1 DEF CoreFits, Owned
<1>7. CoreFits(m, l)
  BY <1>1, <1>3, <1>6 DEF CoreFits, Owned
<1>8. RepeatFits(m)
  BY DEF RepeatFits
<1>9. RunFits(m)
  <2>1. \A k \in {"core", "scroll", "effect", "image", "blank"} : \A b \in BOOLEAN :
          mx.mode \in Shows(k, b) => m.mode \in Shows(k, b)
    BY <1>2 DEF Shows
  <2>2. cfg.mode \in {"core", "scroll", "effect", "image", "blank"} /\ cfg.then \in {"core", "scroll", "effect", "image", "blank"}
    BY MxParts DEF Settings
  <2>3. bootCore \in BOOLEAN
    BY MxParts
  <2> QED
    BY <1>1, <1>2, <2>1, <2>2, <2>3 DEF RunFits
<1> QED
  BY <1>4, <1>5, <1>7, <1>8, <1>9 DEF Fits

\* The core draws.
LEMMA StepPixel == MatrixInv /\ matrix_pixel_data => MatrixInv'
<1> SUFFICES ASSUME MatrixInv, matrix_pixel_data PROVE MatrixInv'
  OBVIOUS
<1>1. core_owns_matrix(mx) /\ mx' = [mx EXCEPT !.mode = "draw"] /\ led' = pixel(led, "core") /\ Draw
  BY DEF matrix_pixel_data
<1>2. mx \in MxStates /\ led \in Leds /\ Pic("core") \in Pics /\ MxTypeOK
  BY MxParts, PicsType
<1>3. mx' \in MxStates /\ mx'.mode = "draw" /\ mx'.enabled = mx.enabled /\ mx'.preview = mx.preview
  BY <1>1, <1>2 DEF MxStates, MxModes
<1>4. led' \in Leds /\ \A p \in led'.rows \cup led'.shown : p \in led.rows \cup led.shown \/ p = Pic("core")
  BY <1>1, <1>2 DEF pixel, Leds
<1>5. Fits(mx', led')
  BY <1>1, <1>3, <1>4, CoreDraws
<1>6. UNCHANGED <<cfg, bootCore, appTask, task, btn>> /\ ButtonsTold' /\ mxPast' \in MxPasts /\ mxPast'.asked = mxPast.asked
  BY <1>1, DrawType
<1>7. Fits(mx, led)'
  BY <1>5, <1>6, FitsKept
<1>8. MxTypeOK'
  BY <1>2, <1>3, <1>4, <1>6 DEF MxTypeOK
<1> QED
  BY <1>6, <1>7, <1>8 DEF MatrixInv

\* The core clears, shows and asks for its meters.
LEMMA StepCtl == MatrixInv /\ matrix_ctl_data => MatrixInv'
<1> SUFFICES ASSUME MatrixInv, matrix_ctl_data PROVE MatrixInv'
  OBVIOUS
<1>1. PICK clear, shows, meters \in BOOLEAN :
        LET cleared == IF clear THEN [led EXCEPT !.rows = {}] ELSE led
        IN /\ mx' = [mx EXCEPT !.mode = IF meters THEN "audio" ELSE "draw"]
           /\ led' = IF mx'.mode # mx.mode THEN Dark ELSE IF shows THEN show(cleared) ELSE cleared
  BY DEF matrix_ctl_data
<1>2. mx \in MxStates /\ led \in Leds /\ MxTypeOK /\ core_owns_matrix(mx) /\ Draw
  BY MxParts DEF matrix_ctl_data
<1>3. mx' \in MxStates /\ mx'.mode \in {"audio", "draw"} /\ mx'.enabled = mx.enabled /\ mx'.preview = mx.preview
  <2> DEFINE k == IF meters THEN "audio" ELSE "draw"
  <2>1. k \in {"audio", "draw"} /\ mx' = [mx EXCEPT !.mode = k]
    BY <1>1
  <2> HIDE DEF k
  <2> QED
    BY <1>2, <2>1 DEF MxStates, MxModes
<1>4. led' \in Leds /\ \A p \in led'.rows \cup led'.shown : p \in led.rows \cup led.shown
  <2> DEFINE cleared == IF clear THEN [led EXCEPT !.rows = {}] ELSE led
  <2>1. cleared \in Leds /\ cleared.rows \subseteq led.rows /\ cleared.shown = led.shown
    BY <1>2 DEF Leds
  <2>2. led' = Dark \/ led' = show(cleared) \/ led' = cleared
    BY <1>1
  <2> HIDE DEF cleared
  <2>3. show(cleared) \in Leds /\ show(cleared).rows = cleared.rows /\ show(cleared).shown = cleared.rows
    BY <2>1 DEF show, Leds
  <2>4. Dark \in Leds /\ Dark.rows = {} /\ Dark.shown = {}
    BY <1>2, PicsType
  <2> QED
    BY <2>1, <2>2, <2>3, <2>4
<1>5. Fits(mx', led')
  BY <1>2, <1>3, <1>4, CoreDraws
<1>6. UNCHANGED <<cfg, bootCore, appTask, task, btn>> /\ ButtonsTold' /\ mxPast' \in MxPasts /\ mxPast'.asked = mxPast.asked
  BY <1>2, DrawType
<1>7. Fits(mx, led)'
  BY <1>5, <1>6, FitsKept
<1>8. MxTypeOK'
  BY <1>2, <1>3, <1>4, <1>6 DEF MxTypeOK
<1> QED
  BY <1>6, <1>7, <1>8 DEF MatrixInv

\* The picture before a reboot.
LEMMA StepIcon == MatrixInv /\ matrix_icon => MatrixInv'
<1> SUFFICES ASSUME MatrixInv, matrix_icon PROVE MatrixInv'
  OBVIOUS
<1>1. mx' = [mx EXCEPT !.mode = "icon"] /\ led' = Draws("icon") /\ appTask' = [appTask EXCEPT !.at = "reboots"]
      /\ UNCHANGED <<cfg, bootCore, task, btn, mxPast>> /\ mx.enabled
  BY DEF matrix_icon
<1>2. mx \in MxStates /\ MxTypeOK /\ ButtonsTold
  BY MxParts
<1>3. mx' \in MxStates /\ mx'.mode = "icon" /\ mx'.enabled = mx.enabled
  BY <1>1, <1>2 DEF MxStates, MxModes
<1>4. led' \in Leds /\ \A p \in led'.rows \cup led'.shown : p[1] = "icon"
  BY <1>1, <1>2, PicsType
<1>5. appTask' \in AppTasks /\ appTask'.at = "reboots"
  BY <1>1, <1>2 DEF AppTasks, MxTypeOK
<1>6. LoadFits(mx, led)'
  BY <1>3, <1>5 DEF LoadFits, Loading
<1>7. DarkFits(mx, led)'
  BY <1>1, <1>3 DEF DarkFits
<1>8. CoreFits(mx, led)'
  BY <1>3, <1>4 DEF CoreFits, core_owns_matrix
<1>9. RepeatFits(mx)' /\ RunFits(mx)'
  BY <1>3, <1>5 DEF RepeatFits, RunFits
<1>10. Fits(mx, led)'
  BY <1>3, <1>4, <1>6, <1>7, <1>8, <1>9 DEF Fits
<1>11. MxTypeOK'
  BY <1>1, <1>2, <1>3, <1>4, <1>5 DEF MxTypeOK
<1>12. ButtonsTold'
  BY <1>1, <1>2, ToldKept
<1> QED
  BY <1>10, <1>11, <1>12 DEF MatrixInv

\* Settings switch the matrix on and off.
LEMMA StepEdit == MatrixInv /\ Edit => MatrixInv'
<1> SUFFICES ASSUME MatrixInv, Edit PROVE MatrixInv'
  OBVIOUS
<1>1. PICK on \in BOOLEAN : matrix_setup(on)
  BY DEF Edit
<1>2. UNCHANGED <<cfg, bootCore, appTask, task, btn>> /\ appTask.at = "runs"
  BY <1>1 DEF matrix_setup, Edit, AppActs
<1>3. mx \in MxStates /\ MxTypeOK /\ ButtonsTold /\ Fits(mx, led) /\ RunFits(mx) /\ cfg.mode \in Modes
  BY MxParts, SettingsParts
<1> DEFINE m == [mx EXCEPT !.enabled = on]
<1>4. m \in MxStates /\ m.preview = mx.preview
  BY <1>3 DEF MxStates
<1>5. m.preview = mxPast.asked
  BY <1>2, <1>3, <1>4 DEF RunFits
<1>6. Fits(mx', led')
  <2>1. CASE Settled \/ on = mx.enabled
    <3>1. on = mx.enabled
      BY <1>2, <2>1, MxParts DEF LoadFits, Settled, Loading
    <3>2. m = mx
      BY <1>3, <3>1 DEF MxStates
    <3>3. mx' = m /\ led' = led
      BY <1>1, <2>1 DEF matrix_setup
    <3> QED
      BY <1>3, <3>2, <3>3
  <2>2. CASE ~(Settled \/ on = mx.enabled)
    <3> DEFINE s == matrix_start(m, cfg.mode, cfg, bootCore)
    <3>1. mx' = s[1] /\ led' = s[2]
      BY <1>1, <2>2 DEF matrix_setup
    <3>2. Fits(s[1], s[2])
      BY <1>2, <1>3, <1>4, <1>5, StartFits
    <3> QED
      BY <3>1, <3>2
  <2> QED
    BY <2>1, <2>2
<1>7. mxPast' \in MxPasts /\ mxPast'.carried = mxPast.carried /\ mxPast'.asked = mxPast.asked
  <2>1. PICK keeps \in BOOLEAN : mxPast' = [mxPast EXCEPT !.edits = @ + 1, !.saved = IF keeps THEN mx'.enabled ELSE @]
    BY DEF Edit
  <2> DEFINE k == mxPast.edits + 1
             was_on == IF keeps THEN mx'.enabled ELSE mxPast.saved
  <2>2. mx' \in MxStates
    BY <1>6 DEF Fits
  <2>3. mx'.enabled \in BOOLEAN /\ mxPast.saved \in BOOLEAN
    BY <1>3, <2>2 DEF MxStates, MxTypeOK, MxPasts
  <2>4. was_on \in BOOLEAN
    BY <2>3
  <2>5. k \in Nat
    BY <1>3 DEF MxTypeOK, MxPasts
  <2>6. mxPast' = [mxPast EXCEPT !.edits = k, !.saved = was_on]
    BY <2>1
  <2> HIDE DEF k, was_on
  <2> QED
    BY <1>3, <2>4, <2>5, <2>6 DEF MxTypeOK, MxPasts
<1>8. Fits(mx, led)'
  BY <1>2, <1>6, <1>7, FitsKept
<1>9. ButtonsTold'
  BY <1>2, <1>3, <1>7, ToldKept
<1>10. MxTypeOK'
  BY <1>2, <1>3, <1>6, <1>7 DEF MxTypeOK, Fits
<1> QED
  BY <1>8, <1>9, <1>10 DEF MatrixInv

\* Settings show a clock or the meters.
LEMMA StepPreview == MatrixInv /\ settings_preview => MatrixInv'
<1> SUFFICES ASSUME MatrixInv, settings_preview PROVE MatrixInv'
  OBVIOUS
<1>1. PICK what \in {"none", "clock", "meter"} : matrix_preview(what)
  BY DEF settings_preview
<1>2. UNCHANGED <<cfg, bootCore, appTask, task, btn>> /\ appTask.at = "runs"
  BY DEF settings_preview, AppActs
<1>3. mx \in MxStates /\ MxTypeOK /\ ButtonsTold /\ Fits(mx, led) /\ RunFits(mx) /\ cfg \in Settings /\ bootCore \in BOOLEAN
  BY MxParts
<1> DEFINE m == [mx EXCEPT !.preview = what]
           s == matrix_start(m, cfg.mode, cfg, bootCore)
<1>4. m \in MxStates /\ m.preview = what
  BY <1>3 DEF MxStates
<1>5. ~Settled
  BY <1>2, MxParts DEF LoadFits, Settled, Loading
<1>6. CASE what = mx.preview
  <2>1. m = mx
    BY <1>3, <1>6 DEF MxStates
  <2>2. mx' = mx /\ led' = led
    BY <1>1, <1>6, <2>1 DEF matrix_preview
  <2>3. mx.preview = mxPast.asked
    BY <1>2, <1>3 DEF RunFits
  <2>4. mxPast' \in MxPasts /\ mxPast'.carried = mxPast.carried /\ mxPast'.asked = mxPast.asked
    <3> DEFINE k == mxPast.edits + 1
               asked == mx'.preview
    <3>1. k \in Nat
      BY <1>3 DEF MxTypeOK, MxPasts
    <3>2. asked = mxPast.asked
      BY <2>2, <2>3
    <3>3. mxPast' = [mxPast EXCEPT !.edits = k, !.asked = asked]
      BY DEF settings_preview
    <3> HIDE DEF k, asked
    <3> QED
      BY <1>3, <3>1, <3>2, <3>3 DEF MxTypeOK, MxPasts
  <2>5. Fits(mx, led)'
    BY <1>2, <1>3, <2>2, <2>4, FitsKept
  <2>6. MxTypeOK' /\ ButtonsTold'
    BY <1>2, <1>3, <2>2, <2>4, ToldKept DEF MxTypeOK
  <2> QED
    BY <2>5, <2>6 DEF MatrixInv
<1>7. CASE what # mx.preview
  <2>1. mx' = s[1] /\ led' = s[2]
    BY <1>1, <1>5, <1>7 DEF matrix_preview
  <2>2. cfg.mode \in Modes /\ cfg.repeat \in Nat /\ cfg.frames \in Nat /\ (cfg.mode = "image" => cfg.frames > 0)
    BY <1>3, SettingsParts
  <2>3. StartsBy(m, s, cfg.mode, cfg, bootCore)
    BY <1>3, <1>4, <2>2, StartFacts
  <2> HIDE DEF m, s
  <2>4. mxPast' \in MxPasts /\ mxPast'.carried = mxPast.carried /\ mxPast'.asked = mx'.preview
    <3> DEFINE k == mxPast.edits + 1
               asked == mx'.preview
    <3>1. k \in Nat
      BY <1>3 DEF MxTypeOK, MxPasts
    <3>2. asked \in {"none", "clock", "meter"}
      BY <1>4, <2>1, <2>3 DEF StartsBy
    <3>3. mxPast' = [mxPast EXCEPT !.edits = k, !.asked = asked]
      BY DEF settings_preview
    <3> HIDE DEF k, asked
    <3>4. mxPast' \in MxPasts /\ mxPast'.carried = mxPast.carried /\ mxPast'.asked = asked
      BY <1>3, <3>1, <3>2, <3>3 DEF MxTypeOK, MxPasts
    <3> QED
      BY <3>4 DEF asked
  <2>5. LoadFits(mx, led)'
    BY <1>2, <2>1, <2>3 DEF LoadFits, Loading, StartsBy
  <2>6. DarkFits(mx, led)'
    BY <2>1, <2>3 DEF DarkFits, StartsBy
  <2>7. CoreFits(mx, led)'
    BY <1>2, <2>1, <2>3 DEF CoreFits, Owned, core_owns_matrix, StartsBy
  <2>8. RepeatFits(mx)'
    BY <1>2, <2>1, <2>2, <2>3 DEF RepeatFits, StartsBy
  <2>9. RunFits(mx)'
    BY <1>2, <2>1, <2>3, <2>4 DEF RunFits, StartsBy, Shows
  <2>10. mx' \in MxStates /\ led' \in Leds
    BY <2>1, <2>3 DEF StartsBy
  <2>11. Fits(mx, led)'
    BY <2>5, <2>6, <2>7, <2>8, <2>9, <2>10 DEF Fits
  <2>12. MxTypeOK' /\ ButtonsTold'
    BY <1>2, <1>3, <2>4, <2>10, ToldKept DEF MxTypeOK
  <2> QED
    BY <2>11, <2>12 DEF MatrixInv
<1> QED
  BY <1>6, <1>7

\* A core load takes the link; the picture is still the old one.
LEMMA StepLoadBegins == MatrixInv /\ LoadBegins => MatrixInv'
<1> SUFFICES ASSUME MatrixInv, LoadBegins PROVE MatrixInv'
  OBVIOUS
<1>1. PICK c \in MatrixCores : appTask' = [appTask EXCEPT !.at = "begins", !.next = kg_matrix_parse(c)]
  BY DEF LoadBegins
<1>2. UNCHANGED <<mx, cfg, bootCore, led, task, btn>> /\ appTask.at = "runs"
  BY DEF LoadBegins
<1>3. MxTypeOK /\ ButtonsTold /\ LoadFits(mx, led) /\ DarkFits(mx, led) /\ CoreFits(mx, led) /\ RepeatFits(mx)
      /\ mx \in MxStates /\ led \in Leds
  BY MxParts
<1>4. appTask' \in AppTasks /\ appTask'.at = "begins" /\ appTask'.id = appTask.id
  <2> DEFINE next == kg_matrix_parse(c)
  <2>1. next \in Settings
    BY ParsedType
  <2> HIDE DEF next
  <2>2. appTask' = [appTask EXCEPT !.at = "begins", !.next = next]
    BY <1>1 DEF next
  <2> QED
    BY <1>3, <2>1, <2>2 DEF MxTypeOK, AppTasks
<1>5. mxPast' \in MxPasts /\ mxPast'.carried = mxPast.carried
  <2> DEFINE k == mxPast.loads + 1
  <2>1. k \in Nat
    BY <1>3 DEF MxTypeOK, MxPasts
  <2>2. mxPast' = [mxPast EXCEPT !.loads = k]
    BY DEF LoadBegins
  <2> HIDE DEF k
  <2> QED
    BY <1>3, <2>1, <2>2 DEF MxTypeOK, MxPasts
<1>6. LoadFits(mx, led)'
  BY <1>2, <1>3, <1>4 DEF LoadFits, Loading
<1>7. DarkFits(mx, led)' /\ RepeatFits(mx)'
  BY <1>2, <1>3 DEF DarkFits, RepeatFits
<1>8. CoreFits(mx, led)'
  BY <1>2, <1>3, <1>4 DEF CoreFits, Owned, core_owns_matrix
<1>9. RunFits(mx)'
  BY <1>4 DEF RunFits
<1>10. Fits(mx, led)'
  BY <1>2, <1>3, <1>6, <1>7, <1>8, <1>9 DEF Fits
<1>11. MxTypeOK' /\ ButtonsTold'
  BY <1>2, <1>3, <1>4, <1>5, ToldKept DEF MxTypeOK
<1> QED
  BY <1>10, <1>11 DEF MatrixInv

\* A step of a load: where APP is, and a picture that fits there.
LEMMA LoadStep ==
  ASSUME MatrixInv, UNCHANGED <<cfg, bootCore, task, btn, mxPast>>, NEW at \in Loading, appTask' = [appTask EXCEPT !.at = at],
         mx' \in MxStates, led' \in Leds, mx'.mode = "loading", mx'.enabled = mx.enabled, mx'.preview = mx.preview,
         ~mx.enabled => led'.shown = {},
         \A p \in led'.rows \cup led'.shown : p \in led.rows \cup led.shown \/ p[1] = "bar",
         at # "clears" => \A p \in led'.rows \cup led'.shown : p[1] = "bar"
  PROVE  MatrixInv'
<1>1. MxTypeOK /\ ButtonsTold /\ CoreFits(mx, led)
  BY MxParts
<1>2. appTask' \in AppTasks /\ appTask'.at = at /\ appTask'.id = appTask.id
  BY <1>1 DEF MxTypeOK, AppTasks
<1>3. LoadFits(mx, led)'
  BY <1>2 DEF LoadFits, Loading
<1>4. DarkFits(mx, led)' /\ RepeatFits(mx)'
  BY DEF DarkFits, RepeatFits
<1>5. CoreFits(mx, led)'
  <2>1. \A p \in led'.rows \cup led'.shown : p[1] = "core" => p \in led.rows \cup led.shown
    OBVIOUS
  <2>2. \A p \in led'.rows \cup led'.shown : p[1] = "core" => p[2] = appTask.id /\ Owned(mx)
    BY <1>1, <2>1 DEF CoreFits
  <2>3. Owned(mx) => Owned(mx)'
    BY DEF Owned
  <2> QED
    BY <1>2, <2>2, <2>3 DEF CoreFits, core_owns_matrix
<1>6. RunFits(mx)'
  BY <1>2 DEF RunFits, Loading
<1>7. Fits(mx, led)'
  BY <1>3, <1>4, <1>5, <1>6 DEF Fits
<1>8. MxTypeOK' /\ ButtonsTold'
  BY <1>1, <1>2, ToldKept DEF MxTypeOK
<1> QED
  BY <1>7, <1>8 DEF MatrixInv

\* From here no frame is drawn.
LEMMA StepModeLoading == MatrixInv /\ ModeLoading => MatrixInv'
<1> SUFFICES ASSUME MatrixInv, ModeLoading PROVE MatrixInv'
  OBVIOUS
<1>1. mx' = [mx EXCEPT !.mode = "loading"] /\ appTask' = [appTask EXCEPT !.at = "clears"]
      /\ UNCHANGED <<cfg, bootCore, led, task, btn, mxPast>>
  BY DEF ModeLoading, loading
<1>2. mx \in MxStates /\ led \in Leds /\ DarkFits(mx, led)
  BY MxParts
<1>3. mx' \in MxStates /\ mx'.mode = "loading" /\ mx'.enabled = mx.enabled /\ mx'.preview = mx.preview
  BY <1>1, <1>2 DEF MxStates, MxModes
<1>4. "clears" \in Loading
  BY DEF Loading
<1>5. ~mx.enabled => led'.shown = {}
  BY <1>1, <1>2 DEF DarkFits
<1> QED
  BY <1>1, <1>2, <1>3, <1>4, <1>5, LoadStep

\* Dark.
LEMMA StepConfigureStart == MatrixInv /\ matrix_on_configure_start => MatrixInv'
<1> SUFFICES ASSUME MatrixInv, matrix_on_configure_start PROVE MatrixInv'
  OBVIOUS
<1>1. mx' = mx /\ led' = Dark /\ appTask' = [appTask EXCEPT !.at = "flushes"] /\ appTask.at = "clears"
      /\ UNCHANGED <<cfg, bootCore, task, btn, mxPast>>
  BY DEF matrix_on_configure_start
<1>2. mx \in MxStates /\ LoadFits(mx, led) /\ MxTypeOK
  BY MxParts
<1>3. mx.mode = "loading" /\ "flushes" \in Loading
  BY <1>1, <1>2 DEF LoadFits, Loading
<1>4. led' \in Leds /\ led'.rows = {} /\ led'.shown = {}
  BY <1>1, <1>2, PicsType
<1> QED
  BY <1>1, <1>2, <1>3, <1>4, LoadStep

\* What the old core drew while its save was flushed is no longer heard.
LEMMA StepRxOff == MatrixInv /\ RxOff => MatrixInv'
<1> SUFFICES ASSUME MatrixInv, RxOff PROVE MatrixInv'
  OBVIOUS
<1>1. UNCHANGED <<mx, cfg, bootCore, led, task, btn, mxPast>> /\ appTask' = [appTask EXCEPT !.at = "sends"] /\ appTask.at = "flushes"
  BY DEF RxOff
<1>2. mx \in MxStates /\ led \in Leds /\ LoadFits(mx, led) /\ DarkFits(mx, led)
  BY MxParts
<1>3. mx.mode = "loading" /\ "sends" \in Loading /\ \A p \in led.rows \cup led.shown : p[1] = "bar"
  BY <1>1, <1>2 DEF LoadFits, Loading
<1>4. ~mx.enabled => led.shown = {}
  BY <1>2 DEF DarkFits
<1> QED
  BY <1>1, <1>2, <1>3, <1>4, LoadStep

\* The bar.
LEMMA StepProgress == MatrixInv /\ matrix_progress => MatrixInv'
<1> SUFFICES ASSUME MatrixInv, matrix_progress PROVE MatrixInv'
  OBVIOUS
<1>1. /\ UNCHANGED <<mx, cfg, bootCore, appTask, task, btn, mxPast>> /\ appTask.at = "sends"
      /\ led' = IF mx.enabled THEN show(pixel(led, "bar")) ELSE led
  BY DEF matrix_progress
<1>2. mx \in MxStates /\ led \in Leds /\ LoadFits(mx, led) /\ DarkFits(mx, led) /\ MxTypeOK /\ appTask \in AppTasks
  BY MxParts
<1>3. mx.mode = "loading" /\ "sends" \in Loading /\ \A p \in led.rows \cup led.shown : p[1] = "bar"
  BY <1>1, <1>2 DEF LoadFits, Loading
<1>4. Pic("bar") \in Pics /\ Pic("bar")[1] = "bar"
  BY <1>2, PicsType
<1>5. show(pixel(led, "bar")) \in Leds /\ \A p \in show(pixel(led, "bar")).rows \cup show(pixel(led, "bar")).shown : p \in led.rows \/ p = Pic("bar")
  <2> DEFINE l == pixel(led, "bar")
  <2>1. l \in Leds /\ l.rows = led.rows \cup {Pic("bar")}
    BY <1>2, <1>4 DEF pixel, Leds
  <2> HIDE DEF l
  <2>2. show(l) \in Leds /\ show(l).rows = l.rows /\ show(l).shown = l.rows
    BY <2>1 DEF show, Leds
  <2> QED
    BY <2>1, <2>2 DEF l
<1>6. led' \in Leds /\ (~mx.enabled => led'.shown = {}) /\ \A p \in led'.rows \cup led'.shown : p[1] = "bar"
  BY <1>1, <1>2, <1>3, <1>4, <1>5 DEF DarkFits
<1>7. appTask' = [appTask EXCEPT !.at = "sends"]
  BY <1>1, <1>2 DEF AppTasks
<1> QED
  BY <1>1, <1>2, <1>3, <1>6, <1>7, LoadStep

\* The new core has heard of no button.
LEMMA StepCoreStarts == MatrixInv /\ CoreStarts => MatrixInv'
<1> SUFFICES ASSUME MatrixInv, CoreStarts PROVE MatrixInv'
  OBVIOUS
<1> DEFINE k == appTask.id + 1
           carried == btn.prev \cup task.btns
<1>1. UNCHANGED <<mx, cfg, bootCore, led, task>> /\ appTask.at = "sends" /\ appTask' = [appTask EXCEPT !.at = "reads", !.id = k]
      /\ btn' = [btn EXCEPT !.heard = {}] /\ mxPast' = [mxPast EXCEPT !.carried = carried]
  BY DEF CoreStarts
<1>2. MxTypeOK /\ ButtonsTold /\ LoadFits(mx, led) /\ DarkFits(mx, led) /\ CoreFits(mx, led) /\ RepeatFits(mx)
      /\ mx \in MxStates /\ led \in Leds /\ appTask.id \in Nat /\ appTask \in AppTasks
  BY MxParts
<1>3. k \in Nat /\ carried \in SUBSET MxButtons
  BY <1>2 DEF MxTypeOK
<1> HIDE DEF k
<1>4. appTask' \in AppTasks /\ appTask'.at = "reads"
  BY <1>1, <1>2, <1>3 DEF AppTasks, Loading
<1>5. btn' \in [held : SUBSET MxButtons, prev : SUBSET MxButtons, heard : SUBSET MxButtons] /\ btn'.heard = {} /\ btn'.prev = btn.prev
  BY <1>1, <1>2 DEF MxTypeOK
<1> HIDE DEF carried
<1>6. mxPast' \in MxPasts /\ mxPast'.carried = carried
  BY <1>1, <1>2, <1>3 DEF MxTypeOK, MxPasts
<1>7. mx.mode = "loading" /\ \A p \in led.rows \cup led.shown : p[1] = "bar"
  BY <1>1, <1>2 DEF LoadFits, Loading
<1>8. LoadFits(mx, led)'
  BY <1>1, <1>4, <1>7 DEF LoadFits, Loading
<1>9. DarkFits(mx, led)' /\ RepeatFits(mx)'
  BY <1>1, <1>2 DEF DarkFits, RepeatFits
<1>10. CoreFits(mx, led)'
  BY <1>1, <1>7 DEF CoreFits, core_owns_matrix
<1>11. RunFits(mx)'
  BY <1>4 DEF RunFits
<1>12. Fits(mx, led)'
  BY <1>1, <1>2, <1>8, <1>9, <1>10, <1>11 DEF Fits
<1>13. ButtonsTold'
  BY <1>1, <1>2, <1>5, <1>6 DEF ButtonsTold, Told, carried
<1>14. MxTypeOK'
  BY <1>1, <1>2, <1>4, <1>5, <1>6 DEF MxTypeOK
<1> QED
  BY <1>12, <1>13, <1>14 DEF MatrixInv

\* The settings of the new core.
LEMMA StepSetConfig == MatrixInv /\ matrix_set_config => MatrixInv'
<1> SUFFICES ASSUME MatrixInv, matrix_set_config PROVE MatrixInv'
  OBVIOUS
<1>1. UNCHANGED <<mx, bootCore, led, task, btn, mxPast>> /\ appTask.at = "reads" /\ cfg' = appTask.next
      /\ appTask' = [appTask EXCEPT !.at = "ends"]
  BY DEF matrix_set_config
<1>2. MxTypeOK /\ ButtonsTold /\ LoadFits(mx, led) /\ DarkFits(mx, led)
      /\ mx \in MxStates /\ led \in Leds /\ appTask.next \in Settings /\ appTask \in AppTasks
  BY MxParts
<1>3. appTask' \in AppTasks /\ appTask'.at = "ends"
  BY <1>1, <1>2 DEF AppTasks, Loading
<1>4. mx.mode = "loading" /\ \A p \in led.rows \cup led.shown : p[1] = "bar"
  BY <1>1, <1>2 DEF LoadFits, Loading
<1>5. LoadFits(mx, led)'
  BY <1>1, <1>3, <1>4 DEF LoadFits, Loading
<1>6. DarkFits(mx, led)' /\ RepeatFits(mx)'
  BY <1>1, <1>2, <1>4 DEF DarkFits, RepeatFits
<1>7. CoreFits(mx, led)'
  BY <1>1, <1>4 DEF CoreFits, core_owns_matrix
<1>8. RunFits(mx)'
  BY <1>3 DEF RunFits
<1>9. Fits(mx, led)'
  BY <1>1, <1>2, <1>5, <1>6, <1>7, <1>8 DEF Fits
<1>10. MxTypeOK' /\ ButtonsTold'
  BY <1>1, <1>2, <1>3, ToldKept DEF MxTypeOK
<1> QED
  BY <1>9, <1>10 DEF MatrixInv

\* What the new core shows starts by its own settings.
LEMMA StepConfigureDone == MatrixInv /\ matrix_on_configure_done => MatrixInv'
<1> SUFFICES ASSUME MatrixInv, matrix_on_configure_done PROVE MatrixInv'
  OBVIOUS
<1> DEFINE m == after_load(mx)
           s == matrix_start(m, cfg.mode, cfg, cfg.boot)
<1>1. UNCHANGED <<cfg, task, btn>> /\ bootCore' = cfg.boot /\ mx' = s[1] /\ led' = s[2]
      /\ appTask' = [appTask EXCEPT !.at = "runs"] /\ mxPast' = [mxPast EXCEPT !.asked = "none"]
  BY DEF matrix_on_configure_done
<1>2. MxTypeOK /\ ButtonsTold /\ mx \in MxStates /\ cfg \in Settings /\ appTask \in AppTasks /\ mxPast \in MxPasts
  BY MxParts
<1>3. cfg.mode \in Modes /\ cfg.repeat \in Nat /\ cfg.frames \in Nat /\ (cfg.mode = "image" => cfg.frames > 0) /\ cfg.boot \in BOOLEAN
  BY <1>2, SettingsParts
<1>4. m \in MxStates /\ m.preview = "none"
  <2> DEFINE was_on == mxPast.saved
  <2>1. was_on \in BOOLEAN
    BY <1>2 DEF MxPasts
  <2>2. m = [mx EXCEPT !.enabled = was_on, !.preview = "none"]
    BY DEF after_load
  <2> HIDE DEF was_on, m
  <2> QED
    BY <1>2, <2>1, <2>2 DEF MxStates
<1>5. StartsBy(m, s, cfg.mode, cfg, cfg.boot)
  BY <1>2, <1>3, <1>4, StartFacts
<1> HIDE DEF m, s
<1>6. appTask' \in AppTasks /\ appTask'.at = "runs"
  BY <1>1, <1>2 DEF AppTasks
<1>7. mxPast' \in MxPasts /\ mxPast'.asked = "none" /\ mxPast'.carried = mxPast.carried
  BY <1>1, <1>2 DEF MxPasts
<1>8. LoadFits(mx, led)'
  BY <1>1, <1>5, <1>6 DEF LoadFits, Loading, StartsBy
<1>9. DarkFits(mx, led)'
  BY <1>1, <1>5 DEF DarkFits, StartsBy
<1>10. CoreFits(mx, led)'
  BY <1>1, <1>4, <1>5 DEF CoreFits, Owned, core_owns_matrix, StartsBy
<1>11. RepeatFits(mx)'
  BY <1>1, <1>3, <1>5 DEF RepeatFits, StartsBy
<1>12. RunFits(mx)'
  BY <1>1, <1>4, <1>5, <1>7 DEF RunFits, StartsBy, Shows
<1>13. mx' \in MxStates /\ led' \in Leds
  BY <1>1, <1>5 DEF StartsBy
<1>14. Fits(mx, led)'
  BY <1>8, <1>9, <1>10, <1>11, <1>12, <1>13 DEF Fits
<1>15. MxTypeOK' /\ ButtonsTold'
  BY <1>1, <1>2, <1>3, <1>6, <1>7, <1>13, ToldKept DEF MxTypeOK
<1> QED
  BY <1>14, <1>15 DEF MatrixInv

\* At the start the picture is that of the boot core.
LEMMA InitMatrix == MxInit => MatrixInv
<1> SUFFICES ASSUME MxInit PROVE MatrixInv
  OBVIOUS
<1> DEFINE m == [mode |-> "scroll", enabled |-> TRUE, preview |-> "none", passes |-> 0, repeat |-> 0, left |-> 0, image |-> 0]
           s == matrix_start_mode(m, "core", cfg, TRUE)
           n == [m EXCEPT !.mode = "scroll", !.passes = 0, !.repeat = 0, !.left = ScrollSteps]
<1>1. /\ cfg = [mode |-> "core", repeat |-> 0, then |-> "core", frames |-> 0, boot |-> TRUE]
      /\ bootCore = TRUE /\ mx = s[1] /\ led = s[2] /\ appTask = [at |-> "runs", next |-> cfg, id |-> 0]
      /\ task = [at |-> "sleeps", btns |-> {}, i |-> 0] /\ btn = [held |-> {}, prev |-> {}, heard |-> {}]
      /\ mxPast = [loads |-> 0, edits |-> 0, presses |-> 0, draws |-> 0, carried |-> {}, saved |-> TRUE, asked |-> "none"]
  BY DEF MxInit
<1>2. s = <<n, Dark>>
  BY DEF matrix_start_mode, Scroll
<1>3. m \in MxStates /\ m.enabled = TRUE /\ m.preview = "none"
  BY DEF MxStates, MxModes
<1> HIDE DEF m
<1>14. n \in MxStates /\ n.mode = "scroll" /\ n.passes = 0 /\ n.repeat = 0 /\ n.enabled /\ n.preview = "none"
  <2>1. "scroll" \in MxModes /\ ScrollSteps \in Nat
    BY MatrixAssumption DEF MxModes
  <2>2. n \in MxStates
    BY <1>3, <2>1 DEF MxStates
  <2>3. n.mode = "scroll" /\ n.passes = 0 /\ n.repeat = 0 /\ n.enabled = m.enabled /\ n.preview = m.preview
    BY <1>3 DEF MxStates
  <2> QED
    BY <1>3, <2>2, <2>3
<1>4. Dark \in Leds /\ Dark.rows = {} /\ Dark.shown = {}
  BY DEF Dark, Leds
<1> HIDE DEF n, m, s
<1>5. mx = n /\ led = Dark
  BY <1>1, <1>2
<1>6. cfg \in Settings /\ cfg.mode = "core" /\ cfg.repeat = 0
  BY <1>1 DEF Settings
<1>7. appTask \in AppTasks /\ appTask.at = "runs"
  BY <1>1, <1>6 DEF AppTasks
<1>8. mxPast \in MxPasts /\ mxPast.asked = "none" /\ mxPast.carried = {}
  BY <1>1 DEF MxPasts
<1>9. MxTypeOK
  BY <1>1, <1>4, <1>5, <1>6, <1>7, <1>8, <1>14 DEF MxTypeOK
<1>10. LoadFits(mx, led) /\ DarkFits(mx, led) /\ CoreFits(mx, led) /\ RepeatFits(mx)
  BY <1>4, <1>5, <1>7, <1>14 DEF LoadFits, DarkFits, CoreFits, RepeatFits, Loading, core_owns_matrix
<1>11. RunFits(mx)
  BY <1>1, <1>5, <1>6, <1>8, <1>14 DEF RunFits, Shows
<1>12. ButtonsTold
  BY <1>1 DEF ButtonsTold, Told
<1> QED
  BY <1>4, <1>5, <1>14, <1>9, <1>10, <1>11, <1>12 DEF MatrixInv, Fits

\* The invariant says what the run checks.
LEMMA MatrixSays == MatrixInv => MatrixRight
<1> SUFFICES ASSUME MatrixInv PROVE MatrixRight
  OBVIOUS
<1>1. /\ MxTypeOK /\ ButtonsTold /\ LoadFits(mx, led) /\ DarkFits(mx, led) /\ CoreFits(mx, led) /\ RepeatFits(mx) /\ RunFits(mx)
      /\ mx \in MxStates
  BY MxParts
<1>2. OnlyTheBar
  BY <1>1 DEF OnlyTheBar, LoadFits, Loading
<1>3. DarkWhenOff
  BY <1>1 DEF DarkWhenOff, DarkFits
<1>4. OnlyItsCore
  BY <1>1 DEF OnlyItsCore, CoreFits, Owned, Pic
<1>5. Repeated
  BY <1>1 DEF Repeated, RepeatFits
<1>6. ModeFits
  BY <1>1 DEF ModeFits, RunFits
<1>7. ButtonsHeard
  BY <1>1 DEF ButtonsHeard, ButtonsTold, Told
<1> QED
  BY <1>2, <1>3, <1>4, <1>5, <1>6, <1>7 DEF MatrixRight

\* What is on the matrix fits the mode, the mode fits the settings and what APP does, and
\* the buttons are told in order, in every step of MATRIX and of APP.
THEOREM MatrixInvariant == MxSpec => []MatrixInv
<1>1. MatrixInv /\ [MxNext]_mxVars => MatrixInv'
  <2> SUFFICES ASSUME MatrixInv, [MxNext]_mxVars PROVE MatrixInv'
    OBVIOUS
  <2>1. CASE UNCHANGED mxVars
    <3>1. MxTypeOK /\ ButtonsTold /\ Fits(mx, led)
      BY MxParts
    <3>2. Fits(mx, led)'
      BY <2>1, <3>1, FitsKept DEF mxVars
    <3> QED
      BY <2>1, <3>1, <3>2, ToldKept DEF mxVars, MatrixInv, MxTypeOK
  <2>2. CASE MxNext
    BY <2>2, StepFrame, StepReport, StepFrameEnds, StepPress, StepPixel, StepCtl, StepEdit, StepPreview, StepIcon,
       StepLoadBegins, StepModeLoading, StepConfigureStart, StepRxOff, StepProgress, StepCoreStarts, StepSetConfig,
       StepConfigureDone DEF MxNext
  <2> QED
    BY <2>1, <2>2
<1> QED
  BY <1>1, InitMatrix, PTL DEF MxSpec

\* The matrix is dark when it is off, shows a load's progress and only that, repeats as the
\* core says, and is the core's own only where its settings say so; the core hears of every
\* button, whatever MATRIX and APP do in between.
THEOREM MatrixIsRight == MxSpec => []MatrixRight
BY MatrixInvariant, MatrixSays, PTL
=============================================================================
