------------------------------ MODULE UkncSav ------------------------------
(***************************************************************************)
(* "Run SAV" of the UKNC core (src/storage/uknc_sav.c): a disk with the    *)
(* chosen program is made beside the one in use and installed by renames,  *)
(* the disk before it kept as RT11OLD.DSK.  The power can go at any step.  *)
(*                                                                         *)
(* A file is what it holds: the program it was made for and whether it is  *)
(* whole.  FatFs does not lock files (FF_FS_LOCK 0): a slot that has one   *)
(* open goes on with the same file under its new name.                     *)
(*                                                                         *)
(* Below it the RT-11 volume of that disk (src/lib/common/rt11_volume.c):  *)
(* the SAV is added under a name the volume does not have, and STARTS.COM  *)
(* is written again with its start appended.  A segment of the directory   *)
(* is its first data block and its entries; an entry's block is the sum of *)
(* the lengths before it.  RAD50, dates and the text of STARTS.COM are     *)
(* left out; a block holds the name of the file it was written for.  A     *)
(* SAV's name is the number its digit makes.                               *)
(***************************************************************************)
EXTENDS Integers, Sequences, SequencesExt, FiniteSetsExt

CONSTANTS
  FloppySlots,  \* the img slots of the drives; 0 is FDD0
  Spellings,    \* how a slot can spell the media directory; "code" is the firmware's
  MaxSav        \* bound: disks made

ASSUME UkncAssumption ==
  0 \in FloppySlots /\ "code" \in Spellings /\ MaxSav \in Nat

Path == {"DISK", "OLD", "TMP"}
NoFile == [id |-> -1, whole |-> FALSE]

VARIABLES
  fat,        \* the directory: the file at each path
  held,       \* per slot the id of the file it has open, or -1
  spelled,    \* per slot how its directory is spelled
  making,     \* uknc_sav_run(): where it is
  has_old,
  saved,      \* the disks made so far
  before,     \* the disk that was in use when the last run began, or -1
  uknc_error

ukncVars == <<fat, held, spelled, making, has_old, saved, before, uknc_error>>

SavSteps == {"idle", "make", "eject", "unlink", "keep", "install", "back", "clean", "mount"}

UkncTypeOK ==
  /\ fat \in [Path -> [id : -1 .. MaxSav, whole : BOOLEAN]]
  /\ held \in [FloppySlots -> -1 .. MaxSav]
  /\ spelled \in [FloppySlots -> Spellings]
  /\ making \in SavSteps /\ has_old \in BOOLEAN /\ uknc_error \in BOOLEAN
  /\ saved \in 0 .. MaxSav /\ before \in -1 .. MaxSav

UkncInit ==
  /\ fat = [p \in Path |-> IF p = "DISK" THEN [id |-> 0, whole |-> TRUE] ELSE NoFile]
  /\ held = [s \in FloppySlots |-> -1] /\ spelled = [s \in FloppySlots |-> "code"]
  /\ making = "idle" /\ has_old = FALSE /\ saved = 0 /\ before = 0 /\ uknc_error = FALSE

exists(p) == fat[p] # NoFile

\* The user mounts a disk in a drive by the browser, or ejects it.
MountDisk ==
  /\ making = "idle"
  /\ \E s \in FloppySlots, n \in Spellings, p \in {"DISK", "OLD"} :
       /\ held' = [held EXCEPT ![s] = IF @ = -1 THEN fat[p].id ELSE -1]
       /\ spelled' = [spelled EXCEPT ![s] = n]
  /\ UNCHANGED <<fat, making, has_old, saved, before, uknc_error>>

Begin ==
  /\ making = "idle" /\ saved < MaxSav
  /\ making' = "make" /\ before' = fat["DISK"].id /\ saved' = saved + 1
  /\ uknc_error' = FALSE
  /\ UNCHANGED <<fat, held, spelled, has_old>>

\* Mutant: the disk is installed whatever became of it.
after_make_any(ok) == "eject"
after_make(ok) == IF ok THEN "eject" ELSE "clean"

\* make_disk(): the template is missing or bad, the copy or the program fails,
\* or the disk is whole when its file is closed.
make_disk ==
  /\ making = "make"
  /\ \/ /\ fat' = [fat EXCEPT !["TMP"] = [id |-> saved, whole |-> TRUE]]
        /\ making' = after_make(TRUE) /\ UNCHANGED uknc_error
     \/ /\ fat' \in {fat, [fat EXCEPT !["TMP"] = [id |-> saved, whole |-> FALSE]]}
        /\ making' = after_make(FALSE) /\ uknc_error' = TRUE
  /\ UNCHANGED <<held, spelled, has_old, saved, before>>

\* install_disk(): the slots with the disk give it up.
\* Mutant: only the first drive does.
eject_disk_first == {s \in {0} : spelled[s] = "code"}
eject_disk == {s \in FloppySlots : spelled[s] = "code"}

EjectDisk ==
  /\ making = "eject"
  /\ held' = [s \in FloppySlots |-> IF s \in eject_disk /\ held[s] = fat["DISK"].id
                                    THEN -1 ELSE held[s]]
  /\ has_old' = exists("DISK")
  /\ making' = IF ~has_old' THEN "install" ELSE IF exists("OLD") THEN "unlink" ELSE "keep"
  /\ UNCHANGED <<fat, spelled, saved, before, uknc_error>>

\* f_unlink(): its result is not looked at, the rename after it fails instead.
Unlink ==
  /\ making = "unlink" /\ making' = "keep"
  /\ fat' \in {fat, [fat EXCEPT !["OLD"] = NoFile]}
  /\ UNCHANGED <<held, spelled, has_old, saved, before, uknc_error>>

\* f_rename(), which never replaces a file, or its failure.
rename(from, to, then, else) ==
  \/ /\ exists(from) /\ ~exists(to)
     /\ fat' = [fat EXCEPT ![to] = fat[from], ![from] = NoFile]
     /\ making' = then /\ UNCHANGED uknc_error
  \/ UNCHANGED fat /\ making' = else /\ uknc_error' = TRUE

Keep ==
  /\ making = "keep" /\ rename("DISK", "OLD", "install", "clean")
  /\ UNCHANGED <<held, spelled, has_old, saved, before>>

else_back == IF has_old THEN "back" ELSE "clean"

Install ==
  /\ making = "install" /\ rename("TMP", "DISK", "mount", else_back)
  /\ UNCHANGED <<held, spelled, has_old, saved, before>>

Back ==
  /\ making = "back" /\ rename("OLD", "DISK", "clean", "clean")
  /\ UNCHANGED <<held, spelled, has_old, saved, before>>

\* uknc_sav_run(): the unfinished disk is removed, or the new one mounted.
Clean ==
  /\ making = "clean" /\ making' = "idle"
  /\ fat' \in {fat, [fat EXCEPT !["TMP"] = NoFile]}
  /\ UNCHANGED <<held, spelled, has_old, saved, before, uknc_error>>
MountNew ==
  /\ making = "mount" /\ making' = "idle"
  /\ held' \in {[held EXCEPT ![0] = fat["DISK"].id], [held EXCEPT ![0] = -1]}
  /\ spelled' = [spelled EXCEPT ![0] = "code"]
  /\ UNCHANGED <<fat, has_old, saved, before, uknc_error>>

\* The power goes and comes back: what was being written is partial.
PowerCut ==
  /\ making # "idle" /\ making' = "idle"
  /\ held' = [s \in FloppySlots |-> -1]
  /\ fat' = IF making = "make" THEN [fat EXCEPT !["TMP"] = [id |-> saved, whole |-> FALSE]] ELSE fat
  /\ UNCHANGED <<spelled, has_old, saved, before, uknc_error>>

UkncNext ==
  \/ MountDisk \/ Begin \/ make_disk \/ EjectDisk \/ Unlink \/ Keep \/ Install
  \/ Back \/ Clean \/ MountNew \/ PowerCut
UkncSpec == UkncInit /\ [][UkncNext]_ukncVars

-----------------------------------------------------------------------------
\* The disk in use before a run is never lost, whatever fails and whenever the
\* power goes, and neither name ever leads to a disk that is not whole
\* (install_disk(), make_disk()).
OldDiskKept ==
  /\ before # -1 => before \in {fat["DISK"].id, fat["OLD"].id}
  /\ \A p \in {"DISK", "OLD"} : exists(p) => fat[p].whole

\* No drive has a file open that is renamed (install_disk(), "no slot holds the
\* file before the rename").
NoneHeld ==
  making \in {"unlink", "keep", "install"} => \A s \in FloppySlots : held[s] # before \/ before = -1

\* The disk made from a .SAV comes in the place of the one before, or not at all
\* (uknc_sav.c).
SavRight == OldDiskKept /\ NoneHeld

-----------------------------------------------------------------------------
(* The RT-11 volume.                                                       *)

CONSTANTS
  Volumes,    \* directories of the template: sequences of segments
  SavSizes,   \* sizes of the SAV, in blocks
  Capacity,   \* entries of a segment, its end mark included
  MaxDigit    \* names tried with a digit

\* A segment is [base, list], an entry [st, name, len]; the SAVs are 0 .. MaxDigit,
\* 0 the name without a digit.
Starts == -1
Names  == -2 .. MaxDigit
Entry  == [st : {"file", "empty"}, name : Names, len : Nat]

ASSUME Rt11Assumption ==
  /\ Capacity \in Nat /\ MaxDigit \in Nat /\ SavSizes \subseteq Nat \ {0}
  /\ \A v \in Volumes : \A s \in DOMAIN v :
       v[s].base \in Nat /\ v[s].list \in Seq(Entry) /\ Len(v[s].list) < Capacity

VARIABLES
  dir,      \* the directory
  content,  \* per block, the name it was written for; a function on the blocks
  template, \* what they were before
  outcome   \* "none", "done" or why not

rt11Vars == <<dir, content, template, outcome>>

\* The directory as positions <<segment, entry>>, in the order of dir_walk().
Places(d) == UNION {{s} \X DOMAIN d[s].list : s \in DOMAIN d}
Before(p, q) == p[1] < q[1] \/ (p[1] = q[1] /\ p[2] < q[2])
At(d, p) == d[p[1]].list[p[2]]
Block(d, p) ==
  d[p[1]].base + FoldLeft(LAMBDA n, e : n + e.len, 0, SubSeq(d[p[1]].list, 1, p[2] - 1))
Blocks(d, p) == Block(d, p) .. Block(d, p) + At(d, p).len - 1

\* dir_walk(): the first of the places that a callback stops at, or none.
dir_walk(found) ==
  IF found = {} THEN <<>> ELSE CHOOSE p \in found : \A q \in found \ {p} : Before(p, q)

rt11_find(d, name) == dir_walk({p \in Places(d) : At(d, p).st = "file" /\ At(d, p).name = name})

\* rm_cb(): the entry becomes an empty area of its length.
removed(d, name) ==
  LET p == rt11_find(d, name)
  IN IF p = <<>> THEN d ELSE [d EXCEPT ![p[1]].list[p[2]].st = "empty"]

\* alloc_cb(): the rest of the area is an entry of its own, behind the file.
\* Mutant: the rest of the area is lost.
split_lost(list, i, e, rest) == [list EXCEPT ![i] = e]
split(list, i, e, rest) ==
  IF rest = 0 THEN [list EXCEPT ![i] = e]
  ELSE InsertAt([list EXCEPT ![i].len = rest], i, e)

\* rt11_alloc(): the place of the file in the new directory, or why there is none.
rt11_alloc(d, name, need) ==
  LET free == removed(d, name)
      p    == dir_walk({q \in Places(free) : At(free, q).st = "empty" /\ At(free, q).len >= need})
      rest == At(free, p).len - need
  IN IF p = <<>> THEN [dir |-> free, why |-> "disk full", at |-> <<>>]
     ELSE IF rest > 0 /\ Len(free[p[1]].list) + 2 > Capacity
     THEN [dir |-> free, why |-> "dir full", at |-> <<>>]
     ELSE [dir |-> [free EXCEPT ![p[1]].list =
                      split(@, p[2], [st |-> "file", name |-> name, len |-> need], rest)],
           why |-> "done", at |-> p]

\* rt11_put(): the blocks of the file, once it has its place.
rt11_put(r, data, name, need) ==
  IF r.at = <<>> THEN data
  ELSE [b \in DOMAIN data |->
          IF b \in Block(r.dir, r.at) .. Block(r.dir, r.at) + need - 1 THEN name ELSE data[b]]

\* rt11_pick_name(): never the name of a file the volume has.
\* Mutant: the name is not looked for.
rt11_pick_name_any(d) == 0
rt11_pick_name(d) ==
  LET free == {n \in 0 .. MaxDigit : rt11_find(d, n) = <<>>}
  IN IF free = {} THEN -2 ELSE Min(free)

\* The blocks of the new STARTS.COM: what it had, up to two, and its last line.
starts_sizes(d) == IF rt11_find(d, Starts) = <<>> THEN {1} ELSE 1 .. 3

rt11_build ==
  /\ outcome = "none"
  /\ \E size \in SavSizes, more \in starts_sizes(dir) :
       LET name == rt11_pick_name(dir)
           sav  == rt11_alloc(dir, name, size)
           text == rt11_put(sav, content, name, size)
           com  == rt11_alloc(sav.dir, Starts, more)
       IN IF name = -2 THEN outcome' = "name taken" /\ UNCHANGED <<dir, content>>
          ELSE IF sav.why # "done"
          THEN outcome' = sav.why /\ dir' = sav.dir /\ UNCHANGED content
          ELSE outcome' = com.why /\ dir' = com.dir
               /\ content' = rt11_put(com, text, Starts, more)
  /\ UNCHANGED template

\* Every block of a file holds its name.
WrittenVol(d) ==
  [b \in UNION {Blocks(d, p) : p \in Places(d)} |->
     LET p == CHOOSE q \in Places(d) : b \in Blocks(d, q)
     IN IF At(d, p).st = "file" THEN At(d, p).name ELSE -2]

Rt11Init ==
  /\ dir \in Volumes /\ template = dir /\ content = WrittenVol(dir) /\ outcome = "none"
Rt11Next == rt11_build
Rt11Spec == Rt11Init /\ [][Rt11Next]_rt11Vars

-----------------------------------------------------------------------------
\* A disk that was built has every file of the template but STARTS.COM where it
\* was, with what it held, the SAV under a name of its own, and the areas of a
\* segment still fill the same blocks, none twice (rt11_build()).
VolumeRight ==
  outcome = "done" =>
    /\ \A p \in Places(template) :
         At(template, p).st = "file" /\ At(template, p).name # Starts =>
           \E q \in Places(dir) : At(dir, q) = At(template, p)
                                  /\ Block(dir, q) = Block(template, p)
    /\ \A s \in DOMAIN dir :
         LET last(d) == <<s, Len(d[s].list)>>
         IN Len(dir[s].list) < Capacity /\
            (template[s].list # <<>> =>
              Block(dir, last(dir)) + At(dir, last(dir)).len
                = Block(template, last(template)) + At(template, last(template)).len)
    /\ \A p \in Places(dir) : At(dir, p).st = "file" =>
         \A b \in Blocks(dir, p) : content[b] = At(dir, p).name
    /\ Cardinality({p \in Places(dir) : At(dir, p).st = "file" /\ At(dir, p).name >= 0})
         = Cardinality({p \in Places(template) :
                          At(template, p).st = "file" /\ At(template, p).name >= 0}) + 1

\* The disk of a SAV is a whole volume with the SAV in it, and comes in the place of the one
\* before or not at all (uknc_sav.c, rt11_volume.c).
DiskRight == SavRight /\ VolumeRight
=============================================================================
