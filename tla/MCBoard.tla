------------------------------ MODULE MCBoard ------------------------------
(***************************************************************************)
(* The parts of the storage and of the board that share no state, checked  *)
(* one after another in one run: part picks which one is looked at.        *)
(***************************************************************************)
EXTENDS BackupSave, UkncSav, CoreEeprom, Rtc, Matrix, FtChip, CoreStart

VARIABLE part  \* "save", "sav", "volume", "eeprom", "rtc", "matrix", "effects", "ft" or "start"

\* Directories of one segment, and of two.
Ent(st, n, len) == [st |-> st, name |-> n, len |-> len]
Entries == {Ent("file", 0, 1), Ent("file", 1, 2), Ent("file", Starts, 1),
            Ent("empty", -2, 1), Ent("empty", -2, 3)}
Lists == {l \in SeqOf(Entries, 3) :
            \A i, j \in DOMAIN l : i # j /\ l[i].st = "file" => l[i].name # l[j].name}
Vols == {<<[base |-> 0, list |-> l]>> : l \in Lists}
        \cup {<<[base |-> 0, list |-> l], [base |-> 10, list |-> <<Ent("empty", -2, 6)>>]>> : l \in Lists}

\* Cores with each clock chip, with and without a bank of their own.
RtcCores == {[type |-> "msm", bank |-> 255], [type |-> "ds", bank |-> 1], [type |-> "mc", bank |-> 1],
             [type |-> "mc", bank |-> 7], [type |-> "mc", bank |-> 255], [type |-> "zx", bank |-> 1]}
BoardTime == [s |-> 9, d |-> 10, m |-> 2]

\* A text with its repeats, pictures with theirs, an effect, and bytes never written.
SomeMatrixCores ==
  {[mode |-> "scroll", text |-> TRUE, repeat |-> 2, then |-> "image", frames |-> 0, boot |-> FALSE],
   [mode |-> "image", text |-> FALSE, repeat |-> 2, then |-> "blank", frames |-> 2, boot |-> FALSE],
   [mode |-> "?", text |-> FALSE, repeat |-> 255, then |-> "?", frames |-> 255, boot |-> TRUE],
   [mode |-> "effect", text |-> TRUE, repeat |-> 0, then |-> "core", frames |-> 1, boot |-> FALSE]}
BothSpins == {-1, 1}

\* Screens that fit into the FIFO, and cores: with bursts and two ROMs, of which one begins
\* within a bank; an old one with a file of its own; one that answers but has no bursts.
SomePages == {<<"clear", "gradient", "bitmap", "text">>, <<"clear", "button", "toggle">>}
SomeStartCores ==
  {[bits |-> 4, caps |-> {"write", "ready"}, osd |-> FALSE, mhz |-> 24, file |-> 0, lock |-> 1,
    roms |-> <<[addr |-> 3, len |-> 7], [addr |-> 12, len |-> 2]>>],
   [bits |-> 3, caps |-> {}, osd |-> TRUE, mhz |-> 16, file |-> 5, lock |-> 2, roms |-> <<>>],
   [bits |-> 1, caps |-> {"bk"}, osd |-> FALSE, mhz |-> 16, file |-> 0, lock |-> 0, roms |-> <<[addr |-> 6, len |-> 5]>>]}

NoVolume == dir = <<>> /\ content = <<>> /\ template = <<>> /\ outcome = "none"

\* The EEPROM of the one core, when another part is looked at.
OneCore == core = CHOOSE k \in Core : TRUE

\* What is on the board besides its storage: the clock a core sees, the matrix and what
\* moves on it, the graphic chip, the start of a core and its text screen (rtc.c, matrix.c,
\* matrix_fx.c, ft812.c, bitstream.c, link.c, osd.c).
BoardRight ==
  CASE part = "rtc" -> RtcRight [] part = "matrix" -> MatrixRight [] part = "effects" -> FxRight
    [] part = "ft" -> FtRight [] part = "start" -> StartRight [] OTHER -> TRUE

storageVars == <<bkVars, ukncVars, rt11Vars, vars>>
boardVars == <<rtcVars, mxVars, fxVars, ftVars, stVars>>

BoardInit ==
  /\ part \in {"save", "sav", "volume", "eeprom", "rtc", "matrix", "effects", "ft", "start"}
  /\ BackupInit /\ UkncInit
  /\ IF part = "volume" THEN Rt11Init ELSE NoVolume
  /\ Init /\ (part # "eeprom" => OneCore)
  /\ RtcInit /\ (part # "rtc" => clk.core = CHOOSE k \in RtcCores : TRUE)
  /\ MxInit
  /\ IF part = "effects" THEN FxInit ELSE fb = {} /\ fx = CHOOSE e \in matrix_fx_init : TRUE
  /\ FtInit /\ StartInit

BoardNext ==
  /\ UNCHANGED part
  /\ \/ part = "save" /\ BackupNext /\ UNCHANGED <<ukncVars, rt11Vars, vars, boardVars>>
     \/ part = "sav" /\ UkncNext /\ UNCHANGED <<bkVars, rt11Vars, vars, boardVars>>
     \/ part = "volume" /\ Rt11Next /\ UNCHANGED <<bkVars, ukncVars, vars, boardVars>>
     \/ part = "eeprom" /\ Next /\ UNCHANGED <<bkVars, ukncVars, rt11Vars, boardVars>>
     \/ part = "rtc" /\ RtcNext /\ UNCHANGED <<storageVars, mxVars, fxVars, ftVars, stVars>>
     \/ part = "matrix" /\ MxNext /\ UNCHANGED <<storageVars, rtcVars, fxVars, ftVars, stVars>>
     \/ part = "effects" /\ FxNext /\ UNCHANGED <<storageVars, rtcVars, mxVars, ftVars, stVars>>
     \/ part = "ft" /\ FtNext /\ UNCHANGED <<storageVars, rtcVars, mxVars, fxVars, stVars>>
     \/ part = "start" /\ StartNext /\ UNCHANGED <<storageVars, rtcVars, mxVars, fxVars, ftVars>>

BoardSpec == BoardInit /\ [][BoardNext]_<<part, storageVars, boardVars>>
=============================================================================
