------------------------------ MODULE MCStorage ------------------------------
(***************************************************************************)
(* What is kept on the cards: the settings files, or who has the cards and *)
(* ends their transfers.  part picks one of the two, which share no state. *)
(***************************************************************************)
EXTENDS StateFile, MscMode

VARIABLE part  \* "file" or "msc"

MCSlot == {<<"setup", "tz">>, <<"matrix", "fx">>}

\* Lines of a file made by hand or by an older firmware: a kept value in its
\* section or in a foreign one, a foreign key.
Lines == {Header("setup"), Header("esp"), KeyLine("tz", 1), KeyLine("ssid", 1)}

TextsUpTo(lines, n) == UNION {[1 .. m -> lines] : m \in 0 .. n}

MCUserFile ==
  {NoFile,
   <<Header("setup"), Long, KeyLine("tz", 1)>>,
   <<Note("c"), Header("setup"), KeyLine("tz", 1), Blank, Header("esp"),
     KeyLine("ssid", 1)>>,
   <<Header("setup"), KeyLine("tz", 1), Header("setup"), KeyLine("tz", 0)>>}
  \cup TextsUpTo(Lines, 1) \cup {<<h, l>> : h \in {Header("setup"), Header("esp")}, l \in Lines}

\* A header that misses its bracket.
MCTypo == TextsUpTo(Lines \cup {Broken}, 3)

MCOne == {<<Header("setup"), KeyLine("tz", 1)>>}

FirstData == [s \in Sector |-> IF s = 0 THEN 0 ELSE 1]

-----------------------------------------------------------------------------
\* The file of a part that is not looked at.
NoFiles == kind = "core" /\ ini = NoFile

StorageInit == part \in {"file", "msc"} /\ Init /\ MscInit /\ (part # "file" => NoFiles)

InFile == part = "file" /\ UNCHANGED <<part, mscVars>>
InMsc  == part = "msc" /\ UNCHANGED <<part, vars>>
StorageNext == (InFile /\ Next) \/ (InMsc /\ MscNext)
storageVars == <<part, vars, mscVars>>

\* The loop of APP goes on and calls core_state_tick() and msc_tick(), where it does one
\* of these at a time; the 5 s of msc_tick() end.
Goes == \/ InFile /\ (Load \/ Tick \/ Update \/ ResetNew)
        \/ InMsc /\ (TickFlags \/ TickExpose \/ TickEjected)
StorageFair == WF_storageVars(Goes) /\ SF_storageVars(InMsc /\ TickReboot)

StorageSpec == StorageInit /\ [][StorageNext]_storageVars /\ StorageFair

\* The settings files alone, without fairness.
FileSpec == StorageInit /\ part = "file" /\ [][StorageNext]_storageVars

\* What was begun ends: a change gets into its file (core_state_tick()), an eject and a
\* second card that is missing end in a reboot (msc_tick()).
Begun == IF part = "file" THEN Unsaved ELSE ejected \/ failed
Ended == IF part = "file" THEN cur = known ELSE app = "boot"
StorageEnds == Begun ~> Ended
=============================================================================
