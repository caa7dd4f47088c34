---------------------------- MODULE MCFileMounter ----------------------------
(***************************************************************************)
(* Values for the instances of FileMounter.                                *)
(***************************************************************************)
EXTENDS FileMounter

\* Two sectors whose LBAs differ in both bytes: a mix of them is neither.
TwoSectors == {<<0, 0>>, <<1, 1>>}

New == {<<"new", 0, 0>>, <<"new", 1, 1>>}

Writable  == {[wp |-> FALSE, caps |-> FALSE]}
AnyMounts == Writable \cup [wp : {TRUE}, caps : BOOLEAN]
=============================================================================
