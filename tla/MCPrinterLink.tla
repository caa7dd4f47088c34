---------------------------- MODULE MCPrinterLink ----------------------------
(***************************************************************************)
(* Kinds of cores for the instances of PrinterLink.                        *)
(***************************************************************************)
EXTENDS PrinterLink

\* A core with the printer port and an old one without, neither with a save.
PlainCores == {[prints |-> TRUE, backup |-> FALSE],
               [prints |-> FALSE, backup |-> FALSE]}

\* The printing core also has its backup RAM file open.
SavingCores == {[prints |-> TRUE, backup |-> TRUE],
                [prints |-> FALSE, backup |-> FALSE]}

\* For liveness: a printing core follows one that also has its save.
PrinterCore == {[prints |-> TRUE, backup |-> TRUE]}
=============================================================================
