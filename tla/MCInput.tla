------------------------------ MODULE MCInput ------------------------------
(***************************************************************************)
(* The inputs of the board in one run: dev picks the way of a key through  *)
(* the tasks, the PS/2 keyboard it becomes, an on-board button, or the     *)
(* mouse.                                                                  *)
(***************************************************************************)
EXTENDS InputRouting, Ps2Keyboard, MousePointer

VARIABLE dev  \* "keys", "ps2", "button" or "mouse"

Rep(m, k) == [mod |-> m, key |-> k]
\* The hotkey of the OSD, its Esc alone, those of a switch and of a file item.
FourReports == {Up, Rep("menu", "esc"), Rep("none", "esc"), Rep("none", "sw"), Rep("none", "file")}
OneMod == <<11>>

SomeMoves == {-3, 1, 5}

Init ==
  /\ dev \in {"keys", "ps2", "button", "mouse"}
  /\ RouteInit /\ KbdInit
  /\ ButtonInit /\ (dev # "button" => btn = [press |-> "core", hold |-> "none", hold_ms |-> 0])
  /\ MouseInit /\ (dev # "mouse" => ft_screen.speed = 2 /\ ft_screen.cores)

Next ==
  /\ UNCHANGED dev
  /\ \/ dev = "keys" /\ RouteNext /\ UNCHANGED <<kbdVars, btnVars, mouseVars>>
     \/ dev = "ps2" /\ KbdNext /\ UNCHANGED <<routeVars, btnVars, mouseVars>>
     \/ dev = "button" /\ ButtonNext /\ UNCHANGED <<routeVars, kbdVars, mouseVars>>
     \/ dev = "mouse" /\ MouseNext /\ UNCHANGED <<routeVars, kbdVars, btnVars>>

Spec == Init /\ [][Next]_<<dev, routeVars, kbdVars, btnVars, mouseVars>>
=============================================================================
