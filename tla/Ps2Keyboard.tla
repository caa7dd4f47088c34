---------------------------- MODULE Ps2Keyboard -----------------------------
(***************************************************************************)
(* The PS/2 keyboard of the core, made from the USB reports: core1 turns   *)
(* what changed into makes and breaks in two scan code sets, and an alarm  *)
(* (core0, in an interrupt) repeats the make of the last key in the XT     *)
(* set.  The two share kb_repeat_key and repeater with no lock.  A prefix  *)
(* byte is part of its key; the leds and delays the core sets are left out. *)
(***************************************************************************)
EXTENDS Integers, Sequences, FiniteSets, SequencesExt

CONSTANTS
  Mods,      \* the modifiers, in the order of their bits
  Keys,      \* the other keys, numbers
  Pause,     \* the key that is sent as a make and its break at once
  Unsent,    \* the keys beyond F24
  MaxKeyReports, MaxRepeats  \* bounds: reports, calls of the callback

None == 0

VARIABLES
  prev_rpt,        \* the report before: [mods, keys], its keys in two places
  todo,            \* the makes and breaks of the report that are still to be sent
  step,            \* where kb_send_key() is: "next", "xt", "repeat", "arm"
  kb_repeat_key,
  repeater,        \* the alarm to cancel, None when there is none
  alarms,          \* the alarms that wait
  irq,             \* the callback: [at, alarm, key]
  set2, xt,        \* the keys that are down for a core that hears set 2, XT
  late,            \* history: the keys a repeat was sent of after their break
  lost,            \* history: the alarms that no cancel can reach
  made,            \* the ids of alarms used so far
  reports, repeats

kbdVars == <<prev_rpt, todo, step, kb_repeat_key, repeater, alarms, irq, set2, xt, late, lost,
             made, reports, repeats>>
sent    == <<set2, xt, late>>
alarm   == <<kb_repeat_key, repeater, alarms, irq, lost, made, repeats>>

NoReport == [mods |-> {}, keys |-> <<None, None>>]

KbdInit ==
  /\ prev_rpt = NoReport /\ todo = <<>> /\ step = "next" /\ kb_repeat_key = None
  /\ repeater = None /\ alarms = {} /\ irq = [at |-> "idle", alarm |-> None, key |-> None]
  /\ set2 = {} /\ xt = {} /\ late = {} /\ lost = {} /\ made = 0 /\ reports = 0 /\ repeats = 0

-----------------------------------------------------------------------------
(* core1.                                                                  *)

Down(r) == r.mods \cup (Range(r.keys) \ {None})
Sent(r) == Down(r) \ ({Pause} \cup Unsent)
Event(k, m) == [key |-> k, make |-> m]

\* kb_usb_receive(): the modifiers by their bits, then per place the break of the
\* key that is gone from the report and the make of the one that is new in it.
\* Mutant: a key that only changed its place is released.
place_moved(old, new, i) ==
  (IF old.keys[i] \notin {None, new.keys[i]} THEN <<Event(old.keys[i], FALSE)>> ELSE <<>>) \o
  (IF new.keys[i] \notin {None} \cup Range(old.keys) THEN <<Event(new.keys[i], TRUE)>> ELSE <<>>)
place(old, new, i) ==
  (IF old.keys[i] \notin {None} \cup Range(new.keys) THEN <<Event(old.keys[i], FALSE)>> ELSE <<>>) \o
  (IF new.keys[i] \notin {None} \cup Range(old.keys) THEN <<Event(new.keys[i], TRUE)>> ELSE <<>>)

changed(old, new) ==
  FlattenSeq([i \in DOMAIN Mods |->
    IF (Mods[i] \in old.mods) # (Mods[i] \in new.mods)
    THEN <<Event(Mods[i], Mods[i] \in new.mods)>> ELSE <<>>])
  \o place(old, new, 1) \o place(old, new, 2)

Reports ==
  {r \in [mods : SUBSET Range(Mods), keys : [1 .. 2 -> Keys \cup {None}]] :
    r.keys[1] = r.keys[2] => r.keys[1] = None}

kb_usb_receive ==
  /\ todo = <<>> /\ step = "next" /\ reports < MaxKeyReports /\ reports' = reports + 1
  /\ \E r \in Reports :
       /\ r # prev_rpt /\ prev_rpt' = r
       /\ todo' = SelectSeq(changed(prev_rpt, r), LAMBDA e : e.key \notin Unsent \cup {Pause})
  /\ UNCHANGED <<step, sent, alarm>>

\* kb_send_key(): set 2 first.  A break takes the key out of the repeat before
\* the XT break is sent.
SendSet2 ==
  /\ todo # <<>> /\ step = "next" /\ step' = "xt"
  /\ LET e == Head(todo)
     IN /\ set2' = IF e.make THEN set2 \cup {e.key} ELSE set2 \ {e.key}
        /\ kb_repeat_key' = IF ~e.make /\ e.key = kb_repeat_key THEN None ELSE kb_repeat_key
  /\ UNCHANGED <<prev_rpt, todo, repeater, alarms, irq, xt, late, lost, made, reports, repeats>>

SendXt ==
  /\ step = "xt"
  /\ LET e == Head(todo)
     IN IF e.make THEN xt' = xt \cup {e.key} /\ step' = "repeat" /\ UNCHANGED todo
        ELSE xt' = xt \ {e.key} /\ step' = "next" /\ todo' = Tail(todo)
  /\ UNCHANGED <<prev_rpt, set2, late, alarm, reports>>

\* A make is the key to repeat; the alarm before it is cancelled.  One whose
\* callback runs may or may not stop.
Repeat ==
  /\ step = "repeat" /\ step' = "arm"
  /\ kb_repeat_key' = Head(todo).key
  /\ alarms' = alarms \ {repeater}
  /\ IF repeater # None /\ irq.alarm = repeater
     THEN \/ irq' = [irq EXCEPT !.alarm = None] /\ UNCHANGED lost
          \/ lost' = lost \cup {repeater} /\ UNCHANGED irq
     ELSE UNCHANGED <<irq, lost>>
  /\ UNCHANGED <<prev_rpt, todo, repeater, sent, made, reports, repeats>>

Arm ==
  /\ step = "arm" /\ step' = "next" /\ todo' = Tail(todo)
  /\ made' = made + 1 /\ repeater' = made + 1 /\ alarms' = alarms \cup {made + 1}
  /\ UNCHANGED <<prev_rpt, sent, kb_repeat_key, irq, lost, reports, repeats>>

-----------------------------------------------------------------------------
(* core0: repeat_callback() in the interrupt of the alarms, one at a time. *)

Fire ==
  /\ irq.at = "idle" /\ repeats < MaxRepeats /\ repeats' = repeats + 1
  /\ \E a \in alarms :
       /\ alarms' = alarms \ {a}
       /\ irq' = [at |-> IF kb_repeat_key # None THEN "send" ELSE "end", alarm |-> a,
                  key |-> kb_repeat_key]
  /\ UNCHANGED <<prev_rpt, todo, step, kb_repeat_key, repeater, sent, lost, made, reports>>

\* The key is read again for its code, or the first read serves: the build
\* decides.  Key 0 has the code 0, no key of the core.
Send ==
  /\ irq.at = "send"
  /\ \E k \in {irq.key, kb_repeat_key} :
       /\ xt' = IF k = None THEN xt ELSE xt \cup {k}
       /\ late' = IF k = irq.key /\ k \notin xt THEN late \cup {k} ELSE late
  /\ irq' = [at |-> "idle", alarm |-> None, key |-> None]
  /\ alarms' = IF irq.alarm = None THEN alarms ELSE alarms \cup {irq.alarm}
  /\ UNCHANGED <<prev_rpt, todo, step, kb_repeat_key, repeater, set2, lost, made, reports, repeats>>

\* No key: the alarm is over, and so is whatever repeater is by now.
End ==
  /\ irq.at = "end" /\ irq' = [at |-> "idle", alarm |-> None, key |-> None]
  /\ repeater' = None
  /\ lost' = IF repeater \in alarms THEN lost \cup {repeater} ELSE lost
  /\ UNCHANGED <<prev_rpt, todo, step, kb_repeat_key, alarms, sent, made, reports, repeats>>

\* A core load: the keyboard is set to its defaults.
kb_reset ==
  /\ kb_repeat_key # None /\ irq.at = "idle" /\ kb_repeat_key' = None
  /\ UNCHANGED <<prev_rpt, todo, step, repeater, alarms, irq, sent, lost, made, reports, repeats>>

KbdNext ==
  \/ kb_usb_receive \/ SendSet2 \/ SendXt \/ Repeat \/ Arm
  \/ Fire \/ Send \/ End \/ kb_reset

-----------------------------------------------------------------------------
(* Properties.                                                             *)

Quiet == todo = <<>> /\ step = "next"

\* A core that hears every code has the keys of the report down, in each set; in
\* the XT set a repeat that crossed the break of its key leaves it down.
StreamsRight ==
  Quiet =>
    /\ set2 = Sent(prev_rpt)
    /\ xt \ late = Sent(prev_rpt) \ late /\ Sent(prev_rpt) \subseteq xt

\* One alarm repeats, but for those that ran while they were cancelled or whose id
\* the end of another overwrote.
OneRepeats == Cardinality((alarms \cup ({irq.alarm} \ {None})) \ lost) <= 1

\* The key that repeats is held, and was the last to be pressed.
RepeatsHeld == Quiet /\ kb_repeat_key # None => kb_repeat_key \in Down(prev_rpt)

KeysRight == StreamsRight /\ OneRepeats /\ RepeatsHeld

\* No key stays down in the XT set after its release.
XtReleased == Quiet /\ irq.at = "idle" => xt \subseteq Down(prev_rpt)
=============================================================================
