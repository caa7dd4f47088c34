------------------------------ MODULE MscMode ------------------------------
(***************************************************************************)
(* Who uses the SD cards: FatFs for the firmware (storage.c) in the APP    *)
(* task, or the PC in the mass storage mode (msc.c), whose callbacks run   *)
(* in the USBD task.  The mode is asked for by a reboot and ends with one, *)
(* and the cards stay powered over it.                                     *)
(*                                                                         *)
(* Both tasks are pinned to core 0 and USBD is above APP: a callback is    *)
(* one step, while APP can be interrupted anywhere, so msc_tick() is three *)
(* steps, one for each look at the flags of USBD.                          *)
(***************************************************************************)
EXTENDS SdCard, FiniteSets

CONSTANTS
  MscCards,   \* the cards a user gives to the PC: subset of {1, 2}
  First       \* what the sectors hold at first

ASSUME MscAssumption == MscCards \subseteq {1, 2} /\ First \in [Sector -> Datum]

VARIABLES
  sd,          \* the two cards
  app,         \* where APP is
  has_sd,
  scratch,     \* the request kept over a reboot, 0 for none
  expose_msc, card, failed,         \* written by APP
  unit_ready, ejected, host_gone,   \* written by USBD
  usbd,        \* "free", or in the callback of a 1200 baud touch
  why,         \* history: the reboot it starts from, "power" once it has started
  right        \* the last transfer of sectors was right

mscFlags == <<expose_msc, card, failed, unit_ready, ejected, host_gone>>
mscVars  == <<sd, app, has_sd, scratch, mscFlags, usbd, why, right>>

Reboots == {"power", "halt", "menu", "bootsel", "hang", "msc", "eject", "eject2", "failed"}

MscTypeOK ==
  /\ sd \in [{1, 2} -> CardType]
  /\ app \in {"boot", "loop", "expose", "ejected", "run"}
  /\ has_sd \in BOOLEAN /\ right \in BOOLEAN
  /\ scratch \in {0} \cup MscCards /\ card \in {1, 2}
  /\ {expose_msc, failed, unit_ready, ejected, host_gone} \subseteq BOOLEAN
  /\ usbd \in {"free", "touch"} /\ why \in Reboots

MscInit ==
  /\ sd = [i \in {1, 2} |-> NewCard(i = 1, First)]
  /\ app = "boot" /\ has_sd = FALSE /\ scratch = 0
  /\ expose_msc = FALSE /\ card = 1 /\ failed = FALSE
  /\ unit_ready = FALSE /\ ejected = FALSE /\ host_gone = FALSE
  /\ usbd = "free" /\ why = "power" /\ right = TRUE

\* What a reboot of the MCU leaves of a driver and its card.
Restarted(c) == [c EXCEPT !.usable = FALSE, !.state = "idle", !.cur = 0, !.held = 0]

Reboot(w, cards) ==
  /\ sd' = [i \in {1, 2} |-> Restarted(cards[i])]
  /\ app' = "boot" /\ why' = w /\ usbd' = "free" /\ has_sd' = FALSE
  /\ expose_msc' = FALSE /\ card' = 1 /\ failed' = FALSE
  /\ unit_ready' = FALSE /\ ejected' = FALSE /\ host_gone' = FALSE

Ranges == {r \in Sector \X (1 .. MaxCount) : r[1] + r[2] - 1 \in Sector}

\* What goes wrong in a call: at most one thing, or also the end of the transfer
\* that the first one broke; the block it happens at.
CardFaults == {f \in SUBSET Fault : Cardinality(f) <= 1} \cup {{"data", "end"}}
Mishaps(n) == {m \in CardFaults \X (1 .. n) : m[1] \cap {"data", "busy"} = {} => m[2] = 1}

RightRead(c, r, s, n) == r.ok => r.got = [i \in 1 .. n |-> c.data[s + i - 1]]
RightWrite(c, r, s, vals) ==
  \A t \in Sector :
    LET meant == IF t \in s .. s + Len(vals) - 1 THEN vals[t - s + 1] ELSE c.data[t]
    IN r.c.data[t] = meant \/ (~r.ok /\ r.c.data[t] = c.data[t])

-----------------------------------------------------------------------------
(* The start: storage_begin(), msc_check_boot(), the boot core, msc_start(). *)

\* Without a card there is no boot core: halt(), which reboots after a while.
NoCard ==
  /\ app = "boot"
  /\ Reboot("halt", [sd EXCEPT ![1] = sd_card_begin(@, {"command"}).c])
  /\ scratch' = 0 /\ UNCHANGED right

\* The boot core is read with multiple sector transfers; one stays open.
LoadedFrom(c, r) == sd_card_read(sd_card_begin(c, {}).c, r[1], r[2], {}, 1).c

SetupNormal ==
  /\ app = "boot" /\ scratch = 0
  /\ \E r \in Ranges : sd' = [sd EXCEPT ![1] = LoadedFrom(@, r)]
  /\ has_sd' = TRUE /\ app' = "loop" /\ why' = "power"
  /\ UNCHANGED <<scratch, mscFlags, usbd, right>>

\* The second card is set up, or the screen says that there is none.
msc_start ==
  /\ app = "boot" /\ scratch # 0
  /\ scratch' = 0 /\ card' = scratch
  /\ \E r \in Ranges, f \in SUBSET {"command", "data"} :
       LET boot  == LoadedFrom(sd[1], r)
           there == sd_card_begin(sd[2], f)
           sizes == read_register(IF scratch = 2 THEN there.c ELSE boot, f)
       IN /\ failed' = (scratch = 2 /\ ~there.ok)
          /\ unit_ready' = ~failed'
          /\ sd' = IF scratch = 1 THEN [sd EXCEPT ![1] = sizes.c]
                   ELSE [sd EXCEPT ![1] = boot,
                                   ![2] = IF there.ok THEN sizes.c ELSE there.c]
  /\ has_sd' = TRUE /\ expose_msc' = TRUE /\ app' = "loop" /\ why' = "power"
  /\ UNCHANGED <<ejected, host_gone, usbd, right>>

-----------------------------------------------------------------------------
(* APP: msc_tick() and the rest of the loop.                               *)

\* The 5 s after an eject, or with no second card, may be over at any tick.
TickReboot ==
  /\ app = "loop" /\ (ejected \/ failed)
  /\ Reboot(IF failed THEN "failed" ELSE IF card = 2 THEN "eject2" ELSE "eject", sd)
  /\ UNCHANGED <<scratch, right>>

TickFlags ==
  /\ app = "loop" /\ ~(ejected /\ host_gone)
  /\ app' = "expose"
  /\ UNCHANGED <<sd, has_sd, scratch, mscFlags, usbd, why, right>>

TickExpose ==
  /\ app = "expose"
  /\ app' = IF expose_msc THEN "loop" ELSE "ejected"
  /\ UNCHANGED <<sd, has_sd, scratch, mscFlags, usbd, why, right>>

\* Mutant: msc_tick() does not look at an eject once more.
tick_ends_early == "run"
tick_ends == IF ejected THEN "loop" ELSE "run"

TickEjected ==
  /\ app = "ejected"
  /\ app' = tick_ends
  /\ UNCHANGED <<sd, has_sd, scratch, mscFlags, usbd, why, right>>

\* disk_read(), disk_write(), disk_ioctl() for FatFs.
Files ==
  /\ app = "run" /\ app' = "loop"
  /\ \/ \E r \in Ranges : \E m \in Mishaps(r[2]) :
            LET d == sd_card_read(sd[1], r[1], r[2], m[1], m[2])
            IN /\ sd' = [sd EXCEPT ![1] = d.c]
               /\ right' = RightRead(sd[1], d, r[1], r[2])
     \/ \E r \in Ranges : \E m \in Mishaps(r[2]), vals \in [1 .. r[2] -> Datum] :
            LET d == sd_card_write(sd[1], r[1], vals, m[1], m[2])
            IN /\ sd' = [sd EXCEPT ![1] = d.c]
               /\ right' = RightWrite(sd[1], d, r[1], vals)
     \/ \E f \in CardFaults : sd' = [sd EXCEPT ![1] = sd_card_sync(@, f).c] /\ UNCHANGED right
     \/ \E f \in CardFaults : sd' = [sd EXCEPT ![1] = read_register(@, f).c] /\ UNCHANGED right
  /\ UNCHANGED <<has_sd, scratch, mscFlags, usbd, why>>

\* Mutant: the reboot does not end the transfer.
sd1_sync_before_reboot_not(f) == sd[1]
sd1_sync_before_reboot(f) ==
  IF ~has_sd \/ expose_msc THEN sd[1] ELSE sd_card_sync(sd[1], f).c

\* A reboot the user asks for: the menu, the bootloader, the PC gets a card.
UserReboot ==
  /\ app = "run"
  /\ \E f \in SUBSET {"end"}, w \in {"menu", "bootsel", "msc"} :
       /\ Reboot(w, [sd EXCEPT ![1] = sd1_sync_before_reboot(f)])
       /\ scratch' \in IF w = "msc" THEN MscCards ELSE {0}
  /\ UNCHANGED right

-----------------------------------------------------------------------------
(* USBD: the callbacks.  The PC reads and writes a medium that is ready.   *)

Transferred(r, ok) ==
  /\ sd' = [sd EXCEPT ![card] = r.c] /\ right' = ok
  /\ UNCHANGED <<app, has_sd, scratch, mscFlags, usbd, why>>

tud_msc_read10_cb ==
  /\ expose_msc /\ unit_ready /\ usbd = "free"
  /\ \E r \in Ranges : \E m \in Mishaps(r[2]), g \in SUBSET {"command"} :
       LET d == IF card = 1 THEN sd_card_read(sd[1], r[1], r[2], m[1], m[2])
                ELSE sd2_read(sd[2], r[1], r[2], m[1], m[2], g)
       IN Transferred(d, RightRead(sd[card], d, r[1], r[2]))

tud_msc_write10_cb ==
  /\ expose_msc /\ unit_ready /\ usbd = "free"
  /\ \E r \in Ranges : \E m \in Mishaps(r[2]), g \in SUBSET {"command"} :
     \E vals \in [1 .. r[2] -> Datum] :
       LET d == IF card = 1 THEN sd_card_write(sd[1], r[1], vals, m[1], m[2])
                ELSE sd2_write(sd[2], r[1], vals, m[1], m[2], g)
       IN Transferred(d, RightWrite(sd[card], d, r[1], vals))

\* The PC has the status of a write.
tud_msc_write10_complete_cb ==
  /\ expose_msc /\ unit_ready /\ usbd = "free"
  /\ \E f \in SUBSET {"end"} : Transferred(sd_card_sync(sd[card], f), right)

\* The eject ends the transfer and hands the card back.
tud_msc_start_stop_cb ==
  /\ expose_msc /\ app # "boot" /\ usbd = "free"
  /\ expose_msc' = FALSE /\ unit_ready' = FALSE /\ ejected' = TRUE
  /\ \E f \in SUBSET {"end"} : sd' = [sd EXCEPT ![card] = sd_card_sync(@, f).c]
  /\ UNCHANGED <<app, has_sd, scratch, card, failed, host_gone, usbd, why, right>>

\* tud_umount_cb(), tud_suspend_cb().
HostGone ==
  /\ usbd = "free" /\ ejected /\ ~host_gone
  /\ host_gone' = TRUE
  /\ UNCHANGED <<sd, app, has_sd, scratch, expose_msc, card, failed, unit_ready,
                 ejected, usbd, why, right>>

\* The 1200 baud touch: APP reboots (UserReboot), or USBD itself after a second.
Touch ==
  /\ usbd = "free" /\ app # "boot" /\ usbd' = "touch"
  /\ UNCHANGED <<sd, app, has_sd, scratch, mscFlags, why, right>>
TouchTimeout ==
  /\ usbd = "touch" /\ Reboot("hang", sd)
  /\ UNCHANGED <<scratch, right>>

App1 == NoCard \/ SetupNormal \/ msc_start \/ TickReboot \/ TickFlags
        \/ TickExpose \/ TickEjected \/ Files \/ UserReboot
Usbd == tud_msc_read10_cb \/ tud_msc_write10_cb \/ tud_msc_write10_complete_cb
        \/ tud_msc_start_stop_cb \/ HostGone \/ Touch \/ TouchTimeout
MscNext == App1 \/ Usbd

MscSpec == MscInit /\ [][MscNext]_mscVars

-----------------------------------------------------------------------------
\* A transfer that reports success gave or stored exactly the sectors asked
\* for; a write that failed stored the new value or left the old one, and no
\* write touches a sector outside it (sd_card_read(), sd_card_write()).
SectorsRight == right

\* Between two calls the bus is taken and the card is in a transfer exactly when
\* the driver believes it, and no command ever went into an open transfer
\* (sd_card_sync() and the error paths of sd_card.c).
OneTransfer ==
  \A i \in {1, 2} : ~sd[i].clash /\ (app # "boot" => Agree(sd[i]))

\* When the machine restarts, the first card is in no transfer: the loader of
\* the boot core would meet the rest of it (storage.c:21).  Exempt are a card
\* that did not confirm the end, a hung APP, and the ways out of the mass
\* storage mode of the second card (see RebootsIdle).
CardIdle == sd[1].mode = "idle" \/ sd[1].lost
IdleAtReboot == app = "boot" => CardIdle \/ why \in {"hang", "eject2", "failed"}
RebootsIdle == app = "boot" /\ why # "hang" => CardIdle

\* The rest of the loop, which uses the files, never runs once the PC had the
\* card (msc_tick() and the eject in USBD).
LoopKeepsOut == app = "run" => ~expose_msc /\ ~ejected

\* An eject, and a second card that is missing, end in a reboot.
EjectEnds == (ejected \/ failed) ~> app = "boot"

\* The first card is in one transfer at most, and every sector that is read is the
\* one that was asked for (sd_card.c, msc.c).
CardRight == SectorsRight /\ OneTransfer

\* The mass storage mode has the card alone, and gives it back idle.
MscRight == IdleAtReboot /\ LoopKeepsOut

\* The card is read right in both of its uses.
CardAndMscRight == CardRight /\ MscRight
=============================================================================
