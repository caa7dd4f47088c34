------------------------------ MODULE UsbPads ------------------------------
(***************************************************************************)
(* The USB pads: core1 mounts them, finds the driver of each in the table  *)
(* that APP loads from /drivers, or builds a default map, and puts the     *)
(* buttons of a report on one of the two joystick ports.  APP replaces the *)
(* table while core1 looks in it; hid_drivers_gen tells core1 to look      *)
(* again.  XInput pads go to the ports without a driver.                   *)
(***************************************************************************)
EXTENDS Integers, FiniteSets, FiniteSetsExt

CONSTANTS
  PadModels,   \* the pads there are, by vid and pid
  Mappable,    \* those whose report descriptor gives a default map
  OwnFile,     \* the driver file hid_driver_save() writes for a pad
  DriverFiles, \* the names in /drivers, numbers in the order of the directory
  HidIndex,    \* the indices of hid_info
  XPads,       \* the interfaces of XInput pads
  AutoMaps,    \* MAX_AUTO_MAPS
  MaxDrivers,  \* MAX_JOY_DRIVERS
  MaxBackups,  \* the others backup_drivers() renames at most
  MaxDriverOps, MaxPlugs, MaxPadReports  \* bounds

NoPad == "no pad"
NoFile == 0
NoDriver == [load |-> 0, file |-> NoFile]
NoDev == <<"none", 0>>
Ports == {1, 2}

VARIABLES
  drv_card,  \* what the driver files of the card are for; NoPad: no such file, or not valid
  drivers,   \* the published table: [load, of]
  gen,       \* hid_drivers_gen
  loader,    \* APP: [at, next], at "idle", "load", "second"
  info,      \* hid_info: [pad, driver, gen, map]
  map_used,  \* auto_map_used
  core1,     \* [at, job, i, gen, driver, keys]
  ports,     \* usb_joy_slots: [dev, keys]
  xpads,     \* the XInput pads: "off", "on", "asleep" (a receiver without its pad)
  heard,     \* history: the buttons of the last report of a device that had a map
  padPast    \* history: [ops, plugs, reports]

padVars == <<drv_card, drivers, gen, loader, info, map_used, core1, ports, xpads, heard, padPast>>
appSide  == <<drv_card, drivers, gen, loader>>

Free == [pad |-> NoPad, driver |-> NoDriver, gen |-> 0, map |-> 0]
Idle1 == [at |-> "idle", job |-> "none", i |-> 0, gen |-> 0, driver |-> NoDriver, keys |-> {}]
Hid(i) == <<"hid", i>>
XIn(x) == <<"xinput", x>>
Devices == {Hid(i) : i \in HidIndex} \cup {XIn(x) : x \in XPads}

ASSUME PadsAssumption ==
  /\ NoPad \notin PadModels /\ Mappable \subseteq PadModels
  /\ DriverFiles \subseteq Nat \ {NoFile} /\ 1 \in DriverFiles /\ OwnFile \in [PadModels -> DriverFiles]
  /\ HidIndex \subseteq Nat /\ AutoMaps \in Nat /\ MaxDrivers \in Nat /\ MaxBackups \in Nat

PadsInit ==
  /\ drv_card \in {[f \in DriverFiles |-> IF f = 1 THEN p ELSE NoPad] : p \in PadModels \cup {NoPad}}
  /\ drivers = [load |-> 0, of |-> [f \in DriverFiles |-> NoPad]] /\ gen = 0
  /\ loader = [at |-> "load", next |-> drv_card] /\ info = [i \in HidIndex |-> Free] /\ map_used = {}
  /\ core1 = Idle1 /\ ports = [p \in Ports |-> [dev |-> NoDev, keys |-> {}]]
  /\ xpads = [x \in XPads |-> "off"] /\ heard = [d \in Devices |-> {}]
  /\ padPast = [ops |-> 0, plugs |-> 0, reports |-> 0]

-----------------------------------------------------------------------------
(* APP.                                                                    *)

\* hid_driver_load() of each: the files that are valid, as many as are allowed.
hid_driver_load(card) ==
  [f \in DriverFiles |->
     IF Cardinality({g \in DriverFiles : g <= f /\ card[g] # NoPad}) > MaxDrivers THEN NoPad
     ELSE card[f]]

\* backup_drivers(): up to four others of the pad are renamed, each may fail.
backup_drivers(p, keep, failed) ==
  LET others == {f \in DriverFiles \ {keep} : drv_card[f] = p}
      first  == {f \in others : Cardinality({g \in others : g < f}) < MaxBackups}
  IN [f \in DriverFiles |-> IF f \in first \ failed THEN NoPad ELSE drv_card[f]]

\* hid_driver_forget(), hid_driver_save(): a file that cannot be written whole is
\* left truncated and nothing is loaded.
hid_driver_forget ==
  \E p \in PadModels, failed \in SUBSET DriverFiles :
    /\ drv_card' = backup_drivers(p, NoFile, failed)
    /\ loader' = [at |-> "load", next |-> drv_card']
hid_driver_save ==
  \E p \in PadModels, failed \in SUBSET DriverFiles, ok \in BOOLEAN :
    /\ drv_card' = [backup_drivers(p, OwnFile[p], failed) EXCEPT ![OwnFile[p]] = IF ok THEN p ELSE NoPad]
    /\ loader' = IF ok THEN [at |-> "load", next |-> drv_card'] ELSE loader

DriverOp ==
  /\ loader.at = "idle" /\ padPast.ops < MaxDriverOps /\ padPast' = [padPast EXCEPT !.ops = @ + 1]
  /\ hid_driver_forget \/ hid_driver_save
  /\ UNCHANGED <<drivers, gen, info, map_used, core1, ports, xpads, heard>>

\* hid_drivers_load(): the table first, then its generation.
\* Mutant: the other way round.
table_first_not == FALSE
table_first == TRUE

Publish(now) ==
  IF now THEN drivers' = [load |-> drivers.load + 1, of |-> hid_driver_load(loader.next)] /\ UNCHANGED gen
  ELSE gen' = gen + 1 /\ UNCHANGED drivers

hid_drivers_load ==
  /\ \/ loader.at = "load" /\ Publish(table_first) /\ loader' = [loader EXCEPT !.at = "second"]
     \/ loader.at = "second" /\ Publish(~table_first) /\ loader' = [loader EXCEPT !.at = "idle"]
     \/ loader.at = "load" /\ loader' = [loader EXCEPT !.at = "idle"] /\ UNCHANGED <<drivers, gen>> \* no memory
  /\ UNCHANGED <<drv_card, info, map_used, core1, ports, xpads, heard, padPast>>

-----------------------------------------------------------------------------
(* core1: one callback of the USB host at a time.                          *)

hid_driver_find(p) ==
  LET of == {f \in DriverFiles : drivers.of[f] = p}
  IN IF of = {} THEN NoDriver ELSE [load |-> drivers.load, file |-> Min(of)]

\* usb_joy_slots_set(): the port it has, else the first free one, else none.
usb_joy_slots_set(d, k) ==
  LET mine == {p \in Ports : ports[p].dev = d}
      free == {p \in Ports : ports[p].dev = NoDev}
  IN IF mine \cup free = {} THEN ports
     ELSE [ports EXCEPT ![IF mine # {} THEN Min(mine) ELSE Min(free)] = [dev |-> d, keys |-> k]]
usb_joy_slots_remove(d) ==
  [p \in Ports |-> IF ports[p].dev = d THEN [dev |-> NoDev, keys |-> {}] ELSE ports[p]]

\* auto_map_build(): the first default map that is free.
auto_map_build(p) ==
  LET free == 1 .. AutoMaps \ map_used IN IF p \in Mappable /\ free # {} THEN Min(free) ELSE 0

\* tuh_hid_mount_cb(): the pad is known, then looked up, then complete.
tuh_hid_mount_cb ==
  /\ core1 = Idle1 /\ padPast.plugs < MaxPlugs /\ padPast' = [padPast EXCEPT !.plugs = @ + 1]
  /\ \E i \in HidIndex, p \in PadModels :
       /\ info[i].pad = NoPad
       /\ info' = [info EXCEPT ![i].pad = p, ![i].driver = NoDriver, ![i].map = 0]
       /\ core1' = [Idle1 EXCEPT !.at = "find", !.job = "mount", !.i = i, !.gen = gen]
       /\ heard' = [heard EXCEPT ![Hid(i)] = {}]
  /\ UNCHANGED <<appSide, map_used, ports, xpads>>

Find ==
  /\ core1.at = "find"
  /\ core1' = [core1 EXCEPT !.at = core1.job, !.driver = hid_driver_find(info[core1.i].pad)]
  /\ UNCHANGED <<appSide, info, map_used, ports, xpads, heard, padPast>>

Mounted ==
  /\ core1.at = "mount" /\ core1' = Idle1
  /\ LET i   == core1.i
         map == auto_map_build(info[i].pad)
     IN /\ info' = [info EXCEPT ![i] = [@ EXCEPT !.driver = core1.driver, !.gen = core1.gen, !.map = map]]
        /\ map_used' = map_used \cup ({map} \ {0})
        /\ ports' = IF core1.driver # NoDriver \/ map # 0 THEN usb_joy_slots_set(Hid(i), {}) ELSE ports
  /\ UNCHANGED <<appSide, xpads, heard, padPast>>

\* Mutant: the default map is not given back.
freed_not(i) == map_used
freed(i) == map_used \ {info[i].map}

tuh_hid_umount_cb ==
  /\ core1 = Idle1
  /\ \E i \in HidIndex :
       /\ info[i].pad # NoPad
       /\ info' = [info EXCEPT ![i] = [@ EXCEPT !.pad = NoPad, !.driver = NoDriver, !.map = 0]]
       /\ map_used' = freed(i) /\ ports' = usb_joy_slots_remove(Hid(i))
  /\ UNCHANGED <<appSide, core1, xpads, heard, padPast>>

\* The buttons of a report go to the port of the pad.
MapReport(i, driver, k) ==
  IF driver # NoDriver \/ info[i].map # 0
  THEN ports' = usb_joy_slots_set(Hid(i), k) /\ heard' = [heard EXCEPT ![Hid(i)] = k]
  ELSE UNCHANGED <<ports, heard>>

\* process_joy_report(): one of another id (a battery) maps nothing.
process_joy_report ==
  /\ core1 = Idle1 /\ padPast.reports < MaxPadReports
  /\ padPast' = [padPast EXCEPT !.reports = @ + 1]
  /\ \E i \in HidIndex, k \in {{}, {"a"}} :
       /\ info[i].pad # NoPad
       /\ IF info[i].gen # gen
          THEN /\ core1' = [Idle1 EXCEPT !.at = "find", !.job = "report", !.i = i, !.gen = gen, !.keys = k]
               /\ UNCHANGED <<ports, heard>>
          ELSE MapReport(i, info[i].driver, k) /\ UNCHANGED core1
  /\ UNCHANGED <<appSide, info, map_used, xpads>>

LookedAgain ==
  /\ core1.at = "report" /\ core1' = Idle1
  /\ info' = [info EXCEPT ![core1.i] = [@ EXCEPT !.driver = core1.driver, !.gen = core1.gen]]
  /\ MapReport(core1.i, core1.driver, core1.keys)
  /\ UNCHANGED <<appSide, map_used, xpads, padPast>>

\* XInput: a receiver is mounted before its pad is there.
tuh_xinput_mount_cb ==
  /\ core1 = Idle1 /\ padPast.plugs < MaxPlugs /\ padPast' = [padPast EXCEPT !.plugs = @ + 1]
  /\ \E x \in XPads, connected \in BOOLEAN :
       /\ xpads[x] = "off" /\ xpads' = [xpads EXCEPT ![x] = IF connected THEN "on" ELSE "asleep"]
       /\ ports' = IF connected THEN usb_joy_slots_set(XIn(x), {}) ELSE ports
       /\ heard' = [heard EXCEPT ![XIn(x)] = {}]
  /\ UNCHANGED <<appSide, info, map_used, core1>>
tuh_xinput_report_received_cb ==
  /\ core1 = Idle1 /\ padPast.reports < MaxPadReports
  /\ padPast' = [padPast EXCEPT !.reports = @ + 1]
  /\ \E x \in XPads, connected \in BOOLEAN, k \in {{}, {"a"}} :
       /\ xpads[x] # "off" /\ xpads' = [xpads EXCEPT ![x] = IF connected THEN "on" ELSE "asleep"]
       /\ ports' = IF connected THEN usb_joy_slots_set(XIn(x), k) ELSE usb_joy_slots_remove(XIn(x))
       /\ heard' = [heard EXCEPT ![XIn(x)] = IF connected THEN k ELSE {}]
  /\ UNCHANGED <<appSide, info, map_used, core1>>
tuh_xinput_umount_cb ==
  /\ core1 = Idle1
  /\ \E x \in XPads :
       /\ xpads[x] # "off" /\ xpads' = [xpads EXCEPT ![x] = "off"]
       /\ ports' = usb_joy_slots_remove(XIn(x))
  /\ UNCHANGED <<appSide, info, map_used, core1, heard, padPast>>

PadsNext ==
  \/ DriverOp \/ hid_drivers_load
  \/ tuh_hid_mount_cb \/ Find \/ Mounted \/ tuh_hid_umount_cb \/ process_joy_report \/ LookedAgain
  \/ tuh_xinput_mount_cb \/ tuh_xinput_report_received_cb \/ tuh_xinput_umount_cb
PadsSpec == PadsInit /\ [][PadsNext]_padVars

-----------------------------------------------------------------------------
(* Properties.                                                             *)

\* A pad that has the generation of the table has the driver of the table, unless
\* APP is between the two.
DriverFresh ==
  loader.at # "second" =>
    \A i \in HidIndex :
      info[i].pad # NoPad /\ info[i].gen = gen /\ ~(core1.i = i /\ core1.at # "idle") =>
        info[i].driver = hid_driver_find(info[i].pad)

\* Between two callbacks a pad has one port at most, only pads that are there
\* have one, and no two pads share a default map or keep one that is unused.
PortsRight ==
  core1 = Idle1 =>
    /\ \A p, q \in Ports : ports[p].dev = ports[q].dev /\ p # q => ports[p].dev = NoDev
    /\ \A i \in HidIndex : info[i].pad = NoPad => \A p \in Ports : ports[p].dev # Hid(i)
    /\ \A x \in XPads : xpads[x] # "on" => \A p \in Ports : ports[p].dev # XIn(x)
    /\ map_used = {info[i].map : i \in HidIndex} \ {0}
    /\ \A i, j \in HidIndex : info[i].map = info[j].map /\ i # j => info[i].map = 0

\* A port shows the buttons its pad last reported.
ButtonsShown ==
  core1 = Idle1 => \A p \in Ports : ports[p].dev # NoDev => ports[p].keys = heard[ports[p].dev]

PadsRight == DriverFresh /\ PortsRight /\ ButtonsShown

\* A button that is held when its pad loses its last map stays held.
NothingStuck ==
  core1 = Idle1 => \A i \in HidIndex, p \in Ports :
    ports[p].dev = Hid(i) /\ info[i].driver = NoDriver /\ info[i].map = 0 => ports[p].keys = {}
=============================================================================
