--------------------------------- MODULE Rtc ---------------------------------
(***************************************************************************)
(* The clock a core sees: the registers of its own clock chip (MSM6242B,   *)
(* DS1307, MC146818A, that of ZX-Evo) over the DS3231 of the board and the *)
(* EEPROM bank of the core (lib/rtc/rtc.c).  All of it runs on APP; what   *)
(* interleaves are the register writes of the core, the poll of the clock  *)
(* and the setting of the clock.  A time is [s, d, m], the other fields go *)
(* as these do; the nibbles of the MSM6242B are one register a field.      *)
(***************************************************************************)
EXTENDS Integers, FiniteSets

CONSTANTS
  ClockCores,  \* the cores: [type, bank]
  FirstTime,   \* what the board's clock shows first
  WrittenDays, \* the days a core or the user sets
  WrittenRegBs,\* what a core writes into register B
  MaxRtcWrites, MaxRtcLoads, MaxSets, MaxSeconds  \* bounds

\* A core names one of the chips and a bank; the board's clock shows a date when it is read
\* first (rtc_begin() sets one else); two digits are what a register takes.
ASSUME ClockAssumption ==
  /\ ClockCores \subseteq [type : {"msm", "ds", "mc", "zx"}, bank : 0 .. 255]
  /\ FirstTime \in [s : 0 .. 59, d : 1 .. 28, m : 1 .. 12]
  /\ WrittenDays \subseteq 0 .. 99
  /\ WrittenRegBs \subseteq {"bin", "bcd", "bin_set", "bcd_set"}

VARIABLES
  chip,   \* the DS3231; external
  fields, \* rtc_seconds, rtc_day, rtc_month
  clk,    \* [core, bcd, last, pending, regs]; last: rtc_last_write_*; regs: msm_regs
  eep,    \* per bank: [b, cell]: register B and a cell of the core's own
  seen,   \* the registers in the core: [time, b, cell]
  rtcPast \* history: [writes, loads, sets, seconds, want, broken, twin, fresh, wroteB]

rtcVars == <<chip, fields, clk, eep, seen, rtcPast>>

Msm(type) == type = "msm"
Ds(type)  == type = "ds"
Mc(type)  == type \in {"mc", "zx"}

Unwritten == "erased"
\* Register B: binary or BCD, and with SET, which stops the clock for a write.
dm(b)  == b \in {"bin", "bin_set"}
set(b) == b \in {"bin_set", "bcd_set"}
ModeOf(b) == IF dm(b) THEN "bin" ELSE "bcd"
MC_REG_B_DEFAULT == "bcd"
NoEepromBank == 255

Time == {"s", "d", "m"}
kg_datetime_valid(t) == t.s \in 0 .. 59 /\ t.m \in 1 .. 12 /\ t.d \in 1 .. (IF t.m = 2 THEN 28 ELSE 31)
kg_bin2bcd(v) == v + 6 * (v \div 10)
kg_bcd2bin(v) == v - 6 * (v \div 16)

\* rtc_get_eeprom_reg(): a bank of the chip, or the EEPROM file of the core.
rtc_get_eeprom_reg(e, bank, r) == IF bank = NoEepromBank THEN Unwritten ELSE e[bank][r]
rtc_set_eeprom_reg(e, bank, r, v) == IF bank = NoEepromBank THEN e ELSE [e EXCEPT ![bank][r] = v]

\* Register B of a bank: an erased one is the reset state of the chip.
OrDefault(b) == IF b = Unwritten THEN MC_REG_B_DEFAULT ELSE b
mc_reg(bank) == OrDefault(rtc_get_eeprom_reg(eep, bank, "b"))
mc_is_bcd(type, b) == type = "zx" \/ ~dm(b)

\* How the fields are sent to the core, and what the core writes; the MSM6242B has
\* decimal digits.
Sent(type, bcd, v) == IF Ds(type) \/ (Mc(type) /\ bcd) THEN kg_bin2bcd(v) ELSE v
Taken(type, bcd, v) == IF Ds(type) \/ (Mc(type) /\ bcd) THEN kg_bcd2bin(v) ELSE v
\* How the core itself takes them.
CoreBcd(type, b) == Ds(type) \/ (Mc(type) /\ mc_is_bcd(type, b))

TimeOf(f) == [s |-> f.s, d |-> f.d, m |-> f.m]
send_time(c, f) == [s |-> Sent(c.core.type, c.bcd, f.s), d |-> Sent(c.core.type, c.bcd, f.d), m |-> Sent(c.core.type, c.bcd, f.m)]

\* adjust(): a date that does not exist yet waits for the rest.
\* The mutant writes what is there.
adjust_always(f) == f
adjust(f) == IF kg_datetime_valid(f) THEN f ELSE chip

-----------------------------------------------------------------------------
\* read_all(): the data mode is the one of register B in the EEPROM.
read_all(c) ==
  [c EXCEPT !.bcd = CASE Ds(c.core.type) -> TRUE [] Mc(c.core.type) -> mc_is_bcd(c.core.type, mc_reg(c.core.bank)) [] OTHER -> @]

\* rtc_send_all(): after the time the EEPROM goes over all the registers of the
\* MC146818A, the time ones too; register B as the mode the time is sent in.
Overwritten == [s |-> -1, d |-> -1, m |-> -1]
rtc_send_all(c, f) ==
  [time |-> IF Mc(c.core.type) THEN Overwritten ELSE send_time(c, f),
   b    |-> IF Mc(c.core.type) THEN (IF c.bcd THEN "bcd" ELSE "bin") ELSE MC_REG_B_DEFAULT,
   cell |-> IF Msm(c.core.type) THEN Unwritten ELSE rtc_get_eeprom_reg(eep, c.core.bank, "cell")]

NoWrite == <<"none", 0>>
RtcInit ==
  /\ chip = FirstTime /\ fields = FirstTime
  /\ \E k \in ClockCores : clk = [core |-> k, bcd |-> k.type # "msm", last |-> NoWrite, pending |-> FALSE, regs |-> FirstTime]
  /\ eep = [b \in {k.bank : k \in ClockCores} |-> [b |-> Unwritten, cell |-> Unwritten]]
  /\ seen = rtc_send_all(clk, fields)
  /\ rtcPast = [writes |-> 0, loads |-> 0, sets |-> 0, seconds |-> 0, want |-> <<>>, broken |-> FALSE, twin |-> FALSE,
                fresh |-> FALSE, wroteB |-> [b \in DOMAIN eep |-> Unwritten]]

\* do_configure() of another core: its bank and type, the registers twice. What is
\* pending of the last core stays.
LoadCore ==
  /\ rtcPast.loads < MaxRtcLoads
  /\ fields' = chip
  /\ \E k \in ClockCores :
       LET c == read_all([clk EXCEPT !.core = k])
       IN clk' = c /\ seen' = rtc_send_all(c, chip)
  /\ rtcPast' = [rtcPast EXCEPT !.loads = @ + 1, !.want = <<>>, !.broken = clk.pending, !.fresh = ~Mc(clk'.core.type)]
  /\ UNCHANGED <<chip, eep>>

-----------------------------------------------------------------------------
(* The core writes a register: rtc_set_data().                             *)

Wants(w, r, v) == [q \in DOMAIN w \cup {r} |-> IF q = r THEN v ELSE w[q]]
Wrote(past, r, v) == [past EXCEPT !.writes = @ + 1, !.want = Wants(@, r, v), !.fresh = FALSE]

\* The first write of a sequence starts from the time there is; the mutant starts each
\* write from it.
msm_first(r) == ~clk.pending
msm_first_always(r) == TRUE
MsmWrite(r, v) ==
  /\ Msm(clk.core.type)
  /\ clk' = [clk EXCEPT !.regs = [(IF msm_first(r) THEN TimeOf(fields) ELSE @) EXCEPT ![r] = v], !.pending = TRUE]
  /\ seen' = [seen EXCEPT !.time[r] = v]
  /\ rtcPast' = Wrote(rtcPast, r, v) /\ UNCHANGED <<chip, fields, eep>>

\* What the core writes is in the mode of its register B. The same write again is
\* skipped on an MC146818A.
Coded(v) == IF CoreBcd(clk.core.type, seen.b) THEN kg_bin2bcd(v) ELSE v
Skipped(r, x) == Mc(clk.core.type) /\ clk.last = <<r, x>>
TimeWrite(r, v) ==
  LET x == Coded(v)
      f == [fields EXCEPT ![r] = Taken(clk.core.type, clk.bcd, x)]
  IN /\ ~Msm(clk.core.type)
     /\ seen' = [seen EXCEPT !.time[r] = x]
     /\ IF Skipped(r, x) THEN UNCHANGED <<clk, fields, chip>>
        ELSE clk' = [clk EXCEPT !.last = <<r, x>>] /\ fields' = f /\ chip' = adjust(f)
     /\ rtcPast' = [Wrote(rtcPast, r, v) EXCEPT !.twin = @ \/ (Skipped(r, x) /\ (chip[r] # v \/ fields[r] # v))]
     /\ UNCHANGED eep

\* Register B: the data mode, kept_write in the EEPROM without SET.
\* The mutant keeps the data as it came.
kept_write(data) == ModeOf(data)
kept_write_as_is(data) == data
RegBWrite(data) ==
  LET type == clk.core.type
      bank == clk.core.bank
      skip == clk.last = <<"b", data>>
  IN /\ Mc(type) /\ seen' = [seen EXCEPT !.b = data]
     /\ IF skip THEN UNCHANGED <<clk, eep>>
        ELSE /\ clk' = [clk EXCEPT !.last = <<"b", data>>, !.bcd = mc_is_bcd(type, data)]
             /\ eep' = IF type = "zx" THEN eep ELSE rtc_set_eeprom_reg(eep, bank, "b", kept_write(data))
     /\ rtcPast' = [rtcPast EXCEPT !.writes = @ + 1, !.fresh = FALSE, !.want = <<>>,
                                   !.twin = @ \/ (skip /\ (clk.bcd # mc_is_bcd(type, data) \/ dm(mc_reg(bank)) # dm(data))),
                                   !.wroteB = IF type = "zx" \/ bank = NoEepromBank THEN @ ELSE [@ EXCEPT ![bank] = ModeOf(data)]]
     /\ UNCHANGED <<chip, fields>>

CellWrite ==
  /\ ~Msm(clk.core.type) /\ seen.cell # "mine"
  /\ eep' = rtc_set_eeprom_reg(eep, clk.core.bank, "cell", "mine") /\ seen' = [seen EXCEPT !.cell = "mine"]
  /\ clk' = [clk EXCEPT !.last = <<"cell", "mine">>] /\ rtcPast' = [rtcPast EXCEPT !.writes = @ + 1]
  /\ UNCHANGED <<chip, fields>>

rtc_set_data ==
  /\ rtcPast.writes < MaxRtcWrites
  /\ \/ \E r \in Time : \E v \in (IF r = "d" THEN WrittenDays ELSE IF r = "m" THEN {1, 2} ELSE {FirstTime.s}) : MsmWrite(r, v) \/ TimeWrite(r, v)
     \/ \E data \in WrittenRegBs : RegBWrite(data)
     \/ CellWrite

-----------------------------------------------------------------------------
(* rtc_handle().                                                           *)

\* Every 500 ms; a chip that does not answer leaves the fields. A time of the core that
\* is not set yet is not overwritten.
Poll ==
  \E read \in BOOLEAN :
    LET f == IF read THEN chip ELSE fields
    IN /\ fields' = f
       /\ seen' = IF clk.pending THEN seen ELSE [seen EXCEPT !.time = send_time(clk, f)]
       /\ rtcPast' = [rtcPast EXCEPT !.fresh = (read /\ ~clk.pending) \/ (@ /\ fields = f),
                                     !.broken = @ \/ (read /\ ~kg_datetime_valid(fields))]
       /\ UNCHANGED <<chip, clk, eep>>

\* 100 ms after the last write: digits that are no time are given back; a day the month does
\* not have is refused by adjust(). The mode is read back too: a core without a bank that wrote
\* register B meanwhile loses its own.
msm_in_range(t) == t.s \in 0 .. 59 /\ t.d \in 1 .. 31 /\ t.m \in 1 .. 12
ModeTakenBack == Mc(clk.core.type) /\ clk.core.bank = NoEepromBank /\ clk'.bcd # clk.bcd
msm_commit ==
  /\ clk.pending
  /\ IF msm_in_range(clk.regs)
     THEN chip' = adjust(clk.regs) /\ fields' = chip' /\ clk' = read_all([clk EXCEPT !.pending = FALSE])
     ELSE clk' = [clk EXCEPT !.pending = FALSE] /\ UNCHANGED <<chip, fields>>
  /\ seen' = [seen EXCEPT !.time = send_time(clk', fields')]
  /\ rtcPast' = [rtcPast EXCEPT !.want = IF kg_datetime_valid(clk.regs) THEN @ ELSE <<>>, !.fresh = (fields' = chip'),
                                !.twin = @ \/ ModeTakenBack]
  /\ UNCHANGED eep

\* The setting of the clock by the user or by NTP: the fields, then rtc_save().
rtc_save ==
  /\ rtcPast.sets < MaxSets
  /\ \E d \in WrittenDays \cap 1 .. 31 : fields' = [s |-> 0, d |-> d, m |-> 1]
  /\ chip' = adjust(fields')
  /\ rtcPast' = [rtcPast EXCEPT !.sets = @ + 1, !.want = <<>>, !.broken = clk.pending, !.fresh = FALSE]
  /\ UNCHANGED <<clk, eep, seen>>

SecondPasses ==
  /\ rtcPast.seconds < MaxSeconds /\ chip' = [chip EXCEPT !.s = (@ + 1) % 60]
  /\ rtcPast' = [rtcPast EXCEPT !.seconds = @ + 1, !.fresh = FALSE, !.want = [r \in DOMAIN @ \ {"s"} |-> @[r]]]
  /\ UNCHANGED <<fields, clk, eep, seen>>

RtcNext == LoadCore \/ rtc_set_data \/ Poll \/ msm_commit \/ rtc_save \/ SecondPasses

RtcSpec == RtcInit /\ [][RtcNext]_rtcVars

-----------------------------------------------------------------------------
(* Properties.                                                             *)

\* The clock of the board is never set to a day that does not exist.
ChipIsDate == kg_datetime_valid(chip)

\* What a core wrote register by register is in the clock when it is a whole date, unless
\* a poll came while it was none, writes of the last core were pending, or (twin) a write
\* was taken for the one before or a mode taken back.
WrittenStands ==
  ~clk.pending /\ ~rtcPast.broken /\ ~rtcPast.twin /\ kg_datetime_valid(fields) =>
    \A r \in DOMAIN rtcPast.want : chip[r] = rtcPast.want[r]

\* The time that was sent is the clock's in the mode of the core's own register B.
SeenRight ==
  rtcPast.fresh /\ ~rtcPast.twin =>
    \A r \in Time : seen.time[r] = IF CoreBcd(clk.core.type, seen.b) THEN kg_bin2bcd(chip[r]) ELSE chip[r]

\* The mode a core set is in its bank for the next start, the clock never stopped there.
ModeKept ==
  ~rtcPast.twin => \A bank \in DOMAIN eep :
    OrDefault(eep[bank].b) = OrDefault(rtcPast.wroteB[bank]) /\ ~set(eep[bank].b)

RtcRight == ChipIsDate /\ WrittenStands /\ SeenRight /\ ModeKept
=============================================================================
