------------------------------- MODULE SdCard -------------------------------
(***************************************************************************)
(* The SD card driver, src/lib/sd: single and multiple sector transfers,   *)
(* a multiple one kept open between the calls on a dedicated bus (SD1,     *)
(* sd_pio.c), every call closed on a shared one (SD2, sd2.c).              *)
(*                                                                         *)
(* A card with its driver is one record.  The operators below are the      *)
(* functions of sd_card.c: they take the record and the set f of what goes *)
(* wrong during the call, and give [c, ok, ...].  A call runs in one task, *)
(* so an action makes a whole one.  Bytes, tokens and clocks are left out; *)
(* a sector is its number and one value.                                   *)
(***************************************************************************)
EXTENDS Integers, Sequences

CONSTANTS
  LastSector,  \* sectors are 0 .. LastSector
  Datum,       \* what a sector can hold
  MaxCount     \* bound: sectors of one call

ASSUME SdAssumption ==
  LastSector \in Nat /\ MaxCount \in Nat \ {0} /\ Datum # {}

Sector == 0 .. LastSector
Modes  == {"idle", "read", "write"}
\* What can go wrong: a command is refused, a data token does not come or is
\* not the right one, the card stays busy, a transfer cannot be ended.
Fault  == {"command", "data", "busy", "end"}

CardType ==
  [usable : BOOLEAN,        \* type # SD_CARD_NONE
   dedicated : BOOLEAN,
   state : Modes,           \* the transfer the driver has open
   cur : 0 .. LastSector + MaxCount + 1,  \* cur_sector
   mode : Modes,            \* the transfer the card is in
   pos : 0 .. LastSector + MaxCount + 1,  \* where the card is in it
   lost : BOOLEAN,          \* the card did not confirm the end of a transfer
   clash : BOOLEAN,         \* a command was sent into an open transfer
   held : Int,              \* how often the bus is taken
   data : [Sector -> Datum]]

NewCard(dedicated, data) ==
  [usable |-> FALSE, dedicated |-> dedicated, state |-> "idle", cur |-> 0,
   mode |-> "idle", pos |-> 0, lost |-> FALSE, clash |-> FALSE,
   held |-> 0, data |-> data]

Done(c, ok) == [c |-> c, ok |-> ok, got |-> <<>>]

start(c) == [c EXCEPT !.held = @ + 1]
stop(c)  == [c EXCEPT !.held = @ - 1]

\* A command that is not CMD12.  A card that takes one is in no transfer.
command(c, f) ==
  LET sent == [c EXCEPT !.clash = @ \/ (c.mode # "idle" /\ ~c.lost)]
  IN IF "command" \in f THEN Done(sent, FALSE)
     ELSE Done([sent EXCEPT !.mode = "idle", !.lost = FALSE], TRUE)

\* Mutant: the transfer of a failed end is believed to go on.
sd_card_sync_keeps(c, f) ==
  IF c.state = "idle" THEN Done(c, TRUE)
  ELSE IF "end" \in f
  THEN Done(stop([c EXCEPT !.lost = TRUE]), FALSE)
  ELSE Done(stop([c EXCEPT !.state = "idle", !.mode = "idle"]), TRUE)
sd_card_sync(c, f) ==
  IF c.state = "idle" THEN Done(c, TRUE)
  ELSE IF "end" \in f
  THEN Done(stop([c EXCEPT !.state = "idle", !.lost = TRUE]), FALSE)
  ELSE Done(stop([c EXCEPT !.state = "idle", !.mode = "idle"]), TRUE)

\* CMD0 takes a card out of any transfer.  The pins are set for its registers
\* only, the driver's own state is that of a new one.
sd_card_begin(c, f) ==
  LET ok == "command" \notin f
      new == [NewCard(c.dedicated, c.data) EXCEPT !.usable = ok, !.clash = c.clash,
                                                  !.held = stop(start(c)).held]
  IN Done(IF ok THEN new ELSE [new EXCEPT !.mode = c.mode, !.pos = c.pos,
                                          !.lost = c.mode # "idle"], ok)

\* A transfer of kind `what` that goes on at sector s is open.
\* Mutant: any open transfer of the kind is continued.
opened_anywhere(c, what, s, f) ==
  IF c.state = what THEN Done(c, TRUE)
  ELSE LET ended == sd_card_sync(c, f)
           begun == command(start(ended.c), f)
  IN IF ~ended.ok THEN ended
     ELSE IF ~begun.ok THEN Done(stop(begun.c), FALSE)
     ELSE Done([begun.c EXCEPT !.state = what, !.cur = s, !.mode = what, !.pos = s], TRUE)
opened(c, what, s, f) ==
  IF c.state = what /\ c.cur = s THEN Done(c, TRUE)
  ELSE LET ended == sd_card_sync(c, f)
           begun == command(start(ended.c), f)
  IN IF ~ended.ok THEN ended
     ELSE IF ~begun.ok THEN Done(stop(begun.c), FALSE)
     ELSE Done([begun.c EXCEPT !.state = what, !.cur = s, !.mode = what, !.pos = s], TRUE)

\* n sectors were transferred: on a shared bus the transfer ends.
\* Mutant: the next sector of the transfer is not moved on.
passed_still(c, n, f) ==
  IF c.dedicated THEN Done(c, TRUE) ELSE sd_card_sync(c, f)
passed(c, n, f) ==
  LET on == [c EXCEPT !.cur = @ + n]
  IN IF c.dedicated THEN Done(on, TRUE) ELSE sd_card_sync(on, f)

\* What the card sends for the next n sectors of its transfer.
sent_by(c, n) ==
  [i \in 1 .. n |-> IF c.mode = "read" /\ c.pos + i - 1 \in Sector
                    THEN c.data[c.pos + i - 1] ELSE CHOOSE v \in Datum : TRUE]
\* The card takes the first n values of vals.
taken_by(c, vals, n) ==
  [c EXCEPT !.data = [s \in Sector |-> IF c.mode = "write" /\ s \in c.pos .. c.pos + n - 1
                                       THEN vals[s - c.pos + 1] ELSE @[s]],
            !.pos = @ + n]

\* A transfer that breaks is ended; its first error is reported.
broken(c, f) == Done(sd_card_sync(c, f).c, FALSE)

single(c, n) == n = 1 /\ ~c.dedicated

\* CMD17: a sector of its own.
ReadOne(c, s, f) ==
  LET ended == sd_card_sync(c, f)
      begun == command(start(ended.c), f)
      at    == [begun.c EXCEPT !.mode = "read", !.pos = s]
  IN IF ~ended.ok THEN ended
     ELSE IF ~begun.ok \/ "data" \in f THEN Done(stop(begun.c), FALSE)
     ELSE [c |-> stop(begun.c), ok |-> TRUE, got |-> sent_by(at, 1)]

\* CMD18: the transfer breaks at block `bad`, if data fails.
sd_card_read(c, s, n, f, bad) ==
  LET open == opened(c, "read", s, f)
      on   == passed([open.c EXCEPT !.pos = @ + n], n, f)
  IN IF ~c.usable THEN Done(c, FALSE)
     ELSE IF single(c, n) THEN ReadOne(c, s, f)
     ELSE IF ~open.ok THEN open
     ELSE IF "data" \in f THEN broken([open.c EXCEPT !.pos = @ + bad - 1], f)
     ELSE [c |-> on.c, ok |-> on.ok, got |-> sent_by(open.c, n)]

\* CMD24, then the card's status (CMD13) when it is ready again.
WriteOne(c, s, vals, f) ==
  LET ended == sd_card_sync(c, f)
      begun == command(start(ended.c), f)
      at    == [begun.c EXCEPT !.mode = "write", !.pos = s]
      wrote == [taken_by(at, vals, 1) EXCEPT !.mode = "idle"]
  IN IF ~ended.ok THEN ended
     ELSE IF ~begun.ok \/ "data" \in f THEN Done(stop(begun.c), FALSE)
     ELSE Done(stop(wrote), "busy" \notin f)

\* CMD25.  A card that stays busy gets no stop token: it is left in its transfer.
sd_card_write(c, s, vals, f, bad) ==
  LET n    == Len(vals)
      open == opened(c, "write", s, f)
      some == taken_by(open.c, vals, bad - 1)
  IN IF ~c.usable THEN Done(c, FALSE)
     ELSE IF single(c, n) THEN WriteOne(c, s, vals, f)
     ELSE IF ~open.ok THEN open
     ELSE IF "busy" \in f
     THEN Done(stop([some EXCEPT !.state = "idle", !.lost = TRUE]), FALSE)
     ELSE IF "data" \in f THEN broken(some, f)
     ELSE passed(taken_by(open.c, vals, n), n, f)

\* CMD9, CMD10: the size and the name of the card.
\* Mutant: an open transfer is not ended first.
read_register_over(c, f) ==
  LET begun == command(start(c), f)
  IN IF ~c.usable THEN Done(c, FALSE)
     ELSE Done(stop(begun.c), begun.ok /\ "data" \notin f)
read_register(c, f) ==
  LET ended == sd_card_sync(c, f)
      begun == command(start(ended.c), f)
  IN IF ~c.usable THEN Done(c, FALSE)
     ELSE IF ~ended.ok THEN ended
     ELSE Done(stop(begun.c), begun.ok /\ "data" \notin f)

\* sd2_read(), sd2_write(): a card that failed is set up again and asked once
\* more; f is what goes wrong the first time, g in the set-up, h the second time.
recover(r, g) == sd_card_begin(r.c, g)

sd2_read(c, s, n, f, bad, g) ==
  LET r == sd_card_read(c, s, n, f, bad)
      new == recover(r, g)
  IN IF r.ok THEN r ELSE IF ~new.ok THEN new ELSE sd_card_read(new.c, s, n, g, 1)

sd2_write(c, s, vals, f, bad, g) ==
  LET r == sd_card_write(c, s, vals, f, bad)
      new == recover(r, g)
  IN IF r.ok THEN r ELSE IF ~new.ok THEN new ELSE sd_card_write(new.c, s, vals, g, 1)

\* The bus is held, and the card in a transfer, exactly while the driver has one
\* open, but for a card that did not confirm an end.
Agree(c) ==
  /\ c.held = (IF c.state = "idle" THEN 0 ELSE 1)
  /\ ~c.lost => c.mode = c.state
  /\ c.state # "idle" => c.pos = c.cur /\ c.dedicated
=============================================================================
