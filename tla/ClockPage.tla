------------------------------ MODULE ClockPage ------------------------------
(***************************************************************************)
(* The screens that set the clock, Setup RTC (text) and the Clock page of  *)
(* the graphic setup, over one editor, and the NTP sync both can start.    *)
(* The clock is [date, time] of small numbers and runs by itself; a field  *)
(* shows one of them or what does not parse; typing a field and turning it *)
(* may leave anything in it.  Cursors and drawing are left out.            *)
(***************************************************************************)
EXTENDS EspAt, FiniteSets

CONSTANTS
  Zones,        \* the UTC offsets
  TimeTries,    \* TIME_TRIES
  MaxClockKeys, \* bound: what the user does
  MaxMinutes    \* bound: the minutes that pass

Parts == {"date", "time"}
Bad   == 9  \* in a field: does not parse

VARIABLES
  rtc,    \* the clock of the board
  ck,     \* the screen: [place, ntp, focus, field, edited, tz, msg]; ntp: it has the zone and Sync
  hw_tz,  \* hw_setup.tz, in karabas.ini
  ntp,    \* ntp_sync.c: [step, result, tries, tz, ssid, got]
  clockPast  \* history: [keys, minutes, order, odd]: what the user ordered last; the clock was set unordered

clockVars == <<rtc, ck, hw_tz, ntp, clockPast>>

NtpIdle == [step |-> "idle", result |-> "idle", tries |-> 0, tz |-> 0, ssid |-> NoName, got |-> FALSE]

ClockInit ==
  /\ rtc = [p \in Parts |-> 0] /\ hw_tz = 0 /\ ntp = NtpIdle
  /\ ck = [place |-> "none", ntp |-> FALSE, focus |-> "date", field |-> rtc, edited |-> {}, tz |-> 0, msg |-> "none"]
  /\ clockPast = [keys |-> 0, minutes |-> 0, order |-> "none", odd |-> FALSE]

-----------------------------------------------------------------------------
(* The editor: clock_edit.c.                                               *)

\* The fields that are not edited take the clock.
ce_follow_rtc(c, clock) ==
  [c EXCEPT !.field = [date |-> IF "date" \in c.edited THEN @.date ELSE clock.date,
                       time |-> IF "time" \in c.edited THEN @.time ELSE clock.time]]
ce_forget_edits(c) == [c EXCEPT !.edited = {}]
Say(c, kind) == [c EXCEPT !.msg = kind]
ce_clear_message(c) == IF c.msg = "busy" THEN c ELSE Say(c, "none")
Edit(c, f, v) == ce_clear_message([c EXCEPT !.edited = @ \cup {f}, !.field[f] = v])

\* The zone goes to karabas.ini when it changed; ok: it could be written.
SavesTz(c, ok) == c.tz = hw_tz \/ ok
ce_save_tz(c, ok) == hw_tz' = IF SavesTz(c, ok) THEN c.tz ELSE hw_tz

\* A set by hand ends a sync; the mutant leaves it running.
ntp_sync_cancel_not == ntp
ntp_sync_cancel == [ntp EXCEPT !.step = "idle", !.result = "idle"]

InvalidField(c) == IF c.field["date"] = Bad THEN "date" ELSE IF c.field["time"] = Bad THEN "time" ELSE "none"

\* The page is drawn each second and after what the user did; without the focus it
\* drops the edits and shows the zone of the setup.
draw(c) ==
  LET shown == IF c.place = "tab" THEN [ce_forget_edits(c) EXCEPT !.tz = hw_tz'] ELSE c
  IN IF c.place \in {"page", "tab"} THEN ce_follow_rtc(shown, rtc') ELSE shown

\* What the screen makes of it: the text screen is left with the clock set, the focus
\* goes to the field that does not parse.
Landed(c, sets, bad) ==
  draw(IF sets THEN [c EXCEPT !.place = IF @ = "text" THEN "none" ELSE @] ELSE IF bad = "none" THEN c ELSE [c EXCEPT !.focus = bad])
ce_set_clock(c) ==
  \E ok \in BOOLEAN :
    LET bad   == InvalidField(c)
        sets  == bad = "none" /\ SavesTz(c, ok)
    IN /\ ntp' = ntp_sync_cancel
       /\ IF bad = "none" THEN ce_save_tz(c, ok) ELSE hw_tz' = hw_tz
       /\ rtc' = IF sets THEN c.field ELSE rtc
       /\ ck' = Landed(IF sets THEN Say(ce_forget_edits(c), "ok") ELSE Say(c, "error"), sets, bad)
       /\ clockPast' = [clockPast EXCEPT !.keys = @ + 1, !.order = "set"]
       /\ UNCHANGED atVars

\* ntp_sync_start(): the first question is whether the module is joined.
ntp_sync_start(z) ==
  /\ ntp' = [step |-> "jap", result |-> "busy", tries |-> 0, tz |-> z, ssid |-> NoName, got |-> FALSE]
  /\ esp_at_start("CWJAP?", NoName)
ce_sync(c) ==
  \E ok \in BOOLEAN :
    /\ ce_save_tz(c, ok) /\ UNCHANGED rtc
    /\ IF SavesTz(c, ok)
       THEN ntp_sync_start(c.tz) /\ ck' = draw(Say(c, "busy")) /\ clockPast' = [clockPast EXCEPT !.keys = @ + 1, !.order = "sync"]
       ELSE ck' = draw(Say(c, "error")) /\ clockPast' = [clockPast EXCEPT !.keys = @ + 1] /\ UNCHANGED <<ntp, atVars>>

-----------------------------------------------------------------------------
(* NTP: ntp_sync.c, polled by the tick of the screen.                      *)

\* What the module's clock gives with the offset added: rtc_set_*(), rtc_save().
NtpTime(z) == [p \in Parts |-> IF p = "date" THEN 1 ELSE z]

NtpHears(n, ln) ==
  CASE n.step = "jap" /\ ln.k = "jap"   -> [n EXCEPT !.ssid = ln.v]
    [] n.step = "time" /\ ln.k = "time" -> [n EXCEPT !.got = TRUE]
    [] OTHER -> n

Ends(n, res)  == [n EXCEPT !.step = "idle", !.result = res]
go(n, s, cmd) == ntp' = [n EXCEPT !.step = s, !.got = FALSE] /\ esp_at_start(cmd, NoName)

\* The end of a step: the next one, the clock or an error. Polled: ends without a command.
ntp_ends(n, r) ==
  LET Polled(m) == AtPolled(r) /\ ntp' = m
      joined == r = "ok" /\ n.ssid # NoName
      again  == n.tries + 1 < TimeTries
  IN \/ r \in {"timeout", "idle"} /\ Polled(Ends(n, "error")) /\ UNCHANGED rtc
     \/ r \in Final /\ n.step = "jap" /\ UNCHANGED rtc /\ IF joined THEN go(n, "cfg", "SNTPCFG") ELSE Polled(Ends(n, "error"))
     \/ /\ r \in Final /\ n.step = "cfg" /\ UNCHANGED rtc
        /\ Polled(IF r = "ok" THEN [n EXCEPT !.step = "wait"] ELSE Ends(n, "error"))
     \/ r \in Final /\ n.step = "time" /\ n.got /\ rtc' = NtpTime(n.tz) /\ Polled(Ends(n, "ok"))
     \/ /\ r \in Final /\ n.step = "time" /\ ~n.got /\ UNCHANGED rtc
        /\ Polled(IF again THEN [n EXCEPT !.step = "wait", !.tries = @ + 1] ELSE Ends(n, "error"))

-----------------------------------------------------------------------------
(* The screens.                                                            *)

TextOrder == <<"date", "time", "tz", "save", "cancel", "sync">>
PageOrder == <<"date", "time", "tz", "set", "sync">>
Order(c)  == IF c.place = "text" THEN TextOrder ELSE PageOrder
\* The mutant walks onto the items that are not drawn.
focusable_any(c, f) == TRUE
focusable(c, f) == c.ntp \/ f \notin {"tz", "sync"}

At(c, f) == CHOOSE i \in DOMAIN Order(c) : Order(c)[i] = f
\* The next focusable item, round, among the items numbered from lo on.
Step(c, f, d, lo) ==
  LET n      == Len(Order(c)) - lo + 1
      Nth(j) == Order(c)[lo + ((At(c, f) - lo + j * (n + d)) % n)]
  IN [c EXCEPT !.focus = Nth(CHOOSE j \in 1 .. n : focusable(c, Nth(j)) /\ \A k \in 1 .. j - 1 : ~focusable(c, Nth(k)))]
focus_step(c, f, d) == Step(c, f, d, 1)

OnClock(p) == ck.place = p /\ clockPast.keys < MaxClockKeys
Keyed == clockPast' = [clockPast EXCEPT !.keys = @ + 1]

\* ce_open(): on the BOOT core the ESP is there; the page is only on that core.
Opened(p, n) ==
  [ce_follow_rtc(ce_forget_edits(ck), rtc) EXCEPT !.place = p, !.ntp = n, !.focus = "date", !.tz = hw_tz, !.msg = "none"]
OpenClock ==
  /\ ck.place \in {"none", "tab"} /\ clockPast.keys < MaxClockKeys
  /\ \/ ck.place = "none" /\ \E n \in BOOLEAN : ck' = Opened("text", n)
     \/ ck' = Opened("page", TRUE)
  /\ ntp' = ntp_sync_cancel /\ Keyed /\ UNCHANGED <<atVars, rtc, hw_tz>>

\* Leaving the text screen drops the zone, leaving the page saves it.
CloseText == ntp' = ntp_sync_cancel /\ ck' = [ck EXCEPT !.place = "none"] /\ UNCHANGED <<atVars, rtc, hw_tz>>
LeaveText == OnClock("text") /\ CloseText /\ clockPast' = [clockPast EXCEPT !.keys = @ + 1, !.order = "none"]
LeavePage ==
  /\ ck.place = "page"
  /\ ntp' = ntp_sync_cancel /\ UNCHANGED <<atVars, rtc>>
  /\ \E ok \in BOOLEAN, p \in {"tab", "none"} :
       /\ ce_save_tz(ck, ok)
       /\ ck' = draw([Say(ck, IF SavesTz(ck, ok) THEN ck.msg ELSE "error") EXCEPT !.place = p])
  /\ clockPast' = [clockPast EXCEPT !.order = "none"]
LeaveTab == ck.place = "tab" /\ ck' = [ck EXCEPT !.place = "none"] /\ UNCHANGED <<atVars, rtc, hw_tz, ntp, clockPast>>

Still == UNCHANGED <<atVars, rtc, hw_tz, ntp>> /\ Keyed
IsButton(f) == f \in {"save", "cancel", "set", "sync"}
\* A digit, which may fill the field, or a turn of one.
Types(c) ==
  {Edit(c, c.focus, v) : v \in {0, 1, Bad}} \cup {focus_step(Edit(c, c.focus, v), c.focus, 1) : v \in {0, 1, Bad}}
Edits(c) ==
  UNION {IF c.focus \in Parts THEN Types(c) ELSE {},
         IF c.focus = "tz" THEN {[c EXCEPT !.tz = z] : z \in Zones} ELSE {}}

TextMoves ==
  {focus_step(ck, IF IsButton(ck.focus) THEN "save" ELSE ck.focus, -1), focus_step(ck, ck.focus, 1)} \cup
  (IF IsButton(ck.focus) THEN {Step(ck, ck.focus, d, At(ck, "save")) : d \in {1, -1}} ELSE {})
app_rtc_on_keyboard ==
  /\ OnClock("text")
  /\ \/ \E c \in (TextMoves \cup Edits(ck)) \ {ck} : ck' = c /\ Still
     \/ ck.focus = "save" /\ ce_set_clock(ck)
     \/ ck.focus = "sync" /\ ce_sync(ck)

\* Keys, clicks and the wheel: what is clicked takes the focus first.
PageMoves == {focus_step(ck, ck.focus, d) : d \in {1, -1}}
Clicked == {[ck EXCEPT !.focus = PageOrder[i]] : i \in DOMAIN PageOrder}
PageKey ==
  /\ OnClock("page")
  /\ \/ \E c \in (PageMoves \cup UNION {Edits(k) : k \in Clicked}) \ {ck} : Still /\ ck' = draw(c)
     \/ \E c \in Clicked :
          \/ c.focus = "set" /\ ce_set_clock(c)
          \/ c.focus = "sync" /\ ce_sync(c)

-----------------------------------------------------------------------------
(* The tick and the clock.                                                 *)

\* ce_tick() after a poll that ended the sync.
SyncEnded(c, res) == Say(IF res = "ok" THEN ce_follow_rtc(ce_forget_edits(c), rtc') ELSE c, res)
ntp_sync_poll ==
  \/ ntp.step = "wait" /\ go(ntp, "time", "SNTPTIME?") /\ UNCHANGED rtc
  \/ /\ ntp.step \notin {"wait", "idle"}
     /\ \E over \in BOOLEAN :
          /\ over => MayBeOver
          /\ LET r == PollOf(over)
                 n == FoldLeft(NtpHears, ntp, Heard)
             IN IF r = "busy" THEN AtPolled(r) /\ ntp' = n /\ UNCHANGED rtc ELSE ntp_ends(n, r)
ce_tick ==
  /\ ck.place \in {"text", "page"} /\ UNCHANGED hw_tz
  /\ \/ /\ ntp.result = "busy" /\ ntp_sync_poll
        /\ ck' = IF ntp'.result = "busy" THEN ck ELSE draw(SyncEnded(ck, ntp'.result))
        /\ clockPast' = [clockPast EXCEPT !.odd = @ \/ (ntp'.result = "ok" /\ clockPast.order # "sync")]
     \/ ck.msg = "ok" /\ ntp.result # "busy" /\ ck' = Say(ck, "none") /\ UNCHANGED <<atVars, rtc, ntp, clockPast>>

ClockRuns ==
  /\ clockPast.minutes < MaxMinutes /\ clockPast' = [clockPast EXCEPT !.minutes = @ + 1]
  /\ rtc' = IF rtc["time"] = 0 THEN [rtc EXCEPT !["time"] = 1] ELSE [p \in Parts |-> IF p = "date" THEN 1 ELSE 0]
  /\ UNCHANGED <<atVars, ck, hw_tz, ntp>>
DrawPage ==
  /\ UNCHANGED <<atVars, rtc, hw_tz, ntp, clockPast>> /\ ck' = draw(ck)

ClockNext ==
  \/ OpenClock \/ LeaveText \/ LeavePage \/ LeaveTab \/ app_rtc_on_keyboard \/ PageKey
  \/ ce_tick \/ ClockRuns \/ DrawPage \/ (EspSays /\ UNCHANGED clockVars)

-----------------------------------------------------------------------------
(* Properties.                                                             *)

\* NTP sets the clock only while its sync is the last thing the user ordered: not after
\* he set the clock himself or left the screen.
SetAsOrdered == ~clockPast.odd

\* A message that the sync runs has a sync that will end.
BusyEnds ==
  ck.place \in {"text", "page"} => /\ ck.msg = "busy" => ntp.result = "busy" /\ ntp.step # "idle"
                                   /\ ck.msg = "ok" => ntp.result # "busy"

\* A sync works with the zone that is in karabas.ini.
SyncZone == ntp.result = "busy" => ntp.tz = hw_tz

\* Without the ESP no sync is started and the focus is on what is drawn.
NoNtpWithoutEsp == ck.place = "text" /\ ~ck.ntp => ntp.step = "idle" /\ ck.focus \notin {"tz", "sync"}

\* A closed page shows no edit, and no sync runs without its screen.
ClosedQuiet ==
  /\ ck.place \in {"none", "tab"} => ntp.step = "idle"
  /\ ck.place = "tab" => ck.edited = {} /\ ck.tz = hw_tz

ClockRight == SetAsOrdered /\ BusyEnds /\ SyncZone /\ NoNtpWithoutEsp /\ ClosedQuiet /\ OwnAnswers

-----------------------------------------------------------------------------
(***************************************************************************)
(* Dates, times, UTC offsets and the field they are typed into: the        *)
(* arithmetic of time_zone.c and masked_input.c beside a calendar that     *)
(* counts the days one by one.  A text is a sequence of its digits and     *)
(* other chars.                                                            *)
(***************************************************************************)

CONSTANTS
  FirstDay,  \* [year, month, day, n, week]: where the count starts
  LastYear,  \* bound: where it ends
  Masks,     \* the texts that are typed into
  DayTimes   \* the minutes of a day that are tried with each offset

VARIABLES
  today,  \* [year, month, day, n, week]: n days since 1970-01-01, week: 0 is Sunday
  zone,   \* an offset, stepped through
  field   \* kg_field_t: [text, pos], pos counted from 0

calVars == <<today, zone, field>>

\* The characters that are no digits.
Dot == 10
Colon == 11
Plus == 12
Minus == 13

-----------------------------------------------------------------------------
(* The calendar that counts.                                               *)

Leap(y) == (y % 4 = 0 /\ y % 100 # 0) \/ y % 400 = 0
MonthLength(y, m) == CASE m = 2 -> IF Leap(y) THEN 29 ELSE 28 [] m \in {4, 6, 9, 11} -> 30 [] OTHER -> 31
Date(y, m, d) == [year |-> y, month |-> m, day |-> d]
DateOf(t) == Date(t.year, t.month, t.day)

DayPasses(t) ==
  LET next == IF t.day < MonthLength(t.year, t.month) THEN [t EXCEPT !.day = @ + 1]
              ELSE IF t.month < 12 THEN [t EXCEPT !.day = 1, !.month = @ + 1]
              ELSE [t EXCEPT !.day = 1, !.month = 1, !.year = @ + 1]
  IN [next EXCEPT !.n = @ + 1, !.week = (@ + 1) % 7]

-----------------------------------------------------------------------------
(* time_zone.c. TLA+ divides down where C divides towards zero: the code   *)
(* only divides what is not negative.                                      *)

\* days_from_civil(): the years are counted from March; the mutant takes February with them.
doy(m, d) == ((153 * (m + (IF m > 2 THEN -3 ELSE 9)) + 2) \div 5) + d - 1
doy_rounded(m, d) == ((153 * (m + (IF m > 2 THEN -3 ELSE 9)) + 3) \div 5) + d - 1
days_from_civil(y0, m, d) ==
  LET y   == IF m <= 2 THEN y0 - 1 ELSE y0
      era == (IF y >= 0 THEN y ELSE y - 399) \div 400
      yoe == y - era * 400
  IN era * 146097 + yoe * 365 + (yoe \div 4) - (yoe \div 100) + doy(m, d) - 719468

civil_from_days(n) ==
  LET z   == n + 719468
      era == (IF z >= 0 THEN z ELSE z - 146096) \div 146097
      doe == z - era * 146097
      yoe == (doe - (doe \div 1460) + (doe \div 36524) - (doe \div 146096)) \div 365
      dy  == doe - (365 * yoe + (yoe \div 4) - (yoe \div 100))
      mp  == (5 * dy + 2) \div 153
      m   == IF mp < 10 THEN mp + 3 ELSE mp - 9
  IN Date(yoe + era * 400 + (IF m <= 2 THEN 1 ELSE 0), m, dy - ((153 * mp + 2) \div 5) + 1)

\* kg_datetime_add_minutes(): the date and the minutes of its day.
kg_datetime_add_minutes(t, minute, minutes) ==
  LET mm == minute + minutes
      dd == IF mm >= 0 THEN mm \div 1440 ELSE -((-mm + 1439) \div 1440)
  IN [date |-> civil_from_days(days_from_civil(t.year, t.month, t.day) + dd), minute |-> mm - dd * 1440]
kg_datetime_weekday(t) == (((days_from_civil(t.year, t.month, t.day) + 4) % 7) + 7) % 7
days_in_month(y, m) == IF m = 2 /\ Leap(y) THEN 29 ELSE <<31, 28, 31, 30, 31, 30, 31, 31, 30, 31, 30, 31>>[m]
kg_datetime_valid(t, minute) ==
  /\ t.year \in 2000 .. 2099 /\ t.month \in 1 .. 12 /\ t.day \in 1 .. days_in_month(t.year, t.month)
  /\ minute \in 0 .. 1439

TzMin  == -720
TzMax  == 840
TzStep == 15
kg_tz_step(minutes, d) ==
  LET n == ((TzMax - TzMin) \div TzStep) + 1
      i == (minutes - TzMin) \div TzStep
  IN TzMin + ((i + d) % n) * TzStep

Two(v) == <<v \div 10, v % 10>>
kg_tz_format(minutes) ==
  LET a == IF minutes < 0 THEN -minutes ELSE minutes
  IN <<IF minutes < 0 THEN Minus ELSE Plus>> \o Two(a \div 60) \o <<Colon>> \o Two(a % 60)

Digit(s, i) == i \in DOMAIN s /\ s[i] < 10
\* A sign, one digit of hours or two, the minutes if a colon follows: NoZone if it is not one.
NoZone == 9999
kg_tz_parse(s) ==
  LET h0 == IF s # <<>> /\ s[1] \in {Plus, Minus} THEN 2 ELSE 1
      h1 == IF Digit(s, h0 + 1) THEN h0 + 1 ELSE h0
      hours == IF h1 = h0 THEN s[h0] ELSE s[h0] * 10 + s[h1]
      colon == Len(s) > h1 /\ s[h1 + 1] = Colon
      mins  == IF colon THEN s[h1 + 2] * 10 + s[h1 + 3] ELSE 0
      v     == (IF s[1] = Minus THEN -1 ELSE 1) * (hours * 60 + mins)
  IN IF ~Digit(s, h0) THEN NoZone
     ELSE IF colon /\ ~(Digit(s, h1 + 2) /\ Digit(s, h1 + 3)) THEN NoZone
     ELSE IF Len(s) # (IF colon THEN h1 + 3 ELSE h1) \/ mins >= 60 \/ mins % TzStep # 0 THEN NoZone
     ELSE IF v \in TzMin .. TzMax THEN v ELSE NoZone

-----------------------------------------------------------------------------
(* masked_input.c.                                                         *)

DigitsOf(text) == {i \in 0 .. Len(text) - 1 : Digit(text, i + 1)}
kg_field_init(text) == [text |-> text, pos |-> IF DigitsOf(text) = {} THEN Len(text) ELSE Min(DigitsOf(text))]
kg_field_left(f) == [f EXCEPT !.pos = Max({i \in DigitsOf(f.text) : i < @} \cup {-1})]
LeftOf(f) == IF kg_field_left(f).pos = -1 THEN f ELSE kg_field_left(f)
kg_field_right(f) ==
  LET after == {i \in DigitsOf(f.text) : i > f.pos} IN IF after = {} THEN f ELSE [f EXCEPT !.pos = Min(after)]
kg_field_type(f, digit) == IF f.pos >= Len(f.text) THEN f ELSE kg_field_right([f EXCEPT !.text[f.pos + 1] = digit])
kg_field_turn(f, d) == IF f.pos >= Len(f.text) THEN f ELSE [f EXCEPT !.text[f.pos + 1] = (@ + d + 10) % 10]
\* put_cursor(): to char j or the next digit after it.
put_cursor(f, j) ==
  LET from == {i \in DigitsOf(f.text) : i >= j}
  IN IF DigitsOf(f.text) = {} THEN f ELSE [f EXCEPT !.pos = IF from = {} THEN Max(DigitsOf(f.text)) ELSE Min(from)]

\* The digits from i on as a number, -1 if one is not a digit.
number(s, i, n) == IF \E k \in i .. i + n - 1 : ~Digit(s, k) THEN -1 ELSE FoldLeft(LAMBDA v, c : v * 10 + c, 0, SubSeq(s, i, i + n - 1))

kg_days_in_month(m, y) == IF m \notin 1 .. 12 THEN 0 ELSE days_in_month(y, m)
NoDate == Date(0, 0, 0)
kg_date_parse(s) ==
  LET d == number(s, 1, 2)
      m == number(s, 4, 2)
      y == number(s, 7, 4)
  IN IF Len(s) # 10 \/ s[3] # Dot \/ s[6] # Dot THEN NoDate
     ELSE IF y \notin 2000 .. 2099 \/ d < 1 \/ d > kg_days_in_month(m, y) THEN NoDate
     ELSE Date(y, m, d)
NoTime == -1
kg_time_parse(s) ==
  LET h == number(s, 1, 2)
      m == number(s, 4, 2)
  IN IF Len(s) # 5 \/ s[3] # Colon \/ h \notin 0 .. 23 \/ m \notin 0 .. 59 THEN NoTime ELSE h * 60 + m

-----------------------------------------------------------------------------
CalInit == today = FirstDay /\ zone = TzMin /\ \E t \in Masks : field = kg_field_init(t)

\* A day passes with no field open, the next offset is looked at.
Passes ==
  /\ today.year <= LastYear
  /\ today' = DayPasses(today) /\ zone' = kg_tz_step(zone, 1) /\ field' = kg_field_init(<<>>)
Keys ==
  /\ field.text # <<>> /\ UNCHANGED <<today, zone>>
  /\ \/ \E c \in {0, 9} : field' = kg_field_type(field, c)
     \/ field' = LeftOf(field)
     \/ field' = kg_field_right(field)
     \/ \E d \in {-1, 1} : field' = kg_field_turn(field, d)
     \/ \E j \in 0 .. Len(field.text) : field' = put_cursor(field, j)
CalNext == Passes \/ Keys

-----------------------------------------------------------------------------
(* Properties.                                                             *)

\* The day count and its inverse are those of the calendar, the day of the week too.
CountsDays ==
  /\ days_from_civil(today.year, today.month, today.day) = today.n
  /\ civil_from_days(today.n) = DateOf(today)
  /\ kg_datetime_weekday(today) = today.week

\* With an offset added a time is the day before, this one or the next, and subtracting
\* the offset gives the time back.
OffsetRight ==
  \A minute \in DayTimes :
    LET u == kg_datetime_add_minutes(today, minute, zone)
    IN /\ u.minute \in 0 .. 1439
       /\ (days_from_civil(u.date.year, u.date.month, u.date.day) - today.n) * 1440 + u.minute = minute + zone
       /\ kg_datetime_add_minutes(u.date, u.minute, -zone) = [date |-> DateOf(today), minute |-> minute]

\* What parses as a date is a day of the calendar of this century, and all of them do.
DateText(y, m, d) == Two(d) \o <<Dot>> \o Two(m) \o <<Dot>> \o Two(y \div 100) \o Two(y % 100)
ParsesDates ==
  \A d \in {0, 1, 28, 29, 30, 31, 32} :
    LET real == today.year \in 2000 .. 2099 /\ d \in 1 .. MonthLength(today.year, today.month)
    IN kg_date_parse(DateText(today.year, today.month, d)) = IF real THEN Date(today.year, today.month, d) ELSE NoDate

\* An offset is read back as it was written, without its plus and its minutes too.
ZonesRead ==
  /\ zone % TzStep = 0 /\ zone \in TzMin .. TzMax
  /\ kg_tz_parse(kg_tz_format(zone)) = zone
  /\ zone >= 0 => kg_tz_parse(Tail(kg_tz_format(zone))) = zone
  /\ zone % 60 = 0 => kg_tz_parse(SubSeq(kg_tz_format(zone), 1, 3)) = zone
  /\ kg_tz_step(kg_tz_step(zone, 1), -1) = zone

\* The cursor of a field stays on a digit, and what is typed leaves the mask alone.
OnDigits ==
  /\ DigitsOf(field.text) # {} => field.pos \in DigitsOf(field.text)
  /\ field.text = <<>> \/ \E t \in Masks : Len(t) = Len(field.text) /\ DigitsOf(t) = DigitsOf(field.text)
  /\ Len(field.text) = 5 => kg_time_parse(field.text) \in -1 .. 1439

CalendarRight == CountsDays /\ OffsetRight /\ ParsesDates /\ ZonesRead /\ OnDigits
=============================================================================
