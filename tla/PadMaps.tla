------------------------------- MODULE PadMaps -------------------------------
(***************************************************************************)
(* What a report of a pad means, as pure algorithms: the rules of a driver *)
(* ini, the rule that is learned from a press, the default map that is     *)
(* built from a report descriptor, and the reading of a Sega pad.  Bytes   *)
(* and bits are numbers, a set of buttons is a bit mask of the code.       *)
(***************************************************************************)
EXTENDS Integers, Sequences, FiniteSets, SequencesExt

CONSTANTS
  LearnCases,    \* [rests, press]: reports at rest, then one of a press
  DescCases,     \* descriptors, sequences of chunks: [id, items, bits, gives]
  AxisCases,     \* [field, raw]
  SegaCases,     \* [pad, six]: the pad, and what was there before
  RestMargin, AxisMin, MaxUsages, MaxReportIds, MaxPush, MaxFields

VARIABLE mapCase \* the inputs looked at: [kind, in]

mapVars == mapCase
MapInit == mapCase = [kind |-> "none", in |-> {}]
Look ==
  /\ mapCase.kind = "none"
  /\ mapCase' \in [kind : {"learn"}, in : LearnCases] \cup [kind : {"desc"}, in : DescCases]
                  \cup [kind : {"axis"}, in : AxisCases] \cup [kind : {"sega"}, in : SegaCases]

Bit(v, n) == (v \div 2^n) % 2 = 1
Xor(a, b) == {n \in 0 .. 7 : Bit(a, n) # Bit(b, n)}
Nibble(v, shift) == (v \div 2^shift) % 16
AsSigned(u) == IF u > 127 THEN u - 256 ELSE u

-----------------------------------------------------------------------------
(* hid_joy_map.c                                                           *)

\* hid_joy_type_e
VALUE == 0
BIT == 1
HAT == 2
RANGE == 3
BIT_CLEAR == 4

Rule(pos, type, val, arg) == [pos |-> pos, type |-> type, val |-> val, arg |-> arg]

\* parse_rule(): the fields of "pos,type,value[,arg]", none above 255.
parse_rule(f) ==
  LET n == Len(f)  type == f[2]  val == IF n > 2 THEN f[3] ELSE 0  arg == IF n > 3 THEN f[4] ELSE 0
      ok == /\ n \in 1 .. 4 /\ \A i \in 1 .. n : f[i] \in 0 .. 255
            /\ \/ type = VALUE /\ n <= 3
               \/ type \in {BIT, BIT_CLEAR} /\ n <= 3 /\ val <= 7
               \/ type = HAT /\ val <= 7 /\ arg <= 4
               \/ type = RANGE /\ n = 4 /\ val <= arg
  IN IF ok THEN <<Rule(f[1], type, val, arg)>> ELSE <<>>

rule_pressed(r, b) ==
  CASE r.type = VALUE -> b = r.val
    [] r.type = BIT -> Bit(b, r.val)
    [] r.type = BIT_CLEAR -> ~Bit(b, r.val)
    [] r.type = RANGE -> r.val <= b /\ b <= r.arg
    [] r.type = HAT -> Nibble(b, r.arg) <= 7 /\ (Nibble(b, r.arg) - r.val) % 8 \in {0, 1, 7}
hid_joy_map_report(rules, report) ==
  {r \in Range(rules) : r.pos < Len(report) /\ rule_pressed(r, report[r.pos + 1])}

-----------------------------------------------------------------------------
(* hid_learn.c: a rest is the reports seen; they have one id and length.   *)

Lo(S) == CHOOSE x \in S : \A y \in S : x <= y
Hi(S) == CHOOSE x \in S : \A y \in S : x >= y
RestBytes(rests, i) == {rests[k][i] : k \in DOMAIN rests}
Readings(rests, i, sgn) == IF sgn THEN {AsSigned(b) : b \in RestBytes(rests, i)} ELSE RestBytes(rests, i)
Reading(b, sgn) == IF sgn THEN AsSigned(b) ELSE b

is_stable(rests, i) == Lo(RestBytes(rests, i)) = Hi(RestBytes(rests, i))
is_signed(rests, i) ==
  LET s == Readings(rests, i, TRUE) u == Readings(rests, i, FALSE) IN Hi(s) - Lo(s) < Hi(u) - Lo(u)
beyond(S, v) == IF v < Lo(S) THEN Lo(S) - v ELSE IF v > Hi(S) THEN v - Hi(S) ELSE 0

hid_learn_rest_moved(rests, d) ==
  \E i \in DOMAIN d : \A sgn \in BOOLEAN : beyond(Readings(rests, i, sgn), Reading(d[i], sgn)) > RestMargin

\* C divides towards 0.
Half(n) == IF n < 0 THEN -((-n) \div 2) ELSE n \div 2

\* axis_move(): how far a byte is from its rest, and the range from halfway on.
\* Mutant: the range begins at the rest.
halfway_at_rest(rest, v, sgn) == rest
halfway(rest, v, sgn) == rest + v

axis_move(rests, i, v) ==
  LET sgn == is_signed(rests, i)
      S   == Readings(rests, i, sgn)
      low == Half(halfway(Lo(S), v, sgn))
      up  == Half(halfway(Hi(S), v, sgn) + 1)
      Range8(from, to) == Rule(i - 1, RANGE, from % 256, to % 256)
  IN CASE v < Lo(S) - AxisMin ->
            [dist |-> Lo(S) - v,
             rule |-> Range8(IF sgn THEN -128 ELSE 0, IF sgn /\ Lo(S) >= 0 /\ low >= 0 THEN -1 ELSE low)]
       [] v > Hi(S) + AxisMin ->
            [dist |-> v - Hi(S),
             rule |-> Range8(IF sgn /\ Hi(S) <= 0 /\ up <= 0 THEN 1 ELSE up, IF sgn THEN 127 ELSE 255)]
       [] OTHER -> [dist |-> 0, rule |-> Rule(0, VALUE, 0, 0)]

\* hid_learn_detect(): a hat, then a bit, in a byte that does not jitter, else the
\* axis that moved most; the first in the report wins.
Hats(rests, d) ==
  {h \in (DOMAIN d) \X {0, 4} :
    LET i == h[1]  s == h[2]  b == Last(rests)[i]
    IN /\ is_stable(rests, i) /\ Nibble(b, s) >= 8 /\ Nibble(d[i], s) <= 7
       /\ \A n \in Xor(b, d[i]) : n \div 4 = s \div 4}
Bits(rests, d) ==
  {i \in DOMAIN d : is_stable(rests, i) /\ Cardinality(Xor(Last(rests)[i], d[i])) = 1
                    /\ Last(rests)[i] \notin 96 .. 159}

hid_learn_detect(rests, d) ==
  LET hats == Hats(rests, d)
      bits == Bits(rests, d)
      move(i) == axis_move(rests, i, Reading(d[i], is_signed(rests, i)))
      most == Hi({move(i).dist : i \in DOMAIN d})
  IN IF hats # {}
     THEN LET i == Lo({h[1] : h \in hats})  s == Lo({h[2] : h \in {g \in hats : g[1] = i}})
          IN <<Rule(i - 1, HAT, Nibble(d[i], s), s)>>
     ELSE IF bits # {}
     THEN LET i == Lo(bits)  n == CHOOSE n \in Xor(Last(rests)[i], d[i]) : TRUE
          IN <<Rule(i - 1, IF Bit(d[i], n) THEN BIT ELSE BIT_CLEAR, n, 0)>>
     ELSE IF most = 0 THEN <<>> ELSE <<move(Lo({i \in DOMAIN d : move(i).dist = most})).rule>>

hid_learn_is_rest(rests, d) ==
  \A i \in DOMAIN d :
    IF is_stable(rests, i) THEN d[i] = Last(rests)[i]
    ELSE LET sgn == is_signed(rests, i)
         IN beyond(Readings(rests, i, sgn), Reading(d[i], sgn)) <= RestMargin

\* hid_learn_format_rule(): the fields it writes.
hid_learn_format_rule(r) ==
  <<r.pos, r.type, r.val>> \o (IF r.type = RANGE \/ (r.type = HAT /\ r.arg # 0) THEN <<r.arg>> ELSE <<>>)

-----------------------------------------------------------------------------
(* hid_auto_map.c.  An item is [tag, val, size], a usage its page and id.  *)

button_map == <<"X", "A", "B", "Y", "C", "Z", "C", "Z", "MODE", "START">>
desktop == [DpadUp |-> "UP", DpadDown |-> "DOWN", DpadLeft |-> "LEFT", DpadRight |-> "RIGHT",
            Start |-> "START", Select |-> "MODE"]
Pads == {"Joystick", "Gamepad", "MultiAxis"}

Globals == [page |-> "none", min |-> 0, max |-> 0, bits |-> 0, count |-> 0, id |-> 0]
Parser == [g |-> Globals, stack |-> <<>>, usages |-> <<>>, depth |-> 0, app |-> "none",
           offsets |-> <<>>, seen |-> {}, fields |-> <<>>]

\* usage_at(): the last usage serves the rest of the fields.
usage_at(p, i) == p.usages[IF i < Len(p.usages) THEN i ELSE Len(p.usages)]

add_field(p, kind, btn, offset) ==
  IF Len(p.fields) = MaxFields THEN p
  ELSE [p EXCEPT !.fields = Append(@, [id |-> p.g.id, kind |-> kind, btn |-> btn, bits |-> p.g.bits,
                                       offset |-> offset, min |-> p.g.min, max |-> p.g.max])]
classify(p, u, offset) ==
  CASE u[1] = "Button" -> IF u[2] \in DOMAIN button_map THEN add_field(p, "button", button_map[u[2]], offset) ELSE p
    [] u[1] = "Desktop" /\ u[2] \in {"X", "Y", "Hat"} ->
         IF u[2] \in p.seen THEN p ELSE add_field([p EXCEPT !.seen = @ \cup {u[2]}], u[2], "none", offset)
    [] u[1] = "Desktop" /\ u[2] \in DOMAIN desktop -> add_field(p, "button", desktop[u[2]], offset)
    [] OTHER -> p

\* offset_of(), input_item(): the fields of one report id follow each other, those
\* that are not mapped take their place too.
\* Mutant: the padding takes none.
takes_place_data(item) == item.val = "data"
takes_place(item) == TRUE

OffsetOf(p) == LET at == {n \in DOMAIN p.offsets : p.offsets[n].id = p.g.id}
               IN IF at = {} THEN 0 ELSE p.offsets[Lo(at)].bits
input_item(p, item) ==
  LET known == \E n \in DOMAIN p.offsets : p.offsets[n].id = p.g.id
      start == OffsetOf(p)
      each(q, i) == classify(q, usage_at(p, i), start + (i - 1) * p.g.bits)
      mapped == item.val = "data" /\ p.g.bits \in 1 .. 32 /\ p.app \in Pads /\ p.usages # <<>>
      q == IF mapped THEN FoldLeft(each, p, [i \in 1 .. p.g.count |-> i]) ELSE p
      bits == start + (IF takes_place(item) THEN p.g.bits * p.g.count ELSE 0)
  IN IF ~known /\ Len(p.offsets) = MaxReportIds THEN p
     ELSE [q EXCEPT !.offsets = SelectSeq(@, LAMBDA o : o.id # p.g.id) \o <<[id |-> p.g.id, bits |-> bits]>>]

\* The items of a descriptor one after another; a maximum of one byte 0xff is 255.
Clear(p) == [p EXCEPT !.usages = <<>>]
SignedVal(item) == IF item.val >= 2^(8 * item.size - 1) THEN item.val - 2^(8 * item.size) ELSE item.val
item_done(p, item) ==
  CASE item.tag = "input" -> Clear(input_item(p, item))
    [] item.tag = "collection" ->
         Clear([p EXCEPT !.depth = @ + 1,
                  !.app = IF p.depth # 0 \/ item.val # "application" THEN @
                          ELSE IF p.usages = <<>> THEN "none" ELSE p.usages[1][2]])
    [] item.tag = "end" ->
         LET depth == IF p.depth > 0 THEN p.depth - 1 ELSE 0
         IN Clear([p EXCEPT !.depth = depth, !.app = IF depth = 0 THEN "none" ELSE @])
    [] item.tag \in {"page", "bits", "count", "id"} -> [p EXCEPT !.g[item.tag] = item.val]
    [] item.tag = "min" -> [p EXCEPT !.g.min = SignedVal(item)]
    [] item.tag = "max" -> [p EXCEPT !.g.max = IF SignedVal(item) < p.g.min THEN item.val ELSE SignedVal(item)]
    [] item.tag = "push" -> IF Len(p.stack) < MaxPush THEN [p EXCEPT !.stack = Append(@, p.g)] ELSE p
    [] item.tag = "pop" ->
         IF p.stack = <<>> THEN p ELSE [p EXCEPT !.g = Last(p.stack), !.stack = Front(@)]
    [] item.tag = "usage" ->
         IF Len(p.usages) < MaxUsages THEN [p EXCEPT !.usages = Append(@, <<p.g.page, item.val>>)] ELSE p
    [] item.tag = "usages" -> \* usage_min .. usage_max
         [p EXCEPT !.usages = [i \in 1 .. item.size |-> <<p.g.page, item.val + i - 1>>]]
    [] OTHER -> p
hid_auto_map_build(items) == FoldLeft(item_done, Parser, items).fields

\* read_bits(), the sign, then what each kind of field presses.
read_bits(data, f) == FoldLeft(LAMBDA n, b : n + data[f.offset + b] * 2^(b - 1), 0, [b \in 1 .. f.bits |-> b])
Value(f, raw) == IF f.min < 0 /\ raw >= 2^(f.bits - 1) THEN raw - 2^f.bits ELSE raw
hat_dirs == <<{"UP"}, {"UP", "RIGHT"}, {"RIGHT"}, {"DOWN", "RIGHT"},
              {"DOWN"}, {"DOWN", "LEFT"}, {"LEFT"}, {"UP", "LEFT"}>>
Presses(f, v) ==
  LET range  == f.max - f.min
      centre == f.min + f.max
      low    == IF f.kind = "X" THEN "LEFT" ELSE "UP"
      high   == IF f.kind = "X" THEN "RIGHT" ELSE "DOWN"
  IN CASE f.kind = "button" -> IF v # 0 THEN {f.btn} ELSE {}
       [] f.kind \in {"X", "Y"} /\ range > 0 ->
            IF 2 * v < centre - range \div 2 THEN {low}
            ELSE IF 2 * v > centre + range \div 2 THEN {high} ELSE {}
       [] f.kind = "Hat" /\ v \in f.min .. f.max /\ range \in {3, 7} -> hat_dirs[(v - f.min) * (8 \div (range + 1)) + 1]
       [] OTHER -> {}
hid_auto_map_report(fields, id, data) ==
  UNION {Presses(f, Value(f, read_bits(data, f))) :
          f \in {f \in Range(fields) : f.id = id /\ f.offset + f.bits <= Len(data)}}

-----------------------------------------------------------------------------
(* sega.c: the lines of a pad, low when pressed, by the cycle (its select  *)
(* is high in the odd ones); a 6-button pad answers its third low one.     *)

Lines(pad, cycle) ==
  IF pad.type = "none" THEN [l \in 0 .. 5 |-> FALSE]
  ELSE CASE cycle % 2 = 0 /\ cycle # 4 ->
              [l \in 0 .. 5 |-> IF l < 4 THEN l > 1 \/ <<"UP", "DOWN">>[l + 1] \in pad.held ELSE <<"A", "START">>[l - 3] \in pad.held]
         [] cycle = 4 ->
              [l \in 0 .. 5 |-> IF l < 4 THEN pad.type = "six" \/ l > 1 \/ <<"UP", "DOWN">>[l + 1] \in pad.held
                                 ELSE <<"A", "START">>[l - 3] \in pad.held]
         [] pad.type = "six" /\ cycle = 5 ->
              [l \in 0 .. 5 |-> IF l < 4 THEN <<"Z", "Y", "X", "MODE">>[l + 1] \in pad.held ELSE FALSE]
         [] OTHER -> [l \in 0 .. 5 |-> <<"UP", "DOWN", "LEFT", "RIGHT", "B", "C">>[l + 1] \in pad.held]

read_cycle(s, pad, cycle) ==
  LET low == Lines(pad, cycle)
      at(names) == {names[l + 1] : l \in {l \in 0 .. Len(names) - 1 : low[l]}}
  IN CASE cycle = 2 ->
            LET on == low[2] /\ low[3]
            IN [s EXCEPT !.on = on, !.held = IF on THEN {<<"A", "START">>[l - 3] : l \in {l \in 4 .. 5 : low[l]}} ELSE {}]
       [] cycle = 3 -> [s EXCEPT !.held = @ \cup at(<<"UP", "DOWN", "LEFT", "RIGHT", "B", "C">>)]
       [] cycle = 4 -> [s EXCEPT !.six = low[0] /\ low[1]]
       [] cycle = 5 /\ s.six -> [s EXCEPT !.held = @ \cup at(<<"Z", "Y", "X", "MODE">>)]
       [] OTHER -> s
sega_state(six, pad) ==
  LET read(s, c) == read_cycle(s, pad, c)
      s == FoldLeft(read, [on |-> FALSE, held |-> {}, six |-> six], <<0, 1, 2, 3, 4, 5, 6, 7>>)
  IN [s EXCEPT !.six = s.on /\ @]

-----------------------------------------------------------------------------
(* Properties of every case.                                               *)

\* A learned rule is pressed by the report it is learned from and by none at
\* rest, the parser reads back what is written, the press is no release, and the
\* reports at rest neither moved nor are presses.
Learned(c) ==
  LET r == hid_learn_detect(c.rests, c.press)
  IN /\ \A n \in DOMAIN c.rests :
          hid_learn_is_rest(c.rests, c.rests[n]) /\ ~hid_learn_rest_moved(c.rests, c.rests[n])
     /\ r # <<>> =>
          /\ hid_joy_map_report(r, c.press) # {}
          /\ \A n \in DOMAIN c.rests : hid_joy_map_report(r, c.rests[n]) = {}
          /\ parse_rule(hid_learn_format_rule(r[1])) = r
          /\ ~hid_learn_is_rest(c.rests, c.press)

\* The default map finds each field of a pad where the chunks before it with the
\* same report id put it, the first X, Y and hat only, and none of a mouse.
Items(d) ==
  <<[tag |-> "page", val |-> "Desktop"], [tag |-> "usage", val |-> d.app],
    [tag |-> "collection", val |-> "application"]>>
  \o FlattenSeq([n \in DOMAIN d.chunks |-> <<[tag |-> "id", val |-> d.chunks[n].id]>> \o d.chunks[n].items])
  \o <<[tag |-> "end", val |-> 0]>>
Before(d, n) == FoldLeft(LAMBDA sum, k : sum + d.chunks[k].bits, 0,
                         SelectSeq([k \in 1 .. n - 1 |-> k], LAMBDA k : d.chunks[k].id = d.chunks[n].id))
Fields(d) ==
  UNION {{[g EXCEPT !.offset = @ + Before(d, n)] :
           g \in {g \in d.chunks[n].gives :
             g.kind # "button" => \A k \in 1 .. n - 1 : \A h \in d.chunks[k].gives : h.kind # g.kind}} :
         n \in DOMAIN d.chunks}
Found(d) ==
  {[kind |-> f.kind, btn |-> f.btn, bits |-> f.bits, offset |-> f.offset, id |-> f.id] :
    f \in Range(hid_auto_map_build(Items(d)))}
    = IF d.app \in Pads THEN {[kind |-> f.kind, btn |-> f.btn, bits |-> f.bits, offset |-> f.offset, id |-> f.id] :
                               f \in Fields(d)} ELSE {}

\* A direction is pressed beyond a quarter of the range from the centre.
Directed(c) ==
  LET v    == Value(c.field, c.raw)
      from == 2 * v - (c.field.min + c.field.max)
  IN Presses(c.field, v) =
       IF 2 * (IF from < 0 THEN -from ELSE from) <= c.field.max - c.field.min THEN {}
       ELSE IF from < 0 THEN {"LEFT"} ELSE {"RIGHT"}

\* A Sega pad reads as what is held on it, whatever was there before.
Three == {"UP", "DOWN", "LEFT", "RIGHT", "A", "B", "C", "START"}
SegaRead(c) ==
  LET s == sega_state(c.six, c.pad)
  IN /\ s.on = (c.pad.type # "none")
     /\ s.held = CASE c.pad.type = "none" -> {} [] c.pad.type = "three" -> c.pad.held \cap Three [] OTHER -> c.pad.held

MapsRight ==
  CASE mapCase.kind = "learn" -> Learned(mapCase.in)
    [] mapCase.kind = "desc" -> Found(mapCase.in)
    [] mapCase.kind = "axis" -> Directed(mapCase.in)
    [] mapCase.kind = "sega" -> SegaRead(mapCase.in)
    [] OTHER -> TRUE

-----------------------------------------------------------------------------
(***************************************************************************)
(* The learning of a USB pad and its two screens: core1 captures the raw   *)
(* reports of the first pad that changes, APP lets it rest, asks for the   *)
(* buttons one after another and saves the rules as a driver.  What a      *)
(* report means is left to PadMaps: here it is what is held, "rest" or a   *)
(* button, and the id it comes under.  A time is over when APP finds it so. *)
(***************************************************************************)

CONSTANTS
  LearnPads,     \* the pads, by vid and pid
  LearnIndex,    \* the indices of hid_info
  HeldOnPad,     \* what can be held on a pad, and "rest"
  LearnButtons,  \* HID_JOY_BUTTONS
  ReportIds,     \* the ids a pad reports under
  LearnScreens,  \* "text", "graphic"
  MaxFeeds, MaxLearnKeys, MaxSwaps, MaxLate, MaxPorts  \* bounds

VARIABLES
  padAt,     \* the pad at each index of hid_info
  capture,   \* [on, inst, seq, rep], inst = 0 while no pad is chosen
  hashes,    \* capture_hash: the first report of each index, or none
  pl,        \* the learning: [state, btn, last_seq, rep, rest, mapped, rules, live, changed]
  pads2,     \* the sources of the two ports as they are
  page,      \* the screen: [kind, view, pads, port, btn, msg, joy]
  drawn,     \* what it shows
  learnPast  \* history: [feeds, keys, swaps, late, ports, released, steady]

learnVars == <<padAt, capture, hashes, pl, pads2, page, drawn, learnPast>>

NoRep  == [pad |-> "none", id |-> 0, data |-> "none"]
NoRest == [id |-> 0, seen |-> {}]
Asked  == 0 .. LearnButtons - 1
Over   == {"done", "saved", "failed"}

ASSUME LearnAssumption ==
  /\ LearnButtons \in Nat \ {0} /\ LearnScreens \subseteq {"text", "graphic"}
  /\ LearnIndex \subseteq Nat \ {0} /\ ReportIds \subseteq Nat

LearnInit ==
  /\ padAt \in [LearnIndex -> LearnPads] /\ \A i, j \in LearnIndex : i < j => padAt[i] # padAt[j]
  /\ capture = [on |-> FALSE, inst |-> 0, seq |-> 0, rep |-> NoRep]
  /\ hashes = [i \in LearnIndex |-> NoRep]
  /\ pl = [state |-> "idle", btn |-> 0, last_seq |-> 0, rep |-> NoRep, rest |-> NoRest, mapped |-> {},
           rules |-> [b \in Asked |-> NoRep], live |-> "none", changed |-> FALSE]
  /\ pads2 = <<"driver", "none">>
  /\ page \in [kind : LearnScreens, view : {"idle"}, pads : {pads2}, port : {1}, btn : {0},
               msg : {"none"}, joy : {"none"}]
  /\ drawn = {}
  /\ learnPast = [feeds |-> 0, keys |-> 0, swaps |-> 0, late |-> 0, ports |-> 0, released |-> TRUE,
                  steady |-> TRUE]

Count(what) == [learnPast EXCEPT ![what] = @ + 1]

-----------------------------------------------------------------------------
(* core1: capture_feed().                                                  *)

\* The pad is the first whose report changes; then only its reports are taken.
\* Mutant: any report is.
chosen_any(inst, i) == inst # 0
chosen(inst, i) == inst = i

capture_feed ==
  /\ learnPast.feeds < MaxFeeds
  /\ \E i \in LearnIndex, d \in HeldOnPad, id \in ReportIds :
       LET rep     == [pad |-> padAt[i], id |-> id, data |-> d]
           changes == hashes[i] # NoRep /\ [hashes[i] EXCEPT !.pad = "none"] # [rep EXCEPT !.pad = "none"]
           inst    == IF capture.inst = 0 /\ changes THEN i ELSE capture.inst
       IN /\ learnPast' = Count("feeds")
          /\ IF ~capture.on THEN UNCHANGED <<capture, hashes>>
             ELSE /\ hashes' = IF hashes[i] = NoRep /\ capture.inst = 0 THEN [hashes EXCEPT ![i] = rep] ELSE hashes
                  /\ capture' = IF chosen(inst, i) THEN [capture EXCEPT !.inst = inst, !.seq = @ + 1, !.rep = rep]
                                ELSE capture
  /\ UNCHANGED <<padAt, pl, pads2, page, drawn>>

\* Another pad is plugged in where one was.
Swap ==
  /\ learnPast.swaps < MaxSwaps /\ learnPast' = Count("swaps")
  /\ \E i \in LearnIndex, p \in LearnPads : p # padAt[i] /\ padAt' = [padAt EXCEPT ![i] = p]
  /\ UNCHANGED <<capture, hashes, pl, pads2, page, drawn>>

-----------------------------------------------------------------------------
(* APP: pad_learn.c.                                                       *)

set_state(q, s) == [q EXCEPT !.state = s, !.changed = TRUE]

pl_start == [pl EXCEPT !.state = "select", !.btn = 0, !.last_seq = 0, !.rest = NoRest, !.mapped = {},
                       !.live = "none", !.changed = TRUE]
hid_capture_start == capture' = [capture EXCEPT !.on = TRUE, !.inst = 0, !.seq = 0]
                     /\ hashes' = [i \in LearnIndex |-> NoRep]
pl_stop == pl' = [pl EXCEPT !.state = "idle"] /\ capture' = [capture EXCEPT !.on = FALSE] /\ UNCHANGED hashes

next_button(q) ==
  IF q.btn + 1 < LearnButtons THEN set_state([q EXCEPT !.btn = @ + 1], "press")
  ELSE set_state([q EXCEPT !.btn = @ + 1, !.live = "none"], "done")
pl_skip(q) == IF q.state = "press" THEN next_button(q) ELSE q
pl_back(q) ==
  IF q.state \in {"press", "release", "done"} /\ q.btn > 0
  THEN set_state([q EXCEPT !.btn = @ - 1, !.mapped = @ \ {q.btn - 1}], "press") ELSE q
pl_save(q, ok) ==
  IF q.state = "done" /\ q.mapped # {}
  THEN set_state([q EXCEPT !.live = "none"], IF ok THEN "saved" ELSE "failed") ELSE q

\* A report against the rest: hid_learn_rest_add(), _moved(), _detect(), _is_rest().
rest_add(rest, rep) ==
  IF rest.seen = {} THEN [id |-> rep.id, seen |-> {rep.data}]
  ELSE IF rep.id = rest.id THEN [rest EXCEPT !.seen = @ \cup {rep.data}] ELSE rest
pressed_in(rest, rep) == rest.seen # {} /\ rep.id = rest.id /\ rep.data \notin rest.seen
is_rest(rest, rep) == rep.id = rest.id /\ rep.data \in rest.seen

\* The rest begins again when the pad is touched.
\* Mutant: it goes on.
again_not(rest, rep) == FALSE
again(rest, rep) == pressed_in(rest, rep)

\* The steps: q has the latest report, late says that the time of the step is over.
step(q, fresh, late) ==
  CASE q.state = "select" -> IF fresh THEN set_state(q, "settle") ELSE q
    [] q.state = "settle" -> IF late THEN [q EXCEPT !.state = "rest", !.rest = NoRest] ELSE q
    [] q.state = "rest" ->
         IF fresh /\ again(q.rest, q.rep) /\ ~late THEN [q EXCEPT !.rest = NoRest]
         ELSE LET rest == IF fresh THEN rest_add(q.rest, q.rep) ELSE q.rest
              IN IF late THEN set_state([q EXCEPT !.btn = 0, !.rest = IF rest.seen = {} THEN rest_add(rest, q.rep) ELSE rest], "press")
                 ELSE [q EXCEPT !.rest = rest]
    [] q.state = "press" ->
         IF fresh /\ pressed_in(q.rest, q.rep)
         THEN set_state([q EXCEPT !.mapped = @ \cup {q.btn}, !.rules[q.btn] = q.rep], "release")
         ELSE IF late THEN next_button(q) ELSE q
    [] q.state = "release" -> IF (fresh /\ is_rest(q.rest, q.rep)) \/ late THEN next_button(q) ELSE q
    [] q.state \in Over ->
         IF fresh /\ q.rep.id = q.rest.id THEN [q EXCEPT !.live = q.rep.data, !.changed = @ \/ q.rep.data # q.live] ELSE q
    [] OTHER -> q

-----------------------------------------------------------------------------
(* The screens: app_pad_mapper.c and app_ft_pad.c.                         *)

can_forget(g) == g.pads[g.port] = "driver"
ForgetButton(g) == IF g.kind = "text" THEN 1 ELSE 2
\* list_btns(): a button that is gone gives way to Assign.
list_btns(g) == IF can_forget(g) THEN ForgetButton(g) + 1 ELSE ForgetButton(g)
Fit(g) == IF g.btn >= list_btns(g) THEN [g EXCEPT !.btn = 0] ELSE g

\* What can be read from the screen: the list of the pads, the test, the learning;
\* only the graphic one shows what is held once the learning is over.
ListContent(g) == {<<"list", g.pads, g.port, g.btn, g.msg>>}
TestContent(g) == {<<"test", g.pads, g.joy>>}
StepContent(q) == {<<"learn", IF q.state = "settle" THEN "rest" ELSE q.state, q.btn, q.mapped>>}
PadContent(q) == StepContent(q) \cup (IF q.state \in Over THEN {<<"live", q.live>>} ELSE {})
Content(g, q) ==
  CASE g.view = "list" -> ListContent(g)
    [] g.view = "test" -> TestContent(g)
    [] g.view = "mapping" -> IF g.kind = "text" THEN StepContent(q) ELSE PadContent(q)
    [] OTHER -> {}

show_list(g) == [g EXCEPT !.view = "list", !.btn = 0, !.pads = pads2]

Draw == drawn' = Content(page', pl')

LearnKey ==
  /\ learnPast.keys < MaxLearnKeys /\ UNCHANGED <<padAt, pads2>>

\* app_pad_mapper_overlay(), page_show().
Open ==
  /\ LearnKey /\ page.view = "idle" /\ page' = [show_list(page) EXCEPT !.port = 1, !.msg = "none"]
  /\ pl_stop /\ Draw /\ learnPast' = Count("keys")

\* Esc on the list, or a tab of the graphic setup: the page is left.
Leave ==
  /\ LearnKey /\ page.view = "list" /\ page' = [page EXCEPT !.view = "idle"] /\ drawn' = {}
  /\ learnPast' = Count("keys")
  /\ UNCHANGED <<capture, hashes, pl>>

ListKey ==
  /\ LearnKey /\ page.view = "list" /\ learnPast' = Count("keys")
  /\ \/ page' = Fit([page EXCEPT !.port = 3 - @, !.msg = "none"]) /\ UNCHANGED <<capture, hashes, pl>>
     \/ page' = [page EXCEPT !.btn = (@ + 1) % list_btns(page)] /\ UNCHANGED <<capture, hashes, pl>>
     \/ /\ page.btn = 0 /\ page' = [page EXCEPT !.view = "mapping", !.msg = "none"]
        /\ pl' = pl_start /\ hid_capture_start
     \/ /\ page.kind = "graphic" /\ page.btn = 1 /\ page' = [page EXCEPT !.view = "test", !.msg = "none", !.joy = "none"]
        /\ UNCHANGED <<capture, hashes, pl>>
  /\ Draw

\* forget(): the driver of the pad on the list goes; the renaming may fail.
forget ==
  /\ LearnKey /\ page.view = "list" /\ page.btn = ForgetButton(page) /\ learnPast' = Count("keys")
  /\ UNCHANGED <<capture, hashes, pl>>
  /\ \E ok \in BOOLEAN :
       page' = [page EXCEPT !.btn = 0, !.msg = IF ok THEN "ok" ELSE "failed",
                            !.pads = IF ok /\ pads2[page.port] = "driver" THEN [pads2 EXCEPT ![page.port] = "default"] ELSE pads2]
  /\ Draw

MapKey ==
  /\ LearnKey /\ page.view = "mapping"
  /\ \/ \E q \in {pl_skip(pl), pl_back(pl), pl_save(pl, TRUE), pl_save(pl, FALSE)} :
          /\ pl' = q /\ UNCHANGED <<capture, hashes, page>>
          /\ learnPast' = [Count("keys") EXCEPT !.released = @ /\ ~(pl.state = "release" /\ q # pl)]
     \/ page' = show_list(page) /\ pl_stop /\ learnPast' = Count("keys")
  /\ Draw

\* Esc on the keyboard, or Start+Mode held for 2 s, end the test.
EndTest ==
  /\ LearnKey /\ page.view = "test" /\ learnPast' = Count("keys")
  /\ \/ page' = show_list(page)
     \/ page.joy = "exit" /\ page' = [show_list(page) EXCEPT !.btn = 1]
  /\ pl_stop /\ Draw

\* The tick of the screen in a turn of APP: the pads of the list every 500 ms, the
\* joysticks of the test, the learning.
\* Mutant: the list is not drawn again.
redrawn_not == FALSE
redrawn == TRUE

RefreshPads ==
  /\ page.view \in {"list", "test"} /\ page.pads # pads2 /\ page' = Fit([page EXCEPT !.pads = pads2])
  /\ IF redrawn THEN Draw ELSE UNCHANGED drawn
  /\ UNCHANGED <<padAt, capture, hashes, pl, pads2, learnPast>>
JoyTick ==
  /\ page.view = "test" /\ learnPast.keys < MaxLearnKeys
  /\ \E j \in {"none", "exit"} \ {page.joy} : page' = [page EXCEPT !.joy = j]
  /\ Draw /\ learnPast' = Count("keys")
  /\ UNCHANGED <<padAt, capture, hashes, pl, pads2>>

pl_tick ==
  /\ page.view = "mapping" /\ pl.state # "idle"
  /\ \E late \in IF learnPast.late < MaxLate THEN BOOLEAN ELSE {FALSE} :
       LET fresh == capture.seq # 0 /\ capture.seq # pl.last_seq
           q     == [pl EXCEPT !.rep = IF capture.seq # 0 THEN capture.rep ELSE @,
                               !.last_seq = IF fresh THEN capture.seq ELSE @]
           r     == step(q, fresh, late)
       IN /\ pl' = [r EXCEPT !.changed = FALSE]
          /\ drawn' = IF r.changed THEN Content(page, r) ELSE drawn
          /\ learnPast' = [learnPast EXCEPT !.late = IF late THEN @ + 1 ELSE @,
               !.released = IF pl.state = "release" THEN TRUE ELSE @,
               !.steady = IF pl.state = "settle" THEN TRUE
                          ELSE @ /\ ~(pl.state = "rest" /\ late /\ pressed_in(pl.rest, q.rep))]
  /\ UNCHANGED <<padAt, capture, hashes, pads2, page>>

\* The pads of the ports come and go.
PortChanges ==
  /\ learnPast.ports < MaxPorts /\ learnPast' = Count("ports")
  /\ pads2' \in {<<"none", "none">>, <<"default", "driver">>, <<"driver", "xinput">>}
  /\ UNCHANGED <<padAt, capture, hashes, pl, page, drawn>>

LearnNext ==
  \/ capture_feed \/ Swap \/ PortChanges
  \/ Open \/ Leave \/ ListKey \/ forget \/ MapKey \/ EndTest \/ RefreshPads \/ JoyTick \/ pl_tick

LearnSpec == LearnInit /\ [][LearnNext]_learnVars

-----------------------------------------------------------------------------
(* Properties.                                                             *)

\* What is learned comes from one pad, that of the last report, unless another
\* one was plugged in in its place.
OnePad ==
  learnPast.swaps = 0 => \A b \in pl.mapped : pl.rules[b].pad = pl.rep.pad

\* The rest is one state of the pad, unless it was touched until the end of the wait.
RestSteady == learnPast.steady /\ pl.state # "rest" => Cardinality(pl.rest.seen) <= 1

\* A rule is of a report under the id of the rest, and no report at rest.
RulesPress == \A b \in pl.mapped : pressed_in(pl.rest, pl.rules[b])

\* The reports are captured while the pad is learned, and only then.
CaptureOn == capture.on <=> pl.state # "idle"

\* The screen shows what there is, and Forget only for a pad with a driver.
ScreenRight ==
  /\ ~pl.changed => drawn = Content(page, pl)
  /\ page.view = "list" /\ page.btn = ForgetButton(page) => can_forget(page)

LearnRight == OnePad /\ RestSteady /\ RulesPress /\ CaptureOn /\ ScreenRight

\* A button that was skipped is not mapped (pad_learn.h 52).
SkipUnmaps ==
  [][pl.state = "press" /\ pl'.btn = pl.btn + 1 => pl.btn \notin pl'.mapped]_learnVars
\* The chosen pad changed under one report id (hid_app.c 408).
ChosenChanged ==
  [][capture.inst = 0 /\ capture'.inst # 0 => hashes[capture'.inst].id = capture'.rep.id]_learnVars
\* A press is learned after the one before was let go, or the wait for it ended.
LetGo == [][pl'.mapped # pl.mapped /\ pl'.state = "release" => learnPast.released]_learnVars
=============================================================================
