---------------------------- MODULE CoreMenuProofs ----------------------------
(***************************************************************************)
(* Theorems about CoreMenu, for all core files, drives and hotkeys: the    *)
(* menu of a core can be used whenever it is on the screen, and a kgo2     *)
(* core has the images that it shows and its card what was chosen.         *)
(*                                                                         *)
(* The record m goes through the functions of the module one after another *)
(* in a step, so there is one lemma per function: what it needs and what   *)
(* it leaves of Good (or of its part Sound, inside a step), for any record *)
(* and not only for m.  The actions follow from them.                      *)
(***************************************************************************)
EXTENDS CoreMenu, WellFoundedInduction, TLAPS

-----------------------------------------------------------------------------
(* The invariant.                                                          *)

Items == [type : ItemTypes, opts : Seq(Nat), val : Nat, sw : Nat, slot : Nat, page : Nat,
          opens : Nat, cond : Conditions]

\* The items are those of a file of the card, and none behind their end.
ItemsRight ==
  /\ cfile \in MenuFiles /\ osd_len \in 0 .. MaxItems /\ osd \in [1 .. MaxItems -> Items]
  /\ \A i \in 1 .. MaxItems : i > osd_len => osd[i] = NoItem

Lists == [of : {"none", "slot", "loader"}, slot : Slots, dir : Dirs, eject : BOOLEAN]
Kepts == [val : [1 .. osd_len -> Nat], path : [Slots -> Paths]]
MenuRecs ==
  [curr : 1 .. MaxItems, page : Nat, pcur : [Pages -> 0 .. MaxItems],
   fb : BOOLEAN, fbdir : Dirs, fbslot : Slots \cup {-1}, list : Lists, last : Slots \cup {-1},
   slots : [Slots -> Slot], img : [Slots -> Paths], save : BOOLEAN, dirty : BOOLEAN, kept : Kepts]

\* The cursor is where it can be.
Fitted(x, o) == Actives(o, x.page) # {} => x.curr \in Actives(o, x.page)

\* A list that was read is of its slot; an eject entry that is not of a drive is there
\* before any dir was entered.
ListFits(x) ==
  x.fbslot # -1 =>
    /\ x.list.of = "slot" /\ x.list.slot = x.fbslot /\ x.list.dir = x.slots[x.fbslot].dir
    /\ x.list.eject => x.slots[x.fbslot].on
    /\ x.fb /\ x.list.eject /\ osd[x.curr].type # "F" => x.slots[cur_slot(x)].dir = x.fbdir

\* The core has the images of the slots; the slot that is browsed had its before.
Mounted(x, t) == IF x.fb /\ t = cur_slot(x) THEN [x.slots[t] EXCEPT !.dir = x.fbdir] ELSE x.slots[t]
ImagesFit(x) ==
  \A t \in Slots : x.img[t] = Path(Mounted(x, t)) /\ (x.slots[t].on <=> x.slots[t].file # "")

\* A physical drive is in one of them, of a drive.
DrivesApart(p) ==
  \A t \in Slots : Len(p[t]) = 1 =>
    /\ \E i \in 1 .. osd_len : osd[i].type = "F" /\ SlotOf(i) = t
    /\ \A u \in Slots : p[u] = p[t] => u = t
Apart(x) == Kgo2 => DrivesApart(x.img) /\ DrivesApart(x.kept.path)

Sound(x) == x \in MenuRecs /\ (x.fb => IsFile(osd[x.curr].type)) /\ ListFits(x) /\ ImagesFit(x) /\ Apart(x)

\* What the card has of the items o.
Options(o) == [i \in 1 .. osd_len |-> IF o[i].type = "S" THEN o[i].val ELSE 0]
KeptFits(x, o) ==
  Kgo2 =>
    /\ \A i \in 1 .. osd_len : osd[i].type # "S" => x.kept.val[i] = 0
    /\ ~x.save /\ ~x.dirty => x.kept.val = Options(o) /\ x.kept.path = x.img

\* The list that is open was read.
Browsed(x) == x.fb => x.fbslot = cur_slot(x)
Good(x, o) == Sound(x) /\ KeptFits(x, o) /\ Browsed(x)

\* The same items with other values.
Shape(o) ==
  /\ o \in [1 .. MaxItems -> Items]
  /\ \A i \in 1 .. MaxItems :
       /\ o[i].type = osd[i].type /\ o[i].page = osd[i].page /\ o[i].slot = osd[i].slot
       /\ o[i].opens = osd[i].opens /\ o[i].opts = osd[i].opts

\* Only cursor, page and the pages' cursors may differ; only what is to be saved.
Moved(x, y) ==
  /\ y \in MenuRecs /\ y.fb = x.fb /\ y.fbdir = x.fbdir /\ y.fbslot = x.fbslot
  /\ y.list = x.list /\ y.last = x.last /\ y.slots = x.slots /\ y.img = x.img
  /\ y.save = x.save /\ y.dirty = x.dirty /\ y.kept = x.kept
Saved(x, y) ==
  /\ y \in MenuRecs /\ y.curr = x.curr /\ y.page = x.page /\ y.pcur = x.pcur
  /\ y.fb = x.fb /\ y.fbdir = x.fbdir /\ y.fbslot = x.fbslot
  /\ y.list = x.list /\ y.last = x.last /\ y.slots = x.slots /\ y.img = x.img

WindowRight ==
  /\ {listed, is_osd, hiding, popup, menu_on} \subseteq BOOLEAN
  /\ screen \in {"menu", "loader", "other"}
  /\ hiding => is_osd /\ ~menu_on
  /\ ~hiding => is_osd = menu_on
  /\ listed => screen = "loader"
CursorFits ==
  /\ m.fb => screen = "menu"
  /\ screen = "menu" /\ ~popup /\ ~m.fb => Fitted(m, osd)

MenuInv == ItemsRight /\ WindowRight /\ CursorFits /\ Good(m, osd)

-----------------------------------------------------------------------------
\* A set of naturals that is not empty has a least element.
LEMMA LeastIn == ASSUME NEW T, T \subseteq Nat, T # {} PROVE Min(T) \in T
<1> DEFINE Less == OpToRel(<, Nat)
<1>1. PICK x \in T : \A y \in T : ~(<<y, x>> \in Less)
  <2> HIDE DEF Less
  <2> QED
    BY NatLessThanWellFounded, WFMin DEF Less
<1>2. \A y \in T : x <= y
  <2>1. SUFFICES ASSUME NEW y \in T PROVE x <= y
    OBVIOUS
  <2>2. <<y, x>> \in Nat \X Nat
    OBVIOUS
  <2>3. ~(y < x)
    BY <1>1, <2>2 DEF OpToRel
  <2> QED
    BY <2>3
<1> QED
  BY <1>2 DEF Min

\* One with a bound has a greatest.
LEMMA GreatestIn == ASSUME NEW T, NEW n \in Nat, T \subseteq 0 .. n, T # {} PROVE Max(T) \in T
<1> DEFINE U == {n - x : x \in T}
<1>1. U \subseteq Nat /\ U # {}
  OBVIOUS
<1>2. Min(U) \in U
  BY <1>1, LeastIn
<1>3. PICK x \in T : Min(U) = n - x
  BY <1>2
<1>4. \E z \in U : \A y \in U : z <= y
  <2> DEFINE Less == OpToRel(<, Nat)
  <2>1. PICK z \in U : \A y \in U : ~(<<y, z>> \in Less)
    <3> HIDE DEF Less, U
    <3> QED
      BY <1>1, NatLessThanWellFounded, WFMin DEF Less
  <2>2. \A y \in U : z <= y
    <3>1. SUFFICES ASSUME NEW y \in U PROVE z <= y
      OBVIOUS
    <3>2. <<y, z>> \in Nat \X Nat
      BY <1>1
    <3>3. ~(y < z)
      BY <2>1, <3>2 DEF OpToRel
    <3> QED
      BY <3>3, <1>1
  <2> QED
    BY <2>2
<1>5. PICK z \in U : \A y \in U : z <= y
  BY <1>4
<1>6. PICK w \in T : z = n - w
  OBVIOUS
<1>7. \A y \in T : w >= y
  <2>1. SUFFICES ASSUME NEW y \in T PROVE w >= y
    OBVIOUS
  <2>2. n - w <= n - y
    BY <1>5, <1>6
  <2>3. w \in Nat /\ y \in Nat
    OBVIOUS
  <2> QED
    BY <2>2, <2>3
<1> QED
  BY <1>7 DEF Max

\* Cutting a list of options leaves options.
LEMMA CutType == \A q \in Seq(Nat), n \in Nat : Cut(q, n) \in Seq(Nat)
<1> SUFFICES ASSUME NEW q \in Seq(Nat), NEW n \in Nat PROVE Cut(q, n) \in Seq(Nat)
  OBVIOUS
<1>1. Len(q) \in Nat
  OBVIOUS
<1>2. \A k \in 0 .. Len(q) : SubSeq(q, 1, k) \in Seq(Nat)
  OBVIOUS
<1> QED
  BY <1>1, <1>2 DEF Cut

\* The first of some places.
LEMMA FirstOf == \A n \in Nat : \A T \in SUBSET (1 .. n) : Least(T) \in 0 .. n /\ (T # {} => Least(T) \in T)
<1>1. SUFFICES ASSUME NEW n \in Nat, NEW T \in SUBSET (1 .. n)
               PROVE  Least(T) \in 0 .. n /\ (T # {} => Least(T) \in T)
  OBVIOUS
<1>2. T \subseteq Nat /\ T \subseteq 1 .. n
  OBVIOUS
<1>3. CASE T = {}
  <2>1. Least(T) = 0
    BY <1>3 DEF Least
  <2> QED
    BY <2>1, <1>3
<1>4. CASE T # {}
  <2>1. Least(T) = Min(T)
    BY <1>4 DEF Least
  <2>2. Min(T) \in T
    BY <1>2, <1>4, LeastIn
  <2>3. Least(T) \in T
    BY <2>1, <2>2
  <2>4. \A e \in T : e \in 0 .. n
    BY <1>2
  <2> QED
    BY <2>3, <2>4
<1> QED
  BY <1>3, <1>4

\* How many items a file gives.
LEMMA ReadLength ==
  \A f \in CoreFiles : count(f) \in 0 .. MaxItems /\ read_len(f) \in 0 .. count(f) /\ count(f) <= Len(f.items)
<1> SUFFICES ASSUME NEW f \in CoreFiles
             PROVE  count(f) \in 0 .. MaxItems /\ read_len(f) \in 0 .. count(f) /\ count(f) <= Len(f.items)
  OBVIOUS
<1>1. Len(f.items) \in Nat /\ MaxItems \in Nat
  BY CoreFileAssumption
<1>2. count(f) \in 0 .. MaxItems /\ count(f) <= Len(f.items)
  BY <1>1 DEF count
<1> DEFINE bad == {i \in 1 .. count(f) : (IsFile(f.items[i].type) /\ f.items[i].slot >= FileSlots) \/ i = f.cut}
<1>3. broken_at(f) = Least(bad)
  BY DEF broken_at
<1>4. bad \subseteq 1 .. count(f)
  OBVIOUS
<1> HIDE DEF bad
<1>5. broken_at(f) \in 0 .. count(f)
  <2>1. count(f) \in Nat /\ bad \in SUBSET (1 .. count(f))
    BY <1>1, <1>2, <1>4
  <2> QED
    BY <2>1, <1>3, FirstOf
<1> QED
  BY <1>1, <1>2, <1>5 DEF read_len

-----------------------------------------------------------------------------
\* Slots and pages of the items.
LEMMA ItemFacts ==
  ASSUME ItemsRight
  PROVE  /\ MaxItems \in Nat /\ osd_len \in Nat /\ osd_len <= MaxItems
         /\ Slots \subseteq Nat /\ 0 \in Slots /\ -1 \notin Slots /\ Pages \subseteq Nat /\ 0 \in Pages
         /\ \A i \in 1 .. MaxItems : IsFile(osd[i].type) => i \in 1 .. osd_len /\ SlotOf(i) \in Slots
         /\ \A i \in 1 .. MaxItems : osd[i].page \in Nat /\ osd[i].val \in Nat
         /\ \A i \in 1 .. osd_len : osd[i].opens \in Pages
<1>1. MaxItems \in Nat /\ osd_len \in Nat /\ osd_len <= MaxItems
  BY CoreFileAssumption DEF ItemsRight
<1>2. \A i \in 1 .. MaxItems : osd[i] \in Items
  BY DEF ItemsRight
<1>3. \A i \in 1 .. MaxItems : osd[i].slot \in Nat /\ osd[i].page \in Nat /\ osd[i].opens \in Nat /\ osd[i].val \in Nat
  BY <1>2 DEF Items
<1>4. \A i \in 1 .. MaxItems : i > osd_len => osd[i].type = "H"
  BY DEF ItemsRight, NoItem
<1>5. \A i \in 1 .. osd_len : i \in 1 .. MaxItems
  BY <1>1
<1>6. \A i \in 1 .. MaxItems : IsFile(osd[i].type) => i \in 1 .. osd_len
  BY <1>1, <1>4 DEF IsFile
<1>7. Slots \subseteq Nat /\ 0 \in Slots /\ -1 \notin Slots
  BY <1>3, <1>5 DEF Slots
<1>8. \A i \in 1 .. MaxItems : IsFile(osd[i].type) => SlotOf(i) \in Slots
  BY <1>6 DEF Slots, SlotOf
<1>9. Pages \subseteq Nat /\ 0 \in Pages /\ \A i \in 1 .. osd_len : osd[i].opens \in Pages
  BY <1>3, <1>5 DEF Pages
<1> QED
  BY <1>1, <1>3, <1>6, <1>7, <1>8, <1>9

\* The items that are shown and those that take the cursor.
LEMMA ActiveItems ==
  ASSUME ItemsRight, NEW o, NEW p
  PROVE  /\ Actives(o, p) \subseteq build_vis(o, p)
         /\ build_vis(o, p) \subseteq 1 .. MaxItems
         /\ \A i \in Actives(o, p) : i \in 1 .. osd_len /\ i \in 1 .. MaxItems /\ o[i].page = p
<1>1. \A i \in 1 .. osd_len : i \in 1 .. MaxItems
  BY ItemFacts
<1>2. Actives(o, p) \subseteq build_vis(o, p)
  BY DEF Actives
<1>3. \A i \in build_vis(o, p) : i \in 1 .. osd_len /\ o[i].page = p
  BY DEF build_vis
<1> QED
  BY <1>1, <1>2, <1>3

\* The first item of a page is one that takes the cursor, if there is one.
LEMMA FirstItem ==
  ASSUME ItemsRight, NEW o, NEW p
  PROVE  first_item(o, p) \in 1 .. MaxItems /\ (Actives(o, p) # {} => first_item(o, p) \in Actives(o, p))
<1> DEFINE A == Actives(o, p)
           V == build_vis(o, p)
<1>1. A \subseteq 1 .. MaxItems /\ V \subseteq 1 .. MaxItems /\ A \subseteq Nat /\ V \subseteq Nat
  BY ActiveItems
<1>2. A # {} => Min(A) \in A
  <2> HIDE DEF A
  <2> QED
    BY <1>1, LeastIn
<1>3. V # {} => Min(V) \in V
  <2> HIDE DEF V
  <2> QED
    BY <1>1, LeastIn
<1>4. first_item(o, p) = IF A # {} THEN Min(A) ELSE IF V # {} THEN Min(V) ELSE 1
  BY DEF first_item
<1>5. 1 \in 1 .. MaxItems
  BY CoreFileAssumption
<1> HIDE DEF A, V
<1>6. first_item(o, p) \in 1 .. MaxItems /\ (A # {} => first_item(o, p) \in A)
  <2>1. CASE A # {}
    BY <2>1, <1>1, <1>2, <1>4
  <2>2. CASE A = {} /\ V # {}
    BY <2>2, <1>1, <1>3, <1>4
  <2>3. CASE A = {} /\ V = {}
    BY <2>3, <1>4, <1>5
  <2> QED
    BY <2>1, <2>2, <2>3
<1> QED
  BY <1>6 DEF A

-----------------------------------------------------------------------------
(* The record of the menu.                                                 *)

\* The fields of a menu.
LEMMA MenuFields ==
  ASSUME NEW x \in MenuRecs
  PROVE  /\ x.curr \in 1 .. MaxItems /\ x.page \in Nat /\ x.pcur \in [Pages -> 0 .. MaxItems]
         /\ x.fb \in BOOLEAN /\ x.fbdir \in Dirs /\ x.fbslot \in Slots \cup {-1} /\ x.list \in Lists
         /\ x.last \in Slots \cup {-1} /\ x.slots \in [Slots -> Slot] /\ x.img \in [Slots -> Paths]
         /\ x.save \in BOOLEAN /\ x.dirty \in BOOLEAN /\ x.kept \in Kepts
BY DEF MenuRecs

\* The cursor moved.
CursorAt(x, c, p) == [x EXCEPT !.page = p, !.curr = c]
\* Then nothing else of the menu has changed.
LEMMA CursorMoves ==
  ASSUME NEW x \in MenuRecs, NEW c \in 1 .. MaxItems, NEW p \in Nat
  PROVE  /\ Moved(x, CursorAt(x, c, p))
         /\ CursorAt(x, c, p).curr = c /\ CursorAt(x, c, p).page = p
<1> DEFINE y == [x EXCEPT !.page = p, !.curr = c]
<1>1. y \in MenuRecs
  BY DEF MenuRecs
<1>2. /\ y.fb = x.fb /\ y.fbdir = x.fbdir /\ y.fbslot = x.fbslot
      /\ y.list = x.list /\ y.last = x.last /\ y.slots = x.slots /\ y.img = x.img
      /\ y.save = x.save /\ y.dirty = x.dirty /\ y.kept = x.kept
  BY DEF MenuRecs
<1>3. y.curr = c /\ y.page = p
  BY DEF MenuRecs
<1>4. CursorAt(x, c, p) = y
  BY DEF CursorAt
<1> HIDE DEF y
<1> QED
  BY <1>1, <1>2, <1>3, <1>4 DEF Moved

\* What a change of values leaves.
LEMMA ShapeFacts ==
  ASSUME ItemsRight, NEW o, Shape(o)
  PROVE  \A i \in 1 .. MaxItems : o[i].page \in Nat /\ o[i].val \in Nat /\ o[i].page = osd[i].page /\ o[i].type = osd[i].type
<1>1. \A i \in 1 .. MaxItems : o[i] \in Items
  BY DEF Shape
<1> QED
  BY <1>1 DEF Items, Shape

\* The items themselves are of their shape.
LEMMA OwnShape == ASSUME ItemsRight PROVE Shape(osd)
BY DEF ItemsRight, Shape

\* menu_sync(): the cursor gets where it can be, nothing else moves.
LEMMA SyncMoves ==
  ASSUME ItemsRight, NEW o, Shape(o), NEW x \in MenuRecs
  PROVE  Moved(x, menu_sync(x, o)) /\ Fitted(menu_sync(x, o), o) /\ menu_sync(x, o).page = o[x.curr].page
<1> DEFINE p == o[x.curr].page
           c == IF x.curr \in Actives(o, p) THEN x.curr ELSE first_item(o, p)
<1>1. x.curr \in 1 .. MaxItems
  BY MenuFields
<1>2. p \in Nat
  BY <1>1, ShapeFacts
<1>3. c \in 1 .. MaxItems /\ (Actives(o, p) # {} => c \in Actives(o, p))
  BY <1>1, FirstItem
<1>4. menu_sync(x, o) = [x EXCEPT !.page = p, !.curr = c]
  BY DEF menu_sync
<1>5. Moved(x, menu_sync(x, o)) /\ menu_sync(x, o).curr = c /\ menu_sync(x, o).page = p
  <2>1. c \in 1 .. MaxItems
    BY <1>3
  <2> HIDE DEF p, c
  <2>2. menu_sync(x, o) = CursorAt(x, c, p)
    BY <1>4 DEF CursorAt
  <2> QED
    BY <1>2, <2>1, <2>2, CursorMoves
<1> QED
  BY <1>3, <1>5 DEF Fitted

\* kg_list_step_active(): to another item of the menu.
LEMMA StepMoves ==
  ASSUME ItemsRight, NEW o, NEW d, NEW x \in MenuRecs
  PROVE  Moved(x, step(x, o, d))
<1> DEFINE others == Actives(o, x.page) \ {x.curr}
           ahead  == {i \in others : IF d > 0 THEN i > x.curr ELSE i < x.curr}
           next   == IF ahead # {} THEN ahead ELSE others
           c      == IF d > 0 THEN Min(next) ELSE Max(next)
<1>1. x.curr \in 1 .. MaxItems /\ x.page \in Nat
  BY MenuFields
<1>2. others \subseteq 1 .. MaxItems /\ ahead \subseteq others /\ next \subseteq others
  BY ActiveItems
<1>3. step(x, o, d) = IF x.curr \notin build_vis(o, x.page) \/ others = {} THEN x ELSE [x EXCEPT !.curr = c]
  BY DEF step
<1>4. others # {} => c \in 1 .. MaxItems
  <2>1. SUFFICES ASSUME others # {} PROVE c \in 1 .. MaxItems
    OBVIOUS
  <2>2. next # {} /\ next \subseteq 1 .. MaxItems
    BY <1>2, <2>1
  <2>3. next \subseteq Nat /\ MaxItems \in Nat /\ next \subseteq 0 .. MaxItems
    BY <2>2, ItemFacts
  <2>4. Min(next) \in next /\ Max(next) \in next
    <3> HIDE DEF next
    <3> QED
      BY <2>2, <2>3, LeastIn, GreatestIn
  <2> QED
    BY <2>2, <2>4
<1>5. Moved(x, x)
  BY DEF Moved
<1>6. others # {} => Moved(x, [x EXCEPT !.curr = c])
  <2>1. SUFFICES ASSUME others # {} PROVE Moved(x, [x EXCEPT !.curr = c])
    OBVIOUS
  <2>2. c \in 1 .. MaxItems
    BY <1>4, <2>1
  <2> HIDE DEF c
  <2>3. CursorAt(x, c, x.page) = [x EXCEPT !.curr = c]
    BY DEF MenuRecs, CursorAt
  <2>4. Moved(x, CursorAt(x, c, x.page))
    BY <1>1, <2>2, CursorMoves
  <2> QED
    BY <2>3, <2>4
<1> QED
  BY <1>3, <1>5, <1>6

\* Another page, and what is kept of the one that is left.
LEMMA PageMoves ==
  ASSUME NEW x \in MenuRecs, NEW c \in 1 .. MaxItems, NEW p \in Nat, MaxItems \in Nat
  PROVE  Moved(x, [x EXCEPT !.pcur[x.page] = x.curr, !.page = p, !.curr = c])
<1> DEFINE q == [x.pcur EXCEPT ![x.page] = x.curr]
           y == [x EXCEPT !.pcur = q, !.page = p, !.curr = c]
<1>1. x.pcur \in [Pages -> 0 .. MaxItems] /\ x.curr \in 0 .. MaxItems
  BY MenuFields
<1>2. q \in [Pages -> 0 .. MaxItems]
  BY <1>1
<1>3. [x EXCEPT !.pcur[x.page] = x.curr, !.page = p, !.curr = c] = y
  BY DEF MenuRecs
<1> HIDE DEF q
<1>4. y \in MenuRecs
  BY <1>2 DEF MenuRecs
<1>5. /\ y.fb = x.fb /\ y.fbdir = x.fbdir /\ y.fbslot = x.fbslot
      /\ y.list = x.list /\ y.last = x.last /\ y.slots = x.slots /\ y.img = x.img
      /\ y.save = x.save /\ y.dirty = x.dirty /\ y.kept = x.kept
  BY DEF MenuRecs
<1> QED
  BY <1>3, <1>4, <1>5 DEF Moved

\* menu_open_page().
LEMMA OpenMoves ==
  ASSUME ItemsRight, NEW o, NEW p \in Pages, NEW x \in MenuRecs
  PROVE  Moved(x, menu_open_page(x, o, p))
<1> DEFINE c == IF x.pcur[p] # 0 /\ x.pcur[p] \in Actives(o, p) THEN x.pcur[p] ELSE first_item(o, p)
<1>1. p \in Nat /\ MaxItems \in Nat
  BY ItemFacts
<1>2. c \in 1 .. MaxItems
  BY FirstItem, ActiveItems
<1>3. menu_open_page(x, o, p) = [x EXCEPT !.pcur[x.page] = x.curr, !.page = p, !.curr = c]
  BY DEF menu_open_page
<1> HIDE DEF c
<1>4. Moved(x, [x EXCEPT !.pcur[x.page] = x.curr, !.page = p, !.curr = c])
  BY <1>1, <1>2, PageMoves
<1> QED
  BY <1>3, <1>4

\* menu_back(): neither does this.
LEMMA BackMoves ==
  ASSUME ItemsRight, NEW o, NEW x \in MenuRecs
  PROVE  Moved(x, menu_back(x, o))
<1> DEFINE e == page_entry(x.page)
           p == IF e = 0 THEN 0 ELSE osd[e].page
           c == IF e = 0 THEN first_item(o, 0) ELSE e
           T == {i \in 1 .. osd_len : osd[i].type = "M" /\ osd[i].opens = x.page}
<1>1. e \in 0 .. osd_len
  <2>1. osd_len \in Nat /\ T \in SUBSET (1 .. osd_len)
    BY ItemFacts
  <2>2. e = Least(T)
    BY DEF page_entry
  <2> HIDE DEF T, e
  <2> QED
    BY <2>1, <2>2, FirstOf
<1>2. e = 0 \/ e \in 1 .. MaxItems
  BY <1>1, ItemFacts
<1>3. p \in Nat /\ c \in 1 .. MaxItems
  BY <1>2, ItemFacts, FirstItem
<1>4. menu_back(x, o) = [x EXCEPT !.pcur[x.page] = x.curr, !.page = p, !.curr = c]
  BY DEF menu_back
<1> HIDE DEF c, p
<1>5. MaxItems \in Nat
  BY ItemFacts
<1>6. Moved(x, [x EXCEPT !.pcur[x.page] = x.curr, !.page = p, !.curr = c])
  BY <1>3, <1>5, PageMoves
<1> QED
  BY <1>4, <1>6

\* app_core_overlay(): nor this, and the cursor gets where it can be.
LEMMA OverlayMoves ==
  ASSUME ItemsRight, NEW o, Shape(o), NEW x \in MenuRecs
  PROVE  Moved(x, app_core_overlay(x, o)) /\ Fitted(app_core_overlay(x, o), o)
<1> DEFINE q == [p \in Pages |-> 0]
           c == first_item(o, 0)
           y == [x EXCEPT !.page = 0, !.pcur = q, !.curr = c]
<1>1. q \in [Pages -> 0 .. MaxItems]
  BY ItemFacts
<1>2. c \in 1 .. MaxItems
  BY FirstItem
<1>3. app_core_overlay(x, o) = menu_sync(y, o)
  BY DEF app_core_overlay
<1>4. Moved(x, y)
  <2> HIDE DEF q, c
  <2>1. y \in MenuRecs
    BY <1>1, <1>2 DEF MenuRecs
  <2>2. /\ y.fb = x.fb /\ y.fbdir = x.fbdir /\ y.fbslot = x.fbslot
        /\ y.list = x.list /\ y.last = x.last /\ y.slots = x.slots /\ y.img = x.img
        /\ y.save = x.save /\ y.dirty = x.dirty /\ y.kept = x.kept
    BY DEF MenuRecs
  <2> QED
    BY <2>1, <2>2 DEF Moved
<1> HIDE DEF y
<1>5. y \in MenuRecs
  BY <1>4 DEF Moved
<1>6. Moved(y, menu_sync(y, o)) /\ Fitted(menu_sync(y, o), o)
  BY <1>5, SyncMoves
<1> QED
  BY <1>3, <1>4, <1>6 DEF Moved

-----------------------------------------------------------------------------
(* What the operations leave of it.                                        *)

\* A move keeps what the menu is: its lists, images and what is kept.
LEMMA MovesKeep ==
  ASSUME NEW x, NEW y, NEW o, Sound(x), KeptFits(x, o), ~x.fb, Moved(x, y)
  PROVE  Good(y, o) /\ ~y.fb
<1>1. y \in MenuRecs /\ ~y.fb
  BY DEF Moved
<1>2. ListFits(y)
  BY DEF Sound, Moved, ListFits
<1>3. ImagesFit(y)
  <2>1. \A t \in Slots : Mounted(y, t) = Mounted(x, t)
    BY DEF Moved, Mounted
  <2> QED
    BY <2>1 DEF Sound, Moved, ImagesFit
<1>4. Apart(y)
  BY DEF Sound, Moved, Apart
<1>5. KeptFits(y, o)
  BY DEF Moved, KeptFits
<1> QED
  BY <1>1, <1>2, <1>3, <1>4, <1>5 DEF Good, Sound, Browsed

\* So does what is saved or marked for it.
LEMMA SavesKeep ==
  ASSUME NEW x, NEW y, Sound(x), Saved(x, y), Apart(y)
  PROVE  Sound(y) /\ (Browsed(x) => Browsed(y)) /\ \A o : Fitted(x, o) => Fitted(y, o)
<1>1. y \in MenuRecs /\ y.curr = x.curr /\ y.fb = x.fb /\ cur_slot(y) = cur_slot(x) /\ y.page = x.page
  BY DEF Saved, cur_slot
<1>2. ListFits(y)
  BY <1>1 DEF Sound, Saved, ListFits
<1>3. ImagesFit(y)
  <2>1. \A t \in Slots : Mounted(y, t) = Mounted(x, t)
    BY <1>1 DEF Saved, Mounted
  <2> QED
    BY <2>1 DEF Sound, Saved, ImagesFit
<1>4. y.fb => IsFile(osd[y.curr].type)
  BY <1>1 DEF Sound
<1>5. Browsed(x) => Browsed(y)
  BY <1>1 DEF Browsed, Saved
<1>6. \A o : Fitted(x, o) => Fitted(y, o)
  BY <1>1 DEF Fitted
<1> QED
  BY <1>1, <1>2, <1>3, <1>4, <1>5, <1>6 DEF Sound

\* What is saved, marked and kept.
SavedAs(x, sv, d, k) == [x EXCEPT !.save = sv, !.dirty = d, !.kept = k]
SavedIs(x, y, sv, d, k) == Saved(x, y) /\ y.kept = k /\ (y.save <=> sv) /\ (y.dirty <=> d)
\* Then nothing else of the menu has changed.
LEMMA SaveFields ==
  ASSUME NEW x \in MenuRecs, NEW sv \in BOOLEAN, NEW d \in BOOLEAN, NEW k \in Kepts,
         NEW y, y = SavedAs(x, sv, d, k)
  PROVE  SavedIs(x, y, sv, d, k)
<1> DEFINE z == [x EXCEPT !.save = sv, !.dirty = d, !.kept = k]
<1>1. z \in MenuRecs
  BY DEF MenuRecs
<1>2. /\ z.curr = x.curr /\ z.page = x.page /\ z.pcur = x.pcur
      /\ z.fb = x.fb /\ z.fbdir = x.fbdir /\ z.fbslot = x.fbslot
      /\ z.list = x.list /\ z.last = x.last /\ z.slots = x.slots /\ z.img = x.img
  BY DEF MenuRecs
<1>3. z.kept = k /\ z.save = sv /\ z.dirty = d
  BY DEF MenuRecs
<1>4. y = z
  BY DEF SavedAs
<1> HIDE DEF z
<1> QED
  BY <1>1, <1>2, <1>3, <1>4, Zenon DEF Saved, SavedIs

\* No path is none of one part.
LEMMA NoPathLength == Len(NoPath) # 1
BY DEF NoPath

\* The path of a slot.
LEMMA PathFacts ==
  ASSUME NEW z \in Slot, z.on <=> z.file # ""
  PROVE  /\ Path(z) \in Paths /\ (~z.on => Path(z) = NoPath)
         /\ (Len(Path(z)) = 1 <=> z.on /\ z.file \in PhysDrives)
         /\ z.on /\ z.file \in PhysDrives => Path(z) = <<z.file>>
<1>1. z.dir \in Dirs /\ z.file \in {"", "x"} \cup PhysDrives /\ z.on \in BOOLEAN
  BY DEF Slot, Images
<1>2. CASE ~z.on
  <2>1. Path(z) = NoPath
    BY <1>2 DEF Path
  <2>2. NoPath \in Paths
    BY DEF Paths
  <2>3. Len(NoPath) # 1
    BY NoPathLength, Zenon
  <2>4. Len(Path(z)) # 1 /\ Path(z) \in Paths
    BY <2>1, <2>2, <2>3
  <2> QED
    BY <2>1, <2>4, <1>2, Zenon
<1>3. CASE z.on /\ z.file \in PhysDrives
  <2>1. Path(z) = <<z.file>>
    BY <1>3 DEF Path
  <2> QED
    BY <2>1, <1>3 DEF Paths
<1>4. CASE z.on /\ z.file \notin PhysDrives
  <2>1. Path(z) = <<z.dir, z.file>> /\ z.file = "x"
    BY <1>1, <1>4 DEF Path
  <2>2. Path(z) \in Paths
    BY <1>1, <2>1 DEF Paths
  <2>3. Len(Path(z)) # 1
    BY <2>1
  <2> QED
    BY <2>2, <2>3, <1>4, Zenon
<1> QED
  BY <1>1, <1>2, <1>3, <1>4

\* The values that are kept are numbers.
LEMMA OptionsType == ASSUME ItemsRight, NEW o, Shape(o) PROVE Options(o) \in [1 .. osd_len -> Nat]
<1>1. \A i \in 1 .. osd_len : i \in 1 .. MaxItems
  BY ItemFacts
<1>2. \A i \in 1 .. MaxItems : o[i].val \in Nat
  BY ShapeFacts
<1> QED
  BY <1>1, <1>2 DEF Options

\* The slots as the card gets them.
SlotPaths(x) == [t \in Slots |-> Path(x.slots[t])]
OnIsNamed(x) == \A t \in Slots : x.slots[t].on <=> x.slots[t].file # ""
\* What is written are the values of the items and the paths of the slots.
LEMMA ValuesFacts ==
  ASSUME ItemsRight, NEW o, Shape(o), NEW x \in MenuRecs, OnIsNamed(x)
  PROVE  /\ Values(x, o) \in Kepts /\ Values(x, o).val = Options(o) /\ Values(x, o).path = SlotPaths(x)
         /\ \A t \in Slots : Path(x.slots[t]) \in Paths
<1>1. x.slots \in [Slots -> Slot]
  BY MenuFields
<1>2. \A t \in Slots : Path(x.slots[t]) \in Paths
  BY <1>1, PathFacts DEF OnIsNamed
<1>3. Options(o) \in [1 .. osd_len -> Nat]
  BY OptionsType
<1>4. SlotPaths(x) \in [Slots -> Paths]
  BY <1>2 DEF SlotPaths
<1>5. DOMAIN x.slots = Slots
  BY <1>1
<1>6. Values(x, o) = [val |-> Options(o), path |-> SlotPaths(x)]
  BY <1>5 DEF Values, Options, SlotPaths
<1> QED
  BY <1>2, <1>3, <1>4, <1>6 DEF Kepts

\* What is kept of a switch, of a slot.
LEMMA KeptUpdates ==
  ASSUME NEW k \in Kepts
  PROVE  /\ k.val \in [1 .. osd_len -> Nat] /\ k.path \in [Slots -> Paths]
         /\ \A t \in Slots, p \in Paths : [k EXCEPT !.path[t] = p] \in Kepts
         /\ \A i, w : (i \in 1 .. osd_len => w \in Nat) => [k EXCEPT !.val[i] = w] \in Kepts
<1>1. k.val \in [1 .. osd_len -> Nat] /\ k.path \in [Slots -> Paths]
  BY DEF Kepts
<1>2. ASSUME NEW t \in Slots, NEW p \in Paths
      PROVE  [k EXCEPT !.path[t] = p] \in Kepts
  <2> DEFINE q == [k.path EXCEPT ![t] = p]
  <2>1. q \in [Slots -> Paths]
    BY <1>1
  <2>2. [k EXCEPT !.path[t] = p] = [k EXCEPT !.path = q]
    BY DEF Kepts
  <2> HIDE DEF q
  <2>3. [k EXCEPT !.path = q] \in Kepts
    BY <2>1 DEF Kepts
  <2> QED
    BY <2>2, <2>3
<1>3. ASSUME NEW i, NEW w, i \in 1 .. osd_len => w \in Nat
      PROVE  [k EXCEPT !.val[i] = w] \in Kepts
  <2> DEFINE q == [k.val EXCEPT ![i] = w]
  <2>1. q \in [1 .. osd_len -> Nat]
    BY <1>1, <1>3
  <2>2. [k EXCEPT !.val[i] = w] = [k EXCEPT !.val = q]
    BY DEF Kepts
  <2> HIDE DEF q
  <2>3. [k EXCEPT !.val = q] \in Kepts
    BY <2>1 DEF Kepts
  <2> QED
    BY <2>2, <2>3
<1> QED
  BY <1>1, <1>2, <1>3

\* What Sound says of any menu, inside a step too.
LEMMA SoundFacts ==
  ASSUME NEW x, Sound(x)
  PROVE  x \in MenuRecs /\ OnIsNamed(x) /\ (x.fb => IsFile(osd[x.curr].type))
BY DEF Sound, ImagesFit, OnIsNamed

\* app_core_save(): what it keeps is of the items and the slots.
LEMMA SaveIs ==
  ASSUME ItemsRight, NEW o, Shape(o), NEW x, Sound(x)
  PROVE  \/ ~x.save /\ app_core_save(x, o) = x
         \/ x.save /\ Kgo2 /\ app_core_save(x, o) = SavedAs(x, FALSE, TRUE, x.kept)
         \/ x.save /\ ~Kgo2 /\ \E k \in Kepts : app_core_save(x, o) = SavedAs(x, FALSE, x.dirty, k)
<1>1. x \in MenuRecs /\ OnIsNamed(x)
  BY SoundFacts
<1>2. x.curr \in 1 .. MaxItems /\ x.kept \in Kepts
  BY <1>1, MenuFields
<1>3. CASE ~x.save
  BY <1>3 DEF app_core_save
<1>4. CASE x.save /\ Kgo2
  <2>1. app_core_save(x, o) = [x EXCEPT !.save = FALSE, !.dirty = TRUE]
    BY <1>4 DEF app_core_save
  <2>2. [x EXCEPT !.save = FALSE, !.dirty = TRUE] = SavedAs(x, FALSE, TRUE, x.kept)
    BY <1>1 DEF SavedAs, MenuRecs
  <2> QED
    BY <1>4, <2>1, <2>2
<1>5. CASE x.save /\ ~Kgo2 /\ IsFile(osd[x.curr].type)
  <2> DEFINE p == Path(x.slots[cur_slot(x)])
             k == [x.kept EXCEPT !.path[cur_slot(x)] = p]
  <2>1. cur_slot(x) \in Slots
    BY <1>2, <1>5, ItemFacts DEF cur_slot
  <2>2. p \in Paths
    BY <1>1, <2>1, ValuesFacts
  <2>3. k \in Kepts
    BY <1>2, <2>1, <2>2, KeptUpdates
  <2>4. app_core_save(x, o) = [x EXCEPT !.save = FALSE, !.kept.path[cur_slot(x)] = p]
    BY <1>5 DEF app_core_save
  <2> HIDE DEF p
  <2>5. [x EXCEPT !.save = FALSE, !.kept.path[cur_slot(x)] = p] = SavedAs(x, FALSE, x.dirty, k)
    BY <1>1 DEF SavedAs, MenuRecs
  <2> QED
    BY <1>5, <2>3, <2>4, <2>5
<1>6. CASE x.save /\ ~Kgo2 /\ ~IsFile(osd[x.curr].type)
  <2> DEFINE w == Values(x, o).val[x.curr]
             k == [x.kept EXCEPT !.val[x.curr] = w]
  <2>1. x.curr \in 1 .. osd_len => w \in Nat
    BY <1>1, ValuesFacts, OptionsType
  <2>2. app_core_save(x, o) = [x EXCEPT !.save = FALSE, !.kept.val[x.curr] = w]
    BY <1>6 DEF app_core_save
  <2> HIDE DEF w
  <2>3. k \in Kepts
    BY <1>2, <2>1, KeptUpdates
  <2>4. [x EXCEPT !.save = FALSE, !.kept.val[x.curr] = w] = SavedAs(x, FALSE, x.dirty, k)
    BY <1>1 DEF SavedAs, MenuRecs
  <2> QED
    BY <1>6, <2>2, <2>3, <2>4
<1> QED
  BY <1>3, <1>4, <1>5, <1>6

\* app_core_save(): the card gets what is right, or it is marked to be written.
LEMMA SaveKeeps ==
  ASSUME ItemsRight, NEW o, Shape(o), NEW x, Sound(x), KeptFits(x, o)
  PROVE  LET y == app_core_save(x, o)
         IN /\ Sound(y) /\ KeptFits(y, o) /\ y.fb = x.fb /\ y.curr = x.curr /\ y.page = x.page
            /\ (Browsed(x) => Browsed(y)) /\ (Fitted(x, o) => Fitted(y, o))
<1> DEFINE y == app_core_save(x, o)
<1>1. x \in MenuRecs /\ x.kept \in Kepts /\ x.dirty \in BOOLEAN
  BY SoundFacts, MenuFields
<1>2. ASSUME NEW d \in BOOLEAN, NEW k \in Kepts, y = SavedAs(x, FALSE, d, k), Kgo2 => k = x.kept /\ d
      PROVE  /\ Sound(y) /\ KeptFits(y, o) /\ y.fb = x.fb /\ y.curr = x.curr /\ y.page = x.page
             /\ (Browsed(x) => Browsed(y)) /\ (Fitted(x, o) => Fitted(y, o))
  <2> HIDE DEF y
  <2> DEFINE sv == FALSE
  <2>0. sv \in BOOLEAN /\ y = SavedAs(x, sv, d, k)
    BY <1>2
  <2> HIDE DEF sv
  <2>5. SavedIs(x, y, sv, d, k)
    BY <1>1, <2>0, SaveFields
  <2>1. Saved(x, y) /\ y.kept = k /\ ~y.save /\ (y.dirty <=> d)
    BY <2>5, Zenon DEF SavedIs, sv
  <2>2. Apart(y)
    BY <1>2, <2>1 DEF Apart, Saved, Sound
  <2>3. KeptFits(y, o)
    BY <1>2, <2>1 DEF KeptFits
  <2>4. y.fb = x.fb /\ y.curr = x.curr /\ y.page = x.page
    BY <2>1 DEF Saved
  <2> QED
    BY <2>1, <2>2, <2>3, <2>4, SavesKeep
<1>3. CASE ~x.save /\ y = x
  BY <1>3
<1>4. CASE x.save /\ Kgo2 /\ y = SavedAs(x, FALSE, TRUE, x.kept)
  BY <1>1, <1>2, <1>4
<1>5. CASE x.save /\ ~Kgo2 /\ \E k \in Kepts : y = SavedAs(x, FALSE, x.dirty, k)
  BY <1>1, <1>2, <1>5
<1> QED
  BY <1>3, <1>4, <1>5, SaveIs

-----------------------------------------------------------------------------
(* The file browser.                                                       *)

\* The browser, its dir, what the slots have and the list.
BrowseAt(x, b, d, sl, fs, l) == [x EXCEPT !.fb = b, !.fbdir = d, !.slots = sl, !.fbslot = fs, !.list = l]
Browses(x, y) ==
  /\ y \in MenuRecs /\ y.curr = x.curr /\ y.page = x.page /\ y.img = x.img /\ y.kept = x.kept
  /\ (y.save <=> x.save) /\ (y.dirty <=> x.dirty)
\* The fields after it.
LEMMA BrowseIs ==
  ASSUME NEW x \in MenuRecs, NEW b \in BOOLEAN, NEW d \in Dirs, NEW sl \in [Slots -> Slot],
         NEW fs \in Slots \cup {-1}, NEW l \in Lists, NEW y, y = BrowseAt(x, b, d, sl, fs, l)
  PROVE  /\ Browses(x, y) /\ y.fbdir = d /\ y.slots = sl /\ y.fbslot = fs /\ y.list = l
         /\ (y.fb <=> b) /\ cur_slot(y) = cur_slot(x)
<1> DEFINE z == [x EXCEPT !.fb = b, !.fbdir = d, !.slots = sl, !.fbslot = fs, !.list = l]
<1>1. z \in MenuRecs
  BY DEF MenuRecs
<1>2. z.curr = x.curr /\ z.page = x.page /\ z.img = x.img /\ z.kept = x.kept
  BY DEF MenuRecs
<1>3. z.fbdir = d /\ z.slots = sl /\ z.fbslot = fs /\ z.list = l
  BY DEF MenuRecs
<1>4. z.fb = b /\ z.save = x.save /\ z.dirty = x.dirty
  BY DEF MenuRecs
<1>5. y = z
  BY DEF BrowseAt
<1> HIDE DEF z
<1> QED
  BY <1>1, <1>2, <1>3, <1>4, <1>5, Zenon DEF Browses, cur_slot

\* The slots the core has mounted are the same.
SameImages(x, y) ==
  \A t \in Slots : /\ Path(Mounted(y, t)) = Path(Mounted(x, t))
                   /\ y.slots[t].file = x.slots[t].file /\ (y.slots[t].on <=> x.slots[t].on)
\* A change of what is browsed keeps what is right, if the images stay.
LEMMA BrowseKeeps ==
  ASSUME NEW x, NEW y, NEW o, Sound(x), KeptFits(x, o), Browses(x, y), SameImages(x, y), ListFits(y),
         y.fb => IsFile(osd[y.curr].type)
  PROVE  Sound(y) /\ KeptFits(y, o)
<1>1. ImagesFit(y)
  <2>1. SUFFICES ASSUME NEW t \in Slots
                 PROVE  y.img[t] = Path(Mounted(y, t)) /\ (y.slots[t].on <=> y.slots[t].file # "")
    BY DEF ImagesFit
  <2>2. x.img[t] = Path(Mounted(x, t)) /\ (x.slots[t].on <=> x.slots[t].file # "")
    BY DEF Sound, ImagesFit
  <2>3. Path(Mounted(y, t)) = Path(Mounted(x, t)) /\ y.slots[t].file = x.slots[t].file
        /\ (y.slots[t].on <=> x.slots[t].on)
    BY DEF SameImages
  <2>4. y.img = x.img
    BY DEF Browses
  <2> QED
    BY <2>2, <2>3, <2>4, Zenon
<1>2. Apart(y)
  BY DEF Sound, Browses, Apart
<1>3. KeptFits(y, o)
  BY DEF KeptFits, Browses
<1>4. y \in MenuRecs
  BY DEF Browses
<1> QED
  BY <1>1, <1>2, <1>3, <1>4, Zenon DEF Sound

\* read_list(): the list of the slot under the cursor.
SlotList(x, sl) ==
  [of |-> "slot", slot |-> cur_slot(x), dir |-> sl[cur_slot(x)].dir,
   eject |-> osd[x.curr].type = "F" /\ sl[cur_slot(x)].on]
\* It is a list, of that slot.
LEMMA SlotListFacts ==
  ASSUME ItemsRight, NEW x \in MenuRecs, IsFile(osd[x.curr].type), NEW sl \in [Slots -> Slot]
  PROVE  /\ cur_slot(x) \in Slots /\ cur_slot(x) # -1 /\ SlotList(x, sl) \in Lists
         /\ SlotList(x, sl).of = "slot" /\ SlotList(x, sl).slot = cur_slot(x)
         /\ SlotList(x, sl).dir = sl[cur_slot(x)].dir
         /\ (SlotList(x, sl).eject => osd[x.curr].type = "F" /\ sl[cur_slot(x)].on)
<1>1. x.curr \in 1 .. MaxItems
  BY MenuFields
<1>2. cur_slot(x) \in Slots /\ cur_slot(x) # -1
  BY <1>1, ItemFacts DEF cur_slot
<1>3. sl[cur_slot(x)] \in Slot
  BY <1>2
<1>4. sl[cur_slot(x)].dir \in Dirs /\ sl[cur_slot(x)].on \in BOOLEAN
  BY <1>3 DEF Slot
<1> DEFINE e == osd[x.curr].type = "F" /\ sl[cur_slot(x)].on
<1>5. e \in BOOLEAN /\ (e => osd[x.curr].type = "F" /\ sl[cur_slot(x)].on)
  OBVIOUS
<1>6. SlotList(x, sl) = [of |-> "slot", slot |-> cur_slot(x), dir |-> sl[cur_slot(x)].dir, eject |-> e]
  BY DEF SlotList
<1> HIDE DEF e
<1>7. SlotList(x, sl) \in Lists
  BY <1>2, <1>4, <1>5, <1>6 DEF Lists
<1>8. SlotList(x, sl).of = "slot" /\ SlotList(x, sl).slot = cur_slot(x)
      /\ SlotList(x, sl).dir = sl[cur_slot(x)].dir
  BY <1>6
<1>9. SlotList(x, sl).eject = e
  BY <1>6
<1> QED
  BY <1>2, <1>5, <1>7, <1>8, <1>9, Zenon

\* A list just read is right.
LEMMA ReadFits ==
  ASSUME ItemsRight, NEW x \in MenuRecs, IsFile(osd[x.curr].type), NEW sl \in [Slots -> Slot],
         NEW y, y.curr = x.curr, y.slots = sl, y.fbslot = cur_slot(x), y.list = SlotList(x, sl)
  PROVE  ListFits(y)
<1>1. cur_slot(y) = cur_slot(x)
  BY DEF cur_slot
<1>2. /\ y.list.of = "slot" /\ y.list.slot = y.fbslot /\ y.list.dir = y.slots[y.fbslot].dir
      /\ (y.list.eject => osd[y.curr].type = "F" /\ y.slots[y.fbslot].on)
  BY SlotListFacts
<1> QED
  BY <1>2, Zenon DEF ListFits

\* The slots that have the same dirs have the same images.
LEMMA SameSlots ==
  ASSUME NEW x, NEW y, y.slots = x.slots, y.curr = x.curr, y.fb <=> x.fb, y.fbdir = x.fbdir
  PROVE  SameImages(x, y)
<1>1. \A t \in Slots : Mounted(y, t) = Mounted(x, t)
  BY Zenon DEF Mounted, cur_slot
<1> QED
  BY <1>1, Zenon DEF SameImages

\* app_core_init_filebrowser() when the list is of another slot.
LEMMA RedrawKeeps ==
  ASSUME ItemsRight, NEW o, NEW x, Sound(x), KeptFits(x, o), x.fb
  PROVE  Good(redraw_list(x), o) /\ redraw_list(x).fb
<1>1. x \in MenuRecs /\ IsFile(osd[x.curr].type)
  BY SoundFacts
<1>2. CASE x.fbslot = cur_slot(x)
  <2>1. redraw_list(x) = x
    BY <1>2 DEF redraw_list
  <2> QED
    BY <1>2, <2>1 DEF Good, Browsed
<1>3. CASE x.fbslot # cur_slot(x)
  <2> DEFINE sl == x.slots
             l == SlotList(x, sl)
             c == cur_slot(x)
             y == BrowseAt(x, x.fb, x.fbdir, sl, c, l)
             z == [x EXCEPT !.fbslot = c]
  <2>1. /\ x.fb \in BOOLEAN /\ x.fbdir \in Dirs /\ sl \in [Slots -> Slot]
    BY <1>1, MenuFields
  <2>2. c \in Slots \cup {-1} /\ l \in Lists
    BY <1>1, <2>1, SlotListFacts
  <2>3. redraw_list(x) = read_list(z)
    BY <1>3 DEF redraw_list
  <2>4. z.curr = x.curr /\ z.slots = x.slots
    BY <1>1 DEF MenuRecs
  <2>5. cur_slot(z) = c
    BY <2>4 DEF cur_slot
  <2>6. read_list(z) = [z EXCEPT !.list = l]
    BY <2>4, <2>5, Zenon DEF read_list, SlotList
  <2>7. [z EXCEPT !.list = l] = y
    <3> HIDE DEF l, c
    <3> QED
      BY <1>1 DEF MenuRecs, BrowseAt
  <2>8. redraw_list(x) = y
    BY <2>3, <2>6, <2>7, Zenon
  <2>9. /\ y \in MenuRecs /\ y.curr = x.curr /\ y.page = x.page /\ y.img = x.img /\ y.kept = x.kept
        /\ y.fbdir = x.fbdir /\ y.slots = sl /\ y.fbslot = c /\ y.list = l
        /\ (y.fb <=> x.fb) /\ (y.save <=> x.save) /\ (y.dirty <=> x.dirty)
    <3> DEFINE b == x.fb
               d == x.fbdir
    <3>1. b \in BOOLEAN /\ d \in Dirs /\ y = BrowseAt(x, b, d, sl, c, l)
      BY <2>1
    <3>0. sl \in [Slots -> Slot] /\ c \in Slots \cup {-1} /\ l \in Lists
      BY <2>1, <2>2
    <3> HIDE DEF l, c, sl, y, b, d, z
    <3>2. /\ Browses(x, y) /\ y.fbdir = d /\ y.slots = sl /\ y.fbslot = c /\ y.list = l
          /\ (y.fb <=> b)
      BY <1>1, <3>0, <3>1, BrowseIs
    <3> QED
      BY <3>2, Zenon DEF b, d, Browses
  <2> HIDE DEF y
  <2>10. Browses(x, y)
    BY <2>9 DEF Browses
  <2>11. ListFits(y)
    <3>1. y.curr = x.curr /\ y.slots = x.slots /\ y.fbslot = cur_slot(x) /\ y.list = SlotList(x, x.slots)
      BY <2>9
    <3> QED
      BY <1>1, <2>1, <3>1, ReadFits
  <2>12. SameImages(x, y)
    BY <2>9, SameSlots
  <2>13. y.fb => IsFile(osd[y.curr].type)
    BY <1>1, <2>9
  <2>14. Sound(y) /\ KeptFits(y, o)
    BY <2>10, <2>11, <2>12, <2>13, BrowseKeeps
  <2>15. Browsed(y)
    BY <2>9 DEF Browsed, cur_slot
  <2>16. y.fb
    BY <2>9
  <2> QED
    BY <2>8, <2>14, <2>15, <2>16, Zenon DEF Good
<1> QED
  BY <1>2, <1>3

\* What is drawn: the list, or the menu with its cursor where it can be; and saved.
LEMMA DrawnGood ==
  ASSUME ItemsRight, NEW o, Shape(o), NEW x, Sound(x), KeptFits(x, o)
  PROVE  /\ Good(drawn(x, o), o) /\ (drawn(x, o).fb <=> x.fb) /\ (~x.fb => Fitted(drawn(x, o), o))
         /\ drawn(x, o).fb \in BOOLEAN
<1> DEFINE r == redraw(x, o)
<1>1. Good(r, o) /\ (r.fb <=> x.fb) /\ (~x.fb => Fitted(r, o))
  <2>1. CASE x.fb
    BY <2>1, RedrawKeeps DEF redraw
  <2>2. CASE ~x.fb
    <3>1. r = menu_sync(x, o) /\ x \in MenuRecs
      BY <2>2, SoundFacts DEF redraw
    <3>2. Moved(x, r) /\ Fitted(r, o)
      BY <3>1, SyncMoves
    <3> HIDE DEF r
    <3> QED
      BY <2>2, <3>2, MovesKeep
  <2> QED
    BY <2>1, <2>2
<1> HIDE DEF r
<1>2. Sound(r) /\ KeptFits(r, o) /\ Browsed(r)
  BY <1>1 DEF Good
<1> DEFINE y == app_core_save(r, o)
<1>3. /\ Sound(y) /\ KeptFits(y, o) /\ y.fb = r.fb
      /\ (Browsed(r) => Browsed(y)) /\ (Fitted(r, o) => Fitted(y, o))
  BY <1>2, SaveKeeps
<1>4. drawn(x, o) = y
  BY DEF drawn, r
<1> HIDE DEF y
<1>5. y.fb \in BOOLEAN
  BY <1>3, SoundFacts, MenuFields
<1>6. Good(y, o)
  BY <1>2, <1>3 DEF Good
<1>7. (y.fb <=> x.fb) /\ (~x.fb => Fitted(y, o))
  BY <1>1, <1>3, Zenon
<1> QED
  BY <1>4, <1>5, <1>6, <1>7

\* A slot in another dir.
InDir(sl, s, d) == [sl EXCEPT ![s].dir = d]
\* Only its dir differs.
LEMMA InDirFacts ==
  ASSUME NEW sl \in [Slots -> Slot], NEW s \in Slots, NEW d \in Dirs
  PROVE  /\ InDir(sl, s, d) \in [Slots -> Slot] /\ InDir(sl, s, d)[s].dir = d
         /\ InDir(sl, s, d)[s] = [sl[s] EXCEPT !.dir = d]
         /\ \A t \in Slots : /\ InDir(sl, s, d)[t].file = sl[t].file
                             /\ (InDir(sl, s, d)[t].on <=> sl[t].on)
                             /\ (t # s => InDir(sl, s, d)[t] = sl[t])
<1> DEFINE q == [sl[s] EXCEPT !.dir = d]
           y == [sl EXCEPT ![s] = q]
<1>1. sl[s] \in Slot
  OBVIOUS
<1>2. q \in Slot /\ q.dir = d /\ q.file = sl[s].file
  BY <1>1 DEF Slot
<1>3. q.on = sl[s].on
  BY <1>1 DEF Slot
<1>4. InDir(sl, s, d) = y
  BY DEF InDir
<1> HIDE DEF q
<1>5. y \in [Slots -> Slot] /\ y[s] = q /\ \A t \in Slots : t # s => y[t] = sl[t]
  BY <1>2
<1> HIDE DEF y
<1>6. \A t \in Slots : y[t].file = sl[t].file
  BY <1>2, <1>5
<1>7. \A t \in Slots : y[t].on <=> sl[t].on
  BY <1>3, <1>5, Zenon
<1>8. y[s].dir = d /\ y[s] = q
  BY <1>2, <1>5
<1>9. y \in [Slots -> Slot] /\ y[s] = [sl[s] EXCEPT !.dir = d]
  BY <1>5, <1>8, Zenon DEF q
<1> QED
  BY <1>4, <1>5, <1>6, <1>7, <1>8, <1>9, Zenon

\* A dir twice.
LEMMA DirTwice ==
  \A z \in Slot, d \in Dirs, e \in Dirs :
    [[z EXCEPT !.dir = d] EXCEPT !.dir = e] = [z EXCEPT !.dir = e] /\ (e = z.dir => [z EXCEPT !.dir = e] = z)
BY DEF Slot

\* Another dir in the browser: the image stays.
LEMMA InDirKeeps ==
  ASSUME ItemsRight, NEW o, NEW x, Good(x, o), x.fb, NEW d \in Dirs
  PROVE  Good(in_dir(x, d), o) /\ in_dir(x, d).fb
<1>1. x \in MenuRecs /\ IsFile(osd[x.curr].type) /\ Sound(x) /\ KeptFits(x, o) /\ x.fbslot = cur_slot(x)
  BY SoundFacts DEF Good, Browsed
<1> DEFINE c == cur_slot(x)
           sl == InDir(x.slots, c, d)
           l == SlotList(x, sl)
           z == [x EXCEPT !.slots = sl]
           w == [x EXCEPT !.slots[cur_slot(x)].dir = d]
           b == x.fb
           f == x.fbdir
           y == BrowseAt(x, b, f, sl, c, l)
<1>2. b \in BOOLEAN /\ f \in Dirs /\ x.slots \in [Slots -> Slot]
  BY <1>1, MenuFields
<1>3. c \in Slots
  BY <1>1, <1>2, SlotListFacts
<1>4. /\ sl \in [Slots -> Slot] /\ sl[c].dir = d /\ sl[c] = [x.slots[c] EXCEPT !.dir = d]
      /\ \A t \in Slots : /\ sl[t].file = x.slots[t].file /\ (sl[t].on <=> x.slots[t].on)
                          /\ (t # c => sl[t] = x.slots[t])
  <2> HIDE DEF c
  <2> QED
    BY <1>2, <1>3, InDirFacts
<1>5. c \in Slots \cup {-1} /\ l \in Lists
  <2> HIDE DEF sl
  <2> QED
    BY <1>1, <1>4, SlotListFacts
<1>6. in_dir(x, d) = y
  <2>1. w = z
    BY <1>1 DEF MenuRecs, InDir
  <2>2. in_dir(x, d) = read_list(w)
    BY DEF in_dir
  <2>3. z.curr = x.curr /\ z.slots = sl
    <3> HIDE DEF sl
    <3> QED
      BY <1>1 DEF MenuRecs
  <2>4. cur_slot(z) = c
    BY <2>3, Zenon DEF cur_slot
  <2>5. read_list(z) = [z EXCEPT !.list = l]
    <3> HIDE DEF z, sl
    <3> QED
      BY <2>3, <2>4, Zenon DEF read_list, SlotList
  <2>6. [z EXCEPT !.list = l] = y
    <3>1. z = [x EXCEPT !.slots = sl] /\ y = BrowseAt(x, b, f, sl, c, l) /\ x.fbslot = c
      BY <1>1
    <3> HIDE DEF l, c, sl, z, y
    <3> QED
      BY <1>1, <3>1 DEF MenuRecs, BrowseAt, b, f
  <2> QED
    BY <2>1, <2>2, <2>5, <2>6, Zenon
<1> HIDE DEF y, l, sl, b, f, z, w
<1>7. y = BrowseAt(x, b, f, sl, c, l)
  BY DEF y
<1> HIDE DEF c
<1>8. /\ Browses(x, y) /\ y.fbdir = f /\ y.slots = sl /\ y.fbslot = c /\ y.list = l
      /\ (y.fb <=> b) /\ cur_slot(y) = cur_slot(x)
  BY <1>1, <1>2, <1>4, <1>5, <1>7, BrowseIs
<1>9. y.curr = x.curr
  BY <1>8 DEF Browses
<1>10. ListFits(y)
  <2>1. y.fbslot = cur_slot(x) /\ y.list = SlotList(x, sl)
    BY <1>8 DEF c, l
  <2> QED
    BY <1>1, <1>4, <1>8, <1>9, <2>1, ReadFits
<1>11. SameImages(x, y)
  <2>1. SUFFICES ASSUME NEW t \in Slots PROVE Mounted(y, t) = Mounted(x, t)
    BY <1>4, <1>8, Zenon DEF SameImages
  <2>2. CASE t # c
    <3>1. t # cur_slot(x) /\ t # cur_slot(y) /\ y.slots[t] = x.slots[t]
      BY <1>4, <1>8, <2>2 DEF c
    <3> QED
      BY <3>1, Zenon DEF Mounted
  <2>3. CASE t = c
    <3>1. Mounted(y, t) = [sl[c] EXCEPT !.dir = f]
      BY <1>8, <2>3, Zenon DEF Mounted, c, b
    <3>2. Mounted(x, t) = [x.slots[c] EXCEPT !.dir = f]
      BY <2>3, Zenon DEF Mounted, c, b, f
    <3>3. x.slots[c] \in Slot
      BY <1>2, <1>3
    <3>4. [[x.slots[c] EXCEPT !.dir = d] EXCEPT !.dir = f] = [x.slots[c] EXCEPT !.dir = f]
      <4> DEFINE z0 == x.slots[c]
      <4>1. z0 \in Slot /\ f \in Dirs
        BY <1>2, <3>3
      <4> HIDE DEF z0
      <4>2. [[z0 EXCEPT !.dir = d] EXCEPT !.dir = f] = [z0 EXCEPT !.dir = f]
        BY <4>1 DEF Slot
      <4> QED
        BY <4>2 DEF z0
    <3> QED
      BY <1>4, <3>1, <3>2, <3>4, Zenon
  <2> QED
    BY <2>2, <2>3
<1>12. y.fb /\ IsFile(osd[y.curr].type)
  BY <1>1, <1>8, <1>9 DEF b
<1>13. Sound(y) /\ KeptFits(y, o)
  BY <1>1, <1>8, <1>10, <1>11, <1>12, BrowseKeeps
<1>14. Browsed(y)
  BY <1>8, Zenon DEF Browsed, c
<1> QED
  BY <1>6, <1>12, <1>13, <1>14, Zenon DEF Good

\* Opening the browser: an empty slot may start in another dir.
LEMMA OpenKeeps ==
  ASSUME ItemsRight, NEW o, NEW x, Sound(x), KeptFits(x, o), ~x.fb, IsFile(osd[x.curr].type)
  PROVE  Sound(filebrowser_open(x)) /\ KeptFits(filebrowser_open(x), o) /\ filebrowser_open(x).fb
<1>1. x \in MenuRecs /\ x.curr \in 1 .. MaxItems
  BY SoundFacts, MenuFields
<1> DEFINE s == SlotOf(x.curr)
           other == {j \in 1 .. osd_len : osd[j].type = "F" /\ SlotOf(j) # s /\ x.slots[SlotOf(j)].on}
           from == IF \E j \in other : SlotOf(j) = x.last THEN x.last ELSE SlotOf(Min(other))
           f == x.slots[s].dir
           y0 == [x EXCEPT !.fb = TRUE, !.fbdir = x.slots[s].dir]
           e == x.slots[from].dir
           y1 == [y0 EXCEPT !.slots[s].dir = x.slots[from].dir, !.fbslot = -1]
           stays == osd[x.curr].type # "F" \/ x.slots[s].on \/ other = {}
<1>2. s \in Slots /\ s = cur_slot(x)
  BY <1>1, ItemFacts DEF cur_slot
<1>3. x.slots \in [Slots -> Slot] /\ x.fbslot \in Slots \cup {-1} /\ x.list \in Lists
  BY <1>1, MenuFields
<1>4. x.slots[s] \in Slot /\ f \in Dirs
  BY <1>2, <1>3 DEF Slot
<1>5. other # {} => e \in Dirs
  <2>1. SUFFICES ASSUME other # {} PROVE e \in Dirs
    OBVIOUS
  <2>2. other \subseteq Nat /\ \A j \in other : j \in 1 .. osd_len /\ osd[j].type = "F"
    BY ItemFacts
  <2>3. Min(other) \in other
    <3> HIDE DEF other
    <3> QED
      BY <2>1, <2>2, LeastIn
  <2>4. \A j \in other : SlotOf(j) \in Slots
    <3>1. \A j \in other : j \in 1 .. MaxItems /\ IsFile(osd[j].type)
      BY <2>2, ItemFacts DEF IsFile
    <3> HIDE DEF other
    <3> QED
      BY <3>1, ItemFacts
  <2>5. from \in Slots
    <3> HIDE DEF other
    <3> QED
      BY <2>3, <2>4
  <2>6. x.slots[from] \in Slot
    BY <1>3, <2>5
  <2> QED
    BY <2>6 DEF Slot
<1>6. filebrowser_open(x) = IF stays THEN y0 ELSE y1
  BY DEF filebrowser_open, cur_slot
<1>7. ASSUME NEW y, NEW sl \in [Slots -> Slot], NEW fs \in Slots \cup {-1},
             y = BrowseAt(x, TRUE, f, sl, fs, x.list),
             sl[s] = x.slots[s] \/ sl[s] = [x.slots[s] EXCEPT !.dir = e], other = {} => sl[s] = x.slots[s],
             \A t \in Slots : t # s => sl[t] = x.slots[t],
             fs = -1 \/ (fs = x.fbslot /\ sl = x.slots)
      PROVE  Sound(y) /\ KeptFits(y, o) /\ y.fb
  <2> HIDE DEF s, other, f, e
  <2>1. /\ Browses(x, y) /\ y.fbdir = f /\ y.slots = sl /\ y.fbslot = fs /\ y.list = x.list
        /\ y.fb /\ cur_slot(y) = cur_slot(x)
    <3> DEFINE b == TRUE
               l == x.list
    <3>1. b \in BOOLEAN /\ f \in Dirs /\ l \in Lists /\ y = BrowseAt(x, b, f, sl, fs, l)
      BY <1>3, <1>4, <1>7
    <3> HIDE DEF b, l
    <3>2. /\ Browses(x, y) /\ y.fbdir = f /\ y.slots = sl /\ y.fbslot = fs /\ y.list = l
          /\ (y.fb <=> b) /\ cur_slot(y) = cur_slot(x)
      BY <1>1, <3>1, BrowseIs
    <3> QED
      BY <3>2, Zenon DEF b, l
  <2>2. y.curr = x.curr
    BY <2>1 DEF Browses
  <2>3. SameImages(x, y)
    <3>1. \A t \in Slots : Mounted(x, t) = x.slots[t]
      BY Zenon DEF Mounted
    <3>2. \A t \in Slots : t # s => Mounted(y, t) = x.slots[t] /\ sl[t] = x.slots[t]
      BY <1>2, <1>7, <2>1, Zenon DEF Mounted
    <3>3. Mounted(y, s) = [sl[s] EXCEPT !.dir = f]
      BY <1>2, <2>1, Zenon DEF Mounted
    <3>4. /\ [sl[s] EXCEPT !.dir = f] = x.slots[s]
          /\ sl[s].file = x.slots[s].file /\ (sl[s].on <=> x.slots[s].on)
      <4> DEFINE z == x.slots[s]
                 q == sl[s]
      <4>1. z \in Slot /\ f = z.dir
        BY <1>4 DEF f
      <4>2. e \in Dirs \/ q = z
        BY <1>5, <1>7
      <4>3. q = z \/ q = [z EXCEPT !.dir = e]
        BY <1>7
      <4> HIDE DEF z, q
      <4>4. CASE q = z
        <5>1. [q EXCEPT !.dir = f] = z
          BY <4>1, <4>4 DEF Slot
        <5> QED
          BY <4>4, <5>1, Zenon DEF z, q
      <4>5. CASE q = [z EXCEPT !.dir = e]
        <5>1. [q EXCEPT !.dir = f] = z
          BY <4>1, <4>5 DEF Slot
        <5>2. q.file = z.file /\ q.on = z.on
          BY <4>1, <4>5 DEF Slot
        <5> QED
          BY <5>1, <5>2, Zenon DEF z, q
      <4> QED
        BY <4>3, <4>4, <4>5
    <3>5. SUFFICES ASSUME NEW t \in Slots
                   PROVE  /\ Path(Mounted(y, t)) = Path(Mounted(x, t))
                          /\ y.slots[t].file = x.slots[t].file /\ (y.slots[t].on <=> x.slots[t].on)
      BY DEF SameImages
    <3>6. CASE t = s
      BY <2>1, <3>1, <3>3, <3>4, <3>6, Zenon
    <3>7. CASE t # s
      BY <2>1, <3>1, <3>2, <3>7, Zenon
    <3> QED
      BY <3>6, <3>7
  <2>4. ListFits(y)
    <3>1. CASE fs = -1
      BY <2>1, <3>1 DEF ListFits
    <3>2. CASE fs = x.fbslot /\ sl = x.slots
      <4>1. y.slots[cur_slot(y)].dir = y.fbdir
        BY <1>2, <2>1, <3>2, Zenon DEF f
      <4> QED
        BY <2>1, <2>2, <3>2, <4>1 DEF ListFits, Sound
    <3> QED
      BY <1>7, <3>1, <3>2
  <2> QED
    BY <2>1, <2>2, <2>3, <2>4, BrowseKeeps
<1>8. CASE stays
  <2>1. filebrowser_open(x) = y0
    BY <1>6, <1>8
  <2>2. y0 = BrowseAt(x, TRUE, f, x.slots, x.fbslot, x.list)
    <3> HIDE DEF f
    <3>1. y0 = [x EXCEPT !.fb = TRUE, !.fbdir = f]
      BY DEF f
    <3> HIDE DEF y0
    <3> QED
      BY <1>1, <3>1 DEF BrowseAt, MenuRecs
  <2> HIDE DEF y0, stays, s, f, e, other
  <2>3. Sound(y0) /\ KeptFits(y0, o) /\ y0.fb
    BY <1>3, <1>7, <2>2
  <2> QED
    BY <2>1, <2>3
<1>9. CASE ~stays
  <2>1. filebrowser_open(x) = y1 /\ other # {}
    BY <1>6, <1>9
  <2> DEFINE sl == InDir(x.slots, s, e)
  <2>2. e \in Dirs
    BY <1>5, <2>1
  <2>3. y1 = BrowseAt(x, TRUE, f, sl, -1, x.list)
    <3>1. y0 = [x EXCEPT !.fb = TRUE, !.fbdir = f] /\ y1 = [y0 EXCEPT !.slots[s].dir = e, !.fbslot = -1]
      OBVIOUS
    <3> HIDE DEF y0, y1, s, e, f
    <3> QED
      BY <1>1, <3>1 DEF BrowseAt, MenuRecs, InDir
  <2> HIDE DEF y0, y1, stays, s, f, e, other
  <2>4. /\ sl \in [Slots -> Slot] /\ sl[s] = [x.slots[s] EXCEPT !.dir = e]
        /\ \A t \in Slots : t # s => sl[t] = x.slots[t]
    BY <1>2, <1>3, <2>2, InDirFacts
  <2> HIDE DEF sl
  <2>5. Sound(y1) /\ KeptFits(y1, o) /\ y1.fb
    BY <1>7, <2>1, <2>3, <2>4
  <2> QED
    BY <2>1, <2>5
<1> QED
  BY <1>8, <1>9

\* Esc: the slot is where it was.
LEMMA EscKeeps ==
  ASSUME ItemsRight, NEW o, NEW x, Sound(x), KeptFits(x, o), x.fb
  PROVE  Sound(filebrowser_esc(x)) /\ KeptFits(filebrowser_esc(x), o) /\ ~filebrowser_esc(x).fb
<1>1. x \in MenuRecs /\ x.curr \in 1 .. MaxItems /\ IsFile(osd[x.curr].type)
  BY SoundFacts, MenuFields
<1> DEFINE s == cur_slot(x)
           f == x.fbdir
           l == x.list
           b == FALSE
           fs == IF x.slots[s].dir # f THEN -1 ELSE x.fbslot
           sl == InDir(x.slots, s, f)
           y == BrowseAt(x, b, f, sl, fs, l)
<1>2. s \in Slots
  BY <1>1, ItemFacts DEF cur_slot
<1>3. x.slots \in [Slots -> Slot] /\ x.fbslot \in Slots \cup {-1} /\ l \in Lists /\ f \in Dirs /\ b \in BOOLEAN
  BY <1>1, MenuFields
<1>4. fs \in Slots \cup {-1}
  BY <1>3
<1>5. /\ sl \in [Slots -> Slot] /\ sl[s] = [x.slots[s] EXCEPT !.dir = f]
      /\ \A t \in Slots : /\ sl[t].file = x.slots[t].file /\ (sl[t].on <=> x.slots[t].on)
                          /\ (t # s => sl[t] = x.slots[t])
  <2> HIDE DEF s, f
  <2> QED
    BY <1>2, <1>3, InDirFacts
<1>6. filebrowser_esc(x) = y
  <2>1. filebrowser_esc(x) = [x EXCEPT !.fb = FALSE, !.slots[s].dir = f, !.fbslot = fs]
    BY DEF filebrowser_esc
  <2> HIDE DEF s, fs
  <2>2. [x EXCEPT !.fb = FALSE, !.slots[s].dir = f, !.fbslot = fs] = y
    BY <1>1 DEF BrowseAt, MenuRecs, InDir
  <2> QED
    BY <2>1, <2>2
<1>7. fs = -1 \/ (fs = x.fbslot /\ sl = x.slots)
  <2>1. CASE x.slots[s].dir # f
    BY <2>1
  <2>2. CASE x.slots[s].dir = f
    <3>1. x.slots[s] \in Slot
      BY <1>2, <1>3
    <3> DEFINE z == x.slots[s]
    <3>2. z \in Slot /\ z.dir = f
      BY <2>2, <3>1
    <3> HIDE DEF z, f
    <3>3. [z EXCEPT !.dir = f] = z
      BY <3>2 DEF Slot
    <3>4. sl[s] = x.slots[s]
      BY <1>5, <3>3 DEF z
    <3>5. \A t \in Slots : sl[t] = x.slots[t]
      BY <1>5, <3>4
    <3>6. sl = x.slots
      <4> HIDE DEF sl
      <4> QED
        BY <1>3, <1>5, <3>5
    <3> QED
      BY <2>2, <3>6 DEF f
  <2> QED
    BY <2>1, <2>2
<1> HIDE DEF y, sl, fs, l, b, f, s
<1>8. y = BrowseAt(x, b, f, sl, fs, l)
  BY DEF y
<1>9. /\ Browses(x, y) /\ y.fbdir = f /\ y.slots = sl /\ y.fbslot = fs /\ y.list = l
      /\ (y.fb <=> b) /\ cur_slot(y) = cur_slot(x)
  <2>1. x \in MenuRecs /\ b \in BOOLEAN /\ f \in Dirs /\ sl \in [Slots -> Slot] /\ l \in Lists
    BY <1>1, <1>3, <1>5
  <2> QED
    BY <1>4, <1>8, <2>1, BrowseIs
<1>10. ~y.fb /\ y.curr = x.curr
  BY <1>9 DEF b, Browses
<1>11. SameImages(x, y)
  <2>1. SUFFICES ASSUME NEW t \in Slots PROVE Mounted(y, t) = Mounted(x, t)
    BY <1>5, <1>9, Zenon DEF SameImages
  <2>2. Mounted(y, t) = sl[t]
    BY <1>9, <1>10, Zenon DEF Mounted
  <2>3. CASE t # s
    BY <1>5, <2>2, <2>3, Zenon DEF Mounted, s
  <2>4. CASE t = s
    BY <1>5, <2>2, <2>4, Zenon DEF Mounted, s, f
  <2> QED
    BY <2>3, <2>4
<1>12. ListFits(y)
  <2>1. CASE fs = -1
    BY <1>9, <2>1 DEF ListFits
  <2>2. CASE fs = x.fbslot /\ sl = x.slots
    BY <1>9, <1>10, <2>2 DEF ListFits, Sound, l
  <2> QED
    BY <1>7, <2>1, <2>2
<1>13. Sound(y) /\ KeptFits(y, o)
  BY <1>9, <1>10, <1>11, <1>12, BrowseKeeps
<1> QED
  BY <1>6, <1>10, <1>13, Zenon

-----------------------------------------------------------------------------
(* Images.                                                                 *)

\* The core gets the images of the slots sl.
SlotsPaths(sl) == [t \in Slots |-> Path(sl[t])]
Named(sl) == \A t \in Slots : sl[t].on <=> sl[t].file # ""
ImagesAt(x, sl, la) ==
  [x EXCEPT !.slots = sl, !.img = SlotsPaths(sl), !.fb = FALSE, !.fbslot = -1, !.save = TRUE, !.last = la]
\* New images in slots and core, to be saved, keep what is right.
LEMMA ImagesKeep ==
  ASSUME ItemsRight, NEW o, NEW x, Sound(x), KeptFits(x, o), NEW sl \in [Slots -> Slot], Named(sl),
         NEW la \in Slots \cup {-1}, Kgo2 => DrivesApart(SlotsPaths(sl)),
         NEW y, y = ImagesAt(x, sl, la)
  PROVE  Sound(y) /\ KeptFits(y, o) /\ ~y.fb
<1>1. x \in MenuRecs
  BY SoundFacts
<1> DEFINE im == SlotsPaths(sl)
           z == [x EXCEPT !.slots = sl, !.img = im, !.fb = FALSE, !.fbslot = -1, !.save = TRUE, !.last = la]
<1>2. \A t \in Slots : sl[t] \in Slot /\ im[t] = Path(sl[t])
  BY DEF SlotsPaths
<1>3. \A t \in Slots : Path(sl[t]) \in Paths
  BY <1>2, PathFacts DEF Named
<1>4. im \in [Slots -> Paths]
  BY <1>3 DEF SlotsPaths
<1>5. y = z
  BY DEF ImagesAt
<1> HIDE DEF im
<1>6. z \in MenuRecs
  BY <1>1, <1>4 DEF MenuRecs
<1>7. z.slots = sl /\ z.img = im /\ z.fbslot = -1 /\ z.kept = x.kept
  BY <1>1 DEF MenuRecs
<1>8. z.fb = FALSE /\ z.save = TRUE
  BY <1>1 DEF MenuRecs
<1> HIDE DEF z
<1>9. ImagesFit(y)
  <2>1. \A t \in Slots : Mounted(y, t) = sl[t]
    BY <1>5, <1>7, <1>8, Zenon DEF Mounted
  <2> QED
    BY <1>2, <1>5, <1>7, <2>1, Zenon DEF ImagesFit, Named
<1>10. ListFits(y)
  BY <1>5, <1>7 DEF ListFits
<1>11. Apart(y)
  BY <1>5, <1>7 DEF Apart, Sound, im
<1>12. KeptFits(y, o)
  BY <1>5, <1>7, <1>8 DEF KeptFits
<1> QED
  BY <1>5, <1>6, <1>8, <1>9, <1>10, <1>11, <1>12, Zenon DEF Sound

\* Slots without their image.
Emptied(sl, ss) == [t \in Slots |-> IF t \in ss THEN [sl[t] EXCEPT !.file = "", !.on = FALSE] ELSE sl[t]]
\* They have none, the others are as they were.
LEMMA EmptiedFacts ==
  ASSUME NEW sl \in [Slots -> Slot], NEW ss, Named(sl)
  PROVE  /\ Emptied(sl, ss) \in [Slots -> Slot] /\ Named(Emptied(sl, ss))
         /\ \A t \in Slots : /\ (t \in ss => ~Emptied(sl, ss)[t].on /\ Path(Emptied(sl, ss)[t]) = NoPath)
                             /\ (t \notin ss => Emptied(sl, ss)[t] = sl[t])
<1> DEFINE y == Emptied(sl, ss)
<1>1. ASSUME NEW t \in Slots, t \in ss
      PROVE  y[t] \in Slot /\ ~y[t].on /\ y[t].file = ""
  <2> DEFINE z == sl[t]
             q == [z EXCEPT !.file = "", !.on = FALSE]
  <2>1. z \in Slot
    OBVIOUS
  <2>2. y[t] = q
    BY <1>1 DEF Emptied
  <2> HIDE DEF z, y
  <2>3. q \in Slot /\ q.file = ""
    BY <2>1 DEF Slot
  <2>4. q.on = FALSE
    BY <2>1 DEF Slot
  <2> QED
    BY <2>2, <2>3, <2>4, Zenon
<1>2. \A t \in Slots : t \notin ss => y[t] = sl[t]
  BY DEF Emptied
<1>3. \A t \in Slots : y[t] \in Slot
  BY <1>1, <1>2
<1>4. y \in [Slots -> Slot]
  <2>1. \E g : y = [t \in Slots |-> g[t]]
    <3> DEFINE g == [t \in Slots |-> IF t \in ss THEN [sl[t] EXCEPT !.file = "", !.on = FALSE] ELSE sl[t]]
    <3>1. y = [t \in Slots |-> g[t]]
      BY DEF Emptied
    <3> QED
      BY <3>1
  <2> HIDE DEF y
  <2> QED
    BY <1>3, <2>1
<1>5. Named(y)
  <2>1. SUFFICES ASSUME NEW t \in Slots PROVE y[t].on <=> y[t].file # ""
    BY DEF Named
  <2> HIDE DEF y
  <2>2. CASE t \in ss
    BY <1>1, <2>2, Zenon
  <2>3. CASE t \notin ss
    BY <1>2, <2>3, Zenon DEF Named
  <2> QED
    BY <2>2, <2>3
<1>6. \A t \in Slots : t \in ss => Path(y[t]) = NoPath
  <2> HIDE DEF y
  <2> QED
    BY <1>1 DEF Path
<1> HIDE DEF y
<1>7. \A t \in Slots : (t \in ss => ~y[t].on /\ Path(y[t]) = NoPath) /\ (t \notin ss => y[t] = sl[t])
  BY <1>1, <1>2, <1>6, Zenon
<1> QED
  BY <1>4, <1>5, <1>7 DEF y

\* A slot with an image.
Holding(sl, s, f) == [sl EXCEPT ![s].file = f, ![s].on = TRUE]
\* It has the image, the others are as they were.
LEMMA HoldingFacts ==
  ASSUME NEW sl \in [Slots -> Slot], NEW s \in Slots, NEW f \in Images, Named(sl)
  PROVE  /\ Holding(sl, s, f) \in [Slots -> Slot] /\ Named(Holding(sl, s, f))
         /\ Holding(sl, s, f)[s].file = f /\ Holding(sl, s, f)[s].on
         /\ \A t \in Slots : t # s => Holding(sl, s, f)[t] = sl[t]
<1> DEFINE z == sl[s]
           q == [z EXCEPT !.file = f, !.on = TRUE]
           y == [sl EXCEPT ![s] = q]
<1>0. f # ""
  BY MenuAssumption DEF Images
<1>1. z \in Slot
  OBVIOUS
<1>2. Holding(sl, s, f) = y
  BY DEF Holding
<1>3. q \in Slot /\ q.file = f
  <2> HIDE DEF z
  <2> QED
    BY <1>1 DEF Slot
<1>4. q.on = TRUE
  <2> HIDE DEF z
  <2> QED
    BY <1>1 DEF Slot
<1> HIDE DEF q
<1>5. y \in [Slots -> Slot] /\ y[s] = q /\ \A t \in Slots : t # s => y[t] = sl[t]
  BY <1>3
<1> HIDE DEF y
<1>6. y[s].file = f /\ y[s].on
  BY <1>3, <1>4, <1>5, Zenon
<1>7. Named(y)
  <2>1. SUFFICES ASSUME NEW t \in Slots PROVE y[t].on <=> y[t].file # ""
    BY DEF Named
  <2>2. CASE t = s
    BY <1>0, <1>6, <2>2, Zenon
  <2>3. CASE t # s
    BY <1>5, <2>3, Zenon DEF Named
  <2> QED
    BY <2>2, <2>3
<1> QED
  BY <1>2, <1>5, <1>6, <1>7, Zenon

\* What the core has of the slots that are not browsed.
LEMMA ImagesAre ==
  ASSUME NEW x, Sound(x)
  PROVE  /\ Named(x.slots) /\ x.slots \in [Slots -> Slot] /\ x.img \in [Slots -> Paths]
         /\ \A t \in Slots : ~x.fb \/ t # cur_slot(x) => x.img[t] = Path(x.slots[t])
<1>1. x.slots \in [Slots -> Slot] /\ x.img \in [Slots -> Paths]
  BY SoundFacts, MenuFields
<1>2. \A t \in Slots : x.img[t] = Path(Mounted(x, t)) /\ (x.slots[t].on <=> x.slots[t].file # "")
  BY DEF Sound, ImagesFit
<1>3. \A t \in Slots : ~x.fb \/ t # cur_slot(x) => Mounted(x, t) = x.slots[t]
  BY Zenon DEF Mounted
<1> QED
  BY <1>1, <1>2, <1>3, Zenon DEF Named

\* app_core_eject(): the slots are empty, the others are as they were.
LEMMA EjectKeeps ==
  ASSUME ItemsRight, NEW o, NEW x, Sound(x), KeptFits(x, o), NEW ss, x.fb => cur_slot(x) \in ss
  PROVE  Sound(Done(ejected(x, ss))) /\ KeptFits(Done(ejected(x, ss)), o) /\ ~Done(ejected(x, ss)).fb
<1>1. x \in MenuRecs /\ x.last \in Slots \cup {-1}
  BY SoundFacts, MenuFields
<1> DEFINE sl == Emptied(x.slots, ss)
           im == SlotsPaths(sl)
           y == Done(ejected(x, ss))
<1>2. /\ Named(x.slots) /\ x.slots \in [Slots -> Slot] /\ x.img \in [Slots -> Paths]
      /\ \A t \in Slots : ~x.fb \/ t # cur_slot(x) => x.img[t] = Path(x.slots[t])
  BY ImagesAre
<1>3. /\ sl \in [Slots -> Slot] /\ Named(sl)
      /\ \A t \in Slots : (t \in ss => ~sl[t].on /\ Path(sl[t]) = NoPath) /\ (t \notin ss => sl[t] = x.slots[t])
  BY <1>2, EmptiedFacts
<1>4. \A t \in Slots : im[t] = IF t \in ss THEN NoPath ELSE x.img[t]
  <2> HIDE DEF sl
  <2>1. \A t \in Slots : im[t] = Path(sl[t])
    BY DEF SlotsPaths
  <2> HIDE DEF im
  <2>2. \A t \in Slots : t \notin ss => x.img[t] = Path(x.slots[t])
    BY <1>2
  <2> QED
    BY <1>3, <2>1, <2>2, Zenon
<1>5. y = ImagesAt(x, sl, x.last)
  <2> DEFINE e == [t \in DOMAIN x.slots |-> IF t \in ss THEN [x.slots[t] EXCEPT !.file = "", !.on = FALSE]
                                            ELSE x.slots[t]]
             i == [t \in DOMAIN x.img |-> IF t \in ss THEN NoPath ELSE x.img[t]]
  <2>1. e = sl
    BY <1>2 DEF Emptied
  <2>2. i = im
    <3>1. im = [t \in Slots |-> im[t]]
      BY DEF SlotsPaths
    <3> HIDE DEF im
    <3> QED
      BY <1>2, <1>4, <3>1
  <2>3. ejected(x, ss) = [x EXCEPT !.slots = e, !.img = i, !.fbslot = -1, !.save = TRUE]
    BY DEF ejected
  <2> HIDE DEF e, i
  <2>4. y = [[x EXCEPT !.slots = e, !.img = i, !.fbslot = -1, !.save = TRUE] EXCEPT !.fb = FALSE, !.save = TRUE]
    BY <2>3 DEF Done
  <2> HIDE DEF y, sl, im
  <2>5. ImagesAt(x, sl, x.last) = [x EXCEPT !.slots = e, !.img = i, !.fb = FALSE, !.fbslot = -1, !.save = TRUE,
                                           !.last = x.last]
    BY <2>1, <2>2 DEF ImagesAt, im
  <2> QED
    BY <1>1, <2>4, <2>5 DEF MenuRecs
<1>6. Kgo2 => DrivesApart(im)
  <2>1. SUFFICES ASSUME Kgo2 PROVE DrivesApart(im)
    OBVIOUS
  <2>2. DrivesApart(x.img)
    BY <2>1 DEF Sound, Apart
  <2> HIDE DEF im
  <2>3. \A t \in Slots : Len(im[t]) = 1 => im[t] = x.img[t]
    BY <1>4, NoPathLength, Zenon
  <2> QED
    BY <2>2, <2>3, Zenon DEF DrivesApart
<1> HIDE DEF sl, y
<1>7. sl \in [Slots -> Slot] /\ Named(sl)
  BY <1>3
<1>8. Sound(y) /\ KeptFits(y, o) /\ ~y.fb
  BY <1>1, <1>5, <1>6, <1>7, ImagesKeep
<1> QED
  BY <1>8 DEF y

\* The physical drives stay in one slot, once the others have lost it.
LEMMA DriveApart ==
  ASSUME ItemsRight, NEW x, Sound(x), Kgo2, osd[x.curr].type = "F", NEW drive \in PhysDrives,
         NEW ss, NEW im,
         ss = {SlotOf(j) : j \in {k \in 1 .. osd_len \ {x.curr} :
                 osd[k].type = "F" /\ x.slots[SlotOf(k)].on /\ x.slots[SlotOf(k)].file = drive}},
         im[cur_slot(x)] = <<drive>>,
         \A t \in Slots : t # cur_slot(x) => im[t] = IF t \in ss THEN NoPath ELSE x.img[t]
  PROVE  DrivesApart(im)
<1> DEFINE s == cur_slot(x)
<1>1. x \in MenuRecs /\ x.curr \in 1 .. MaxItems /\ IsFile(osd[x.curr].type)
  BY SoundFacts, MenuFields DEF IsFile
<1>2. x.curr \in 1 .. osd_len /\ SlotOf(x.curr) = s /\ s \in Slots
  BY <1>1, ItemFacts DEF cur_slot
<1>3. DrivesApart(x.img)
  BY DEF Sound, Apart
<1>4. /\ Named(x.slots) /\ x.slots \in [Slots -> Slot]
      /\ \A t \in Slots : t # s => x.img[t] = Path(x.slots[t])
  BY ImagesAre
<1>5. \A t \in Slots : t # s /\ Len(im[t]) = 1 => im[t] = x.img[t] /\ t \notin ss
  BY NoPathLength, Zenon
<1>6. ASSUME NEW u \in Slots, u # s, im[u] = <<drive>>
      PROVE  FALSE
  <2>1. Len(im[u]) = 1
    BY <1>6
  <2>2. x.img[u] = <<drive>> /\ u \notin ss /\ Len(x.img[u]) = 1
    BY <1>5, <1>6, <2>1
  <2>3. PICK j \in 1 .. osd_len : osd[j].type = "F" /\ SlotOf(j) = u
    BY <1>3, <2>2 DEF DrivesApart
  <2> DEFINE z == x.slots[u]
  <2>4. z \in Slot /\ (z.on <=> z.file # "") /\ Path(z) = <<drive>> /\ Len(Path(z)) = 1
    BY <1>4, <1>6, <2>2 DEF Named
  <2> HIDE DEF z
  <2>5. z.on /\ z.file \in PhysDrives /\ Path(z) = <<z.file>>
    BY <2>4, PathFacts
  <2>6. z.file = drive
    <3>1. \A a, b : <<a>> = <<b>> => a = b
      OBVIOUS
    <3>2. <<drive>> = <<z.file>>
      BY <2>4, <2>5, Zenon
    <3> QED
      BY <3>1, <3>2, Zenon
  <2>7. j # x.curr
    BY <1>2, <1>6, <2>3
  <2>8. j \in {k \in 1 .. osd_len \ {x.curr} :
                 osd[k].type = "F" /\ x.slots[SlotOf(k)].on /\ x.slots[SlotOf(k)].file = drive}
    BY <2>3, <2>5, <2>6, <2>7 DEF z
  <2>9. u \in ss
    BY <2>3, <2>8
  <2> QED
    BY <2>2, <2>9
<1> HIDE DEF s
<1>7. SUFFICES ASSUME NEW t \in Slots, Len(im[t]) = 1
               PROVE  /\ \E i \in 1 .. osd_len : osd[i].type = "F" /\ SlotOf(i) = t
                      /\ \A u \in Slots : im[u] = im[t] => u = t
  BY Zenon DEF DrivesApart
<1>8. CASE t = s
  <2>1. osd[x.curr].type = "F" /\ SlotOf(x.curr) = t
    BY <1>2, <1>8
  <2>2. \A u \in Slots : im[u] = im[t] => u = t
    BY <1>6, <1>8 DEF s
  <2> QED
    BY <1>2, <2>1, <2>2
<1>9. CASE t # s
  <2>1. im[t] = x.img[t]
    BY <1>5, <1>7, <1>9
  <2>2. Len(x.img[t]) = 1
    BY <1>7, <2>1
  <2>3. /\ \E i \in 1 .. osd_len : osd[i].type = "F" /\ SlotOf(i) = t
        /\ \A u \in Slots : x.img[u] = x.img[t] => u = t
    BY <1>3, <2>2, Zenon DEF DrivesApart
  <2>4. ASSUME NEW u \in Slots, im[u] = im[t]
        PROVE  u = t
    <3>1. CASE u = s
      <4>1. im[t] = <<drive>>
        BY <2>4, <3>1 DEF s
      <4> QED
        BY <1>6, <1>9, <4>1
    <3>2. CASE u # s
      <4>1. Len(im[u]) = 1
        BY <1>7, <2>4
      <4>2. im[u] = x.img[u]
        BY <1>5, <3>2, <4>1
      <4> QED
        BY <2>1, <2>3, <2>4, <4>2
    <3> QED
      BY <3>1, <3>2
  <2> QED
    BY <2>3, <2>4
<1> QED
  BY <1>8, <1>9

\* A slot gets an image, others may lose theirs.
Held(x, s, ss, f, sl) ==
  /\ sl \in [Slots -> Slot] /\ Named(sl) /\ sl[s].file = f /\ sl[s].on
  /\ \A t \in Slots : t # s => Path(sl[t]) = IF t \in ss THEN NoPath ELSE x.img[t]
\* A slot that gets an image after others have lost theirs.
LEMMA HoldFacts ==
  ASSUME NEW x, Sound(x), NEW s \in Slots, s = cur_slot(x), NEW ss, NEW f \in Images,
         NEW e, e = Emptied(x.slots, ss), NEW sl, sl = Holding(e, s, f)
  PROVE  Held(x, s, ss, f, sl)
<1>1. /\ Named(x.slots) /\ x.slots \in [Slots -> Slot]
      /\ \A t \in Slots : t # s => x.img[t] = Path(x.slots[t])
  BY ImagesAre
<1>2. /\ e \in [Slots -> Slot] /\ Named(e)
      /\ \A t \in Slots : (t \in ss => Path(e[t]) = NoPath) /\ (t \notin ss => e[t] = x.slots[t])
  BY <1>1, EmptiedFacts
<1>3. e \in [Slots -> Slot] /\ Named(e)
  BY <1>2
<1>4. /\ sl \in [Slots -> Slot] /\ Named(sl) /\ sl[s].file = f /\ sl[s].on
      /\ \A t \in Slots : t # s => sl[t] = e[t]
  BY <1>3, HoldingFacts
<1>5. \A t \in Slots : t # s => Path(sl[t]) = IF t \in ss THEN NoPath ELSE x.img[t]
  <2>1. SUFFICES ASSUME NEW t \in Slots, t # s
                 PROVE  Path(sl[t]) = IF t \in ss THEN NoPath ELSE x.img[t]
    OBVIOUS
  <2>2. sl[t] = e[t] /\ x.img[t] = Path(x.slots[t])
    BY <1>1, <1>4, <2>1
  <2>3. t \in ss => Path(sl[t]) = NoPath
    BY <1>2, <2>2, Zenon
  <2>4. t \notin ss => Path(sl[t]) = x.img[t]
    BY <1>2, <2>2, Zenon
  <2> QED
    BY <2>3, <2>4
<1> QED
  BY <1>4, <1>5 DEF Held

\* The images of the slots after that.
LEMMA HoldPaths ==
  ASSUME NEW sl, NEW im, NEW s \in Slots, im \in [Slots -> Paths],
         \A t \in Slots : t # s => Path(sl[t]) = im[t]
  PROVE  [im EXCEPT ![s] = Path(sl[s])] = SlotsPaths(sl)
<1> DEFINE p == Path(sl[s])
           g == [im EXCEPT ![s] = p]
           h == SlotsPaths(sl)
<1>3. h = [t \in Slots |-> Path(sl[t])]
  BY DEF SlotsPaths
<1> HIDE DEF h
<1>4. g = [t \in Slots |-> IF t = s THEN p ELSE im[t]]
  OBVIOUS
<1>5. \A t \in Slots : Path(sl[t]) = IF t = s THEN p ELSE im[t]
  OBVIOUS
<1> HIDE DEF p, g
<1>6. g = h
  BY <1>3, <1>4, <1>5
<1> QED
  BY <1>6 DEF g, h, p

\* app_core_select_phys()
LEMMA SelectKeeps ==
  ASSUME ItemsRight, NEW o, NEW x, Sound(x), KeptFits(x, o), osd[x.curr].type = "F", NEW drive \in PhysDrives
  PROVE  LET y == Done(app_core_select_phys(x, x.curr, drive))
         IN Sound(y) /\ KeptFits(y, o) /\ ~y.fb
<1> DEFINE s == cur_slot(x)
           on == {j \in 1 .. osd_len \ {x.curr} :
                    osd[j].type = "F" /\ x.slots[SlotOf(j)].on /\ x.slots[SlotOf(j)].file = drive}
           ss == {SlotOf(j) : j \in on}
           sl0 == Emptied(x.slots, ss)
           im0 == [t \in Slots |-> IF t \in ss THEN NoPath ELSE x.img[t]]
           fs0 == IF on = {} THEN x.fbslot ELSE -1
           sv0 == IF on = {} THEN x.save ELSE TRUE
           sl == Holding(sl0, s, drive)
           im == SlotsPaths(sl)
           e == ejects_others(x, x.curr, drive)
           w == [e EXCEPT !.slots[s].file = drive, !.slots[s].on = TRUE, !.fbslot = -1, !.save = TRUE]
           y == Done(app_core_select_phys(x, x.curr, drive))
<1>1. x \in MenuRecs /\ x.curr \in 1 .. MaxItems /\ x.last \in Slots \cup {-1}
  BY SoundFacts, MenuFields
<1>2. x.slots \in [Slots -> Slot] /\ x.img \in [Slots -> Paths] /\ SlotOf(x.curr) = s
  BY <1>1, MenuFields DEF cur_slot
<1>3. s \in Slots /\ drive \in Images
  BY <1>1, ItemFacts DEF cur_slot, IsFile, Images
<1>4. /\ sl \in [Slots -> Slot] /\ Named(sl) /\ sl[s].file = drive /\ sl[s].on
      /\ \A t \in Slots : t # s => Path(sl[t]) = IF t \in ss THEN NoPath ELSE x.img[t]
  <2>1. sl = Holding(sl0, s, drive) /\ sl0 = Emptied(x.slots, ss) /\ s = cur_slot(x)
    OBVIOUS
  <2> HIDE DEF ss, sl, sl0, s
  <2>2. Held(x, s, ss, drive, sl)
    BY <1>3, <2>1, HoldFacts
  <2> QED
    BY <2>2 DEF Held
<1>5. e = [x EXCEPT !.slots = sl0, !.img = im0, !.fbslot = fs0, !.save = sv0]
  <2>1. CASE on = {}
    <3>1. e = x
      BY <2>1 DEF ejects_others
    <3>2. ss = {} /\ fs0 = x.fbslot /\ sv0 = x.save
      BY <2>1
    <3> HIDE DEF ss, fs0, sv0, on
    <3>3. sl0 = x.slots /\ im0 = x.img
      BY <1>2, <3>2 DEF Emptied
    <3> HIDE DEF e, sl0, im0
    <3> QED
      BY <1>1, <3>1, <3>2, <3>3 DEF MenuRecs
  <2>2. CASE on # {}
    <3>1. e = ejected(x, ss)
      BY <1>2, <2>2 DEF ejects_others
    <3>2. fs0 = -1 /\ sv0 = TRUE
      BY <2>2
    <3> HIDE DEF ss, fs0, sv0, e, on
    <3>3. ejected(x, ss) = [x EXCEPT !.slots = sl0, !.img = im0, !.fbslot = -1, !.save = TRUE]
      BY <1>2 DEF ejected, Emptied
    <3> HIDE DEF sl0, im0
    <3> QED
      BY <3>1, <3>2, <3>3
  <2> QED
    BY <2>1, <2>2
<1>6. w = [x EXCEPT !.slots = sl, !.img = im0, !.fbslot = -1, !.save = TRUE]
  <2>1. sl = [sl0 EXCEPT ![s].file = drive, ![s].on = TRUE]
    BY DEF Holding
  <2> HIDE DEF e, sl0, im0, fs0, sv0, ss, on, s, sl
  <2>2. e.slots = sl0 /\ "slots" \in DOMAIN e
    BY <1>1, <1>5 DEF MenuRecs
  <2>3. w = [e EXCEPT !.slots = sl, !.fbslot = -1, !.save = TRUE]
    <3> DEFINE a == [e EXCEPT !.slots[s].file = drive]
               q == [sl0 EXCEPT ![s].file = drive]
               b == [a EXCEPT !.slots[s].on = TRUE]
    <3>1. a = [e EXCEPT !.slots = q]
      BY <2>2
    <3>2. a.slots = q
      <4> HIDE DEF q, a
      <4> QED
        BY <2>2, <3>1
    <3>3. sl = [q EXCEPT ![s].on = TRUE]
      BY <2>1
    <3>4. b = [a EXCEPT !.slots = sl]
      <4> HIDE DEF q, a
      <4> QED
        BY <3>2, <3>3
    <3>5. b = [e EXCEPT !.slots = sl]
      <4> HIDE DEF q, a, b
      <4> QED
        BY <3>1, <3>4
    <3>6. w = [b EXCEPT !.fbslot = -1, !.save = TRUE]
      OBVIOUS
    <3> HIDE DEF w, b
    <3> QED
      BY <3>5, <3>6
  <2> HIDE DEF w
  <2> QED
    BY <1>1, <1>5, <2>3 DEF MenuRecs
<1>7. [im0 EXCEPT ![s] = Path(sl[s])] = im
  <2> HIDE DEF ss
  <2>1. im0 \in [Slots -> Paths] /\ \A t \in Slots : im0[t] = IF t \in ss THEN NoPath ELSE x.img[t]
    BY <1>2 DEF Paths
  <2> HIDE DEF im0, sl, s
  <2>2. \A t \in Slots : t # s => Path(sl[t]) = im0[t]
    BY <1>4, <2>1, Zenon
  <2> QED
    BY <1>3, <2>1, <2>2, HoldPaths
<1>8. y = ImagesAt(x, sl, x.last)
  <2>1. y = Done(img_mount(w, s))
    BY <1>2 DEF app_core_select_phys
  <2>2. img_mount(w, s) = [w EXCEPT !.img[s] = Path(w.slots[s])]
    BY DEF img_mount
  <2> HIDE DEF y, w, sl, im0, s, im
  <2>3. w.slots = sl /\ w.img = im0
    BY <1>1, <1>6 DEF MenuRecs
  <2>4. [w EXCEPT !.img[s] = Path(w.slots[s])] = [w EXCEPT !.img = im]
    BY <1>1, <1>6, <1>7, <2>3 DEF MenuRecs
  <2>5. y = [[w EXCEPT !.img = im] EXCEPT !.fb = FALSE, !.save = TRUE]
    BY <2>1, <2>2, <2>4 DEF Done
  <2>6. ImagesAt(x, sl, x.last) = [x EXCEPT !.slots = sl, !.img = im, !.fb = FALSE, !.fbslot = -1, !.save = TRUE,
                                            !.last = x.last]
    BY DEF ImagesAt, im
  <2> DEFINE n == -1
             yes == TRUE
             no == FALSE
             last == x.last
             v == [x EXCEPT !.slots = sl, !.img = im, !.fbslot = n, !.save = yes]
  <2>7. w = [x EXCEPT !.slots = sl, !.img = im0, !.fbslot = n, !.save = yes]
    BY <1>6
  <2>8. y = [[w EXCEPT !.img = im] EXCEPT !.fb = no, !.save = yes]
    BY <2>5
  <2>9. ImagesAt(x, sl, x.last) = [x EXCEPT !.slots = sl, !.img = im, !.fb = no, !.fbslot = n, !.save = yes, !.last = last]
    BY <2>6
  <2>10. last = x.last
    OBVIOUS
  <2>11. x \in MenuRecs
    BY <1>1
  <2> HIDE DEF n, yes, no, last
  <2>12. [w EXCEPT !.img = im] = v
    BY <2>7, <2>11 DEF MenuRecs
  <2>13. [v EXCEPT !.fb = no, !.save = yes] = [x EXCEPT !.slots = sl, !.img = im, !.fb = no, !.fbslot = n, !.save = yes]
    BY <2>11 DEF MenuRecs
  <2> DEFINE u == [x EXCEPT !.slots = sl, !.img = im, !.fb = no, !.fbslot = n, !.save = yes]
  <2>14. u.last = last
    BY <2>10, <2>11 DEF MenuRecs
  <2>15. u \in [DOMAIN x -> {u[i] : i \in DOMAIN x}]
    BY <2>11 DEF MenuRecs
  <2>16. [x EXCEPT !.slots = sl, !.img = im, !.fb = no, !.fbslot = n, !.save = yes, !.last = last] = [u EXCEPT !.last = last]
    OBVIOUS
  <2>17. [u EXCEPT !.last = last] = u
    <3> HIDE DEF u
    <3> QED
      BY <2>14, <2>15
  <2> HIDE DEF v, u
  <2> QED
    BY <2>8, <2>9, <2>12, <2>13, <2>16, <2>17 DEF u
<1>9. Kgo2 => DrivesApart(im)
  <2>1. SUFFICES ASSUME Kgo2 PROVE DrivesApart(im)
    OBVIOUS
  <2> DEFINE z == sl[s]
  <2>2. z \in Slot /\ (z.on <=> z.file # "") /\ z.file = drive /\ z.on
    BY <1>3, <1>4 DEF Named
  <2> HIDE DEF z, sl
  <2>3. Path(z) = <<drive>>
    BY <2>2, PathFacts
  <2>4. \A t \in Slots : im[t] = Path(sl[t])
    BY DEF SlotsPaths
  <2>5. im[s] = <<drive>>
    BY <1>3, <2>3, <2>4 DEF z
  <2> HIDE DEF im
  <2>6. \A t \in Slots : t # s => im[t] = IF t \in ss THEN NoPath ELSE x.img[t]
    BY <1>4, <2>4, Zenon
  <2>7. ss = {SlotOf(j) : j \in {k \in 1 .. osd_len \ {x.curr} :
                 osd[k].type = "F" /\ x.slots[SlotOf(k)].on /\ x.slots[SlotOf(k)].file = drive}}
    OBVIOUS
  <2> HIDE DEF ss
  <2> QED
    BY SMTT(40), <2>1, <2>5, <2>6, <2>7, DriveApart
<1> HIDE DEF sl, y
<1>10. sl \in [Slots -> Slot] /\ Named(sl)
  BY <1>4
<1>11. Sound(y) /\ KeptFits(y, o) /\ ~y.fb
  BY <1>1, <1>8, <1>9, <1>10, ImagesKeep
<1> QED
  BY <1>11 DEF y

\* An image of the list.
LEMMA ImageKeeps ==
  ASSUME ItemsRight, NEW o, NEW x, Sound(x), KeptFits(x, o), IsFile(osd[x.curr].type)
  PROVE  Sound(Image(x)) /\ KeptFits(Image(x), o) /\ ~Image(x).fb
<1> DEFINE s == cur_slot(x)
           f == "x"
           la == IF osd[x.curr].type = "F" THEN s ELSE x.last
           e == Emptied(x.slots, {})
           sl == Holding(e, s, f)
           im == SlotsPaths(sl)
           y == [x EXCEPT !.slots[s].file = f, !.slots[s].on = TRUE, !.fb = FALSE, !.fbslot = -1,
                          !.save = TRUE, !.last = la]
<1>1. x \in MenuRecs /\ x.curr \in 1 .. MaxItems /\ x.last \in Slots \cup {-1}
  BY SoundFacts, MenuFields
<1>2. x.slots \in [Slots -> Slot] /\ x.img \in [Slots -> Paths] /\ Named(x.slots)
  BY ImagesAre
<1>3. s \in Slots /\ f \in Images /\ la \in Slots \cup {-1}
  BY <1>1, ItemFacts DEF cur_slot, Images
<1>4. e = x.slots
  BY <1>2 DEF Emptied
<1>5. /\ sl \in [Slots -> Slot] /\ Named(sl) /\ sl[s].file = f /\ sl[s].on
      /\ \A t \in Slots : t # s => Path(sl[t]) = x.img[t]
  <2> DEFINE ss == {}
  <2>1. sl = Holding(e, s, f) /\ e = Emptied(x.slots, ss) /\ s = cur_slot(x)
    OBVIOUS
  <2> HIDE DEF ss, sl, e, s, f
  <2>2. Held(x, s, ss, f, sl)
    BY <1>3, <2>1, HoldFacts
  <2>3. \A t \in Slots : t \notin ss
    BY DEF ss
  <2> QED
    BY <2>2, <2>3 DEF Held
<1>6. y = [x EXCEPT !.slots = sl, !.fb = FALSE, !.fbslot = -1, !.save = TRUE, !.last = la]
  <2> DEFINE a == [x EXCEPT !.slots[s].file = f]
             q == [x.slots EXCEPT ![s].file = f]
             b == [a EXCEPT !.slots[s].on = TRUE]
  <2>0. sl = [x.slots EXCEPT ![s].file = f, ![s].on = TRUE]
    BY <1>4 DEF Holding
  <2> HIDE DEF s, f, e, sl, la
  <2>1. a = [x EXCEPT !.slots = q]
    BY <1>1 DEF MenuRecs
  <2>2. a.slots = q
    <3> HIDE DEF q, a
    <3> QED
      BY <1>1, <2>1 DEF MenuRecs
  <2>3. sl = [q EXCEPT ![s].on = TRUE]
    BY <2>0
  <2>4. b = [a EXCEPT !.slots = sl]
    <3> HIDE DEF q, a
    <3> QED
      BY <2>2, <2>3
  <2>5. b = [x EXCEPT !.slots = sl]
    <3> HIDE DEF q, a, b
    <3> QED
      BY <2>1, <2>4
  <2>6. y = [b EXCEPT !.fb = FALSE, !.fbslot = -1, !.save = TRUE, !.last = la]
    OBVIOUS
  <2> HIDE DEF y, b
  <2> QED
    BY <2>5, <2>6
<1>7. [x.img EXCEPT ![s] = Path(sl[s])] = im
  <2> HIDE DEF sl, s
  <2> QED
    BY <1>2, <1>3, <1>5, HoldPaths
<1>8. Image(x) = ImagesAt(x, sl, la)
  <2>1. Image(x) = img_mount(y, s)
    BY DEF Image
  <2>2. img_mount(y, s) = [y EXCEPT !.img[s] = Path(y.slots[s])]
    BY DEF img_mount
  <2> HIDE DEF y, sl, s, la, im
  <2>3. y.slots = sl /\ y.img = x.img
    BY <1>1, <1>6 DEF MenuRecs
  <2>4. [y EXCEPT !.img[s] = Path(y.slots[s])] = [y EXCEPT !.img = im]
    BY <1>1, <1>6, <1>7, <2>3 DEF MenuRecs
  <2>5. Image(x) = [y EXCEPT !.img = im]
    BY <2>1, <2>2, <2>4
  <2>6. ImagesAt(x, sl, la) = [x EXCEPT !.slots = sl, !.img = im, !.fb = FALSE, !.fbslot = -1, !.save = TRUE,
                                        !.last = la]
    BY DEF ImagesAt, im
  <2> DEFINE n == -1
             yes == TRUE
             no == FALSE
  <2>7. y = [x EXCEPT !.slots = sl, !.fb = no, !.fbslot = n, !.save = yes, !.last = la]
    BY <1>6
  <2>8. ImagesAt(x, sl, la) = [x EXCEPT !.slots = sl, !.img = im, !.fb = no, !.fbslot = n, !.save = yes, !.last = la]
    BY <2>6
  <2>9. x \in MenuRecs
    BY <1>1
  <2> HIDE DEF n, yes, no
  <2>10. [y EXCEPT !.img = im]
         = [x EXCEPT !.slots = sl, !.img = im, !.fb = no, !.fbslot = n, !.save = yes, !.last = la]
    BY <2>7, <2>9 DEF MenuRecs
  <2> QED
    BY <2>5, <2>8, <2>10
<1>9. Kgo2 => DrivesApart(im)
  <2>1. SUFFICES ASSUME Kgo2 PROVE DrivesApart(im)
    OBVIOUS
  <2>2. DrivesApart(x.img)
    BY <2>1 DEF Sound, Apart
  <2> DEFINE z == sl[s]
  <2>3. z \in Slot /\ (z.on <=> z.file # "") /\ z.file = "x"
    BY <1>3, <1>5 DEF Named
  <2>4. z.file \notin PhysDrives
    BY <2>3, MenuAssumption
  <2> HIDE DEF z, sl
  <2>5. Len(Path(z)) # 1
    BY <2>3, <2>4, PathFacts
  <2>6. \A t \in Slots : im[t] = Path(sl[t])
    BY DEF SlotsPaths
  <2> HIDE DEF im, s
  <2>7. \A t \in Slots : Len(im[t]) = 1 => t # s
    BY <2>5, <2>6, Zenon DEF z
  <2>8. \A t \in Slots : Len(im[t]) = 1 => im[t] = x.img[t]
    BY <1>5, <2>6, <2>7, Zenon
  <2> QED
    BY <2>2, <2>8, Zenon DEF DrivesApart
<1> HIDE DEF sl, la
<1>10. sl \in [Slots -> Slot] /\ Named(sl)
  BY <1>5
<1>11. Sound(Image(x)) /\ KeptFits(Image(x), o) /\ ~Image(x).fb
  BY <1>3, <1>8, <1>9, <1>10, ImagesKeep
<1> QED
  BY <1>11

\* A list that is left: nothing was chosen, the slot is where it was.
LEMMA DoneKeeps ==
  ASSUME ItemsRight, NEW o, NEW x, Good(x, o), x.fb, x.list.eject, osd[x.curr].type # "F"
  PROVE  Sound(Done(x)) /\ KeptFits(Done(x), o) /\ ~Done(x).fb
<1>1. x \in MenuRecs /\ Sound(x) /\ KeptFits(x, o) /\ x.curr \in 1 .. MaxItems /\ IsFile(osd[x.curr].type)
  BY SoundFacts, MenuFields DEF Good
<1> DEFINE s == cur_slot(x)
           y == [x EXCEPT !.fb = FALSE, !.save = TRUE]
<1>2. s \in Slots /\ s # -1 /\ x.fbslot = s /\ x.slots[s].dir = x.fbdir
  <2>1. s \in Slots /\ s # -1
    BY <1>1, ItemFacts DEF cur_slot
  <2>2. x.fbslot = s
    BY DEF Good, Browsed
  <2> QED
    BY <1>1, <2>1, <2>2 DEF Sound, ListFits
<1>3. Done(x) = y
  BY DEF Done
<1>4. y \in MenuRecs
  BY <1>1 DEF MenuRecs
<1>5. /\ y.curr = x.curr /\ y.fbslot = x.fbslot /\ y.list = x.list /\ y.slots = x.slots
      /\ y.img = x.img /\ y.kept = x.kept
  BY <1>1 DEF MenuRecs
<1>6. y.fb = FALSE /\ y.save = TRUE
  BY <1>1 DEF MenuRecs
<1> HIDE DEF y
<1>7. \A t \in Slots : Mounted(y, t) = Mounted(x, t)
  <2>1. SUFFICES ASSUME NEW t \in Slots PROVE Mounted(y, t) = Mounted(x, t)
    OBVIOUS
  <2>2. Mounted(y, t) = x.slots[t]
    BY <1>5, <1>6, Zenon DEF Mounted
  <2>3. CASE t # s
    BY <2>2, <2>3, Zenon DEF Mounted
  <2>4. CASE t = s
    <3> DEFINE z == x.slots[s]
               d == x.fbdir
    <3>1. Mounted(x, t) = [z EXCEPT !.dir = d]
      BY <2>4, Zenon DEF Mounted
    <3>2. z \in Slot /\ z.dir = d
      BY <1>1, <1>2, MenuFields
    <3> HIDE DEF z, d
    <3>3. [z EXCEPT !.dir = d] = z
      BY <3>2 DEF Slot
    <3> QED
      BY <2>2, <2>4, <3>1, <3>3 DEF z
  <2> QED
    BY <2>3, <2>4
<1>8. ImagesFit(y)
  BY <1>1, <1>5, <1>7, Zenon DEF ImagesFit, Sound
<1>9. ListFits(y)
  BY <1>1, <1>5, <1>6 DEF ListFits, Sound
<1>10. Apart(y)
  BY <1>1, <1>5 DEF Apart, Sound
<1>11. KeptFits(y, o)
  BY <1>1, <1>5, <1>6 DEF KeptFits
<1> QED
  BY <1>3, <1>4, <1>6, <1>8, <1>9, <1>10, <1>11, Zenon DEF Sound

\* The loader's list takes the browser: no list of a slot was read.
LEMMA LoaderKeeps ==
  ASSUME ItemsRight, NEW o, NEW x, Good(x, o), ~x.fb, listed \/ x.fbslot = -1
  PROVE  Good(loader_shown(x), o) /\ ~loader_shown(x).fb
<1>1. x \in MenuRecs /\ Sound(x) /\ KeptFits(x, o)
  BY SoundFacts DEF Good
<1>2. CASE listed
  BY <1>2 DEF loader_shown
<1>3. CASE ~listed
  <2> DEFINE l == [of |-> "loader", slot |-> 0, dir |-> "/", eject |-> FALSE]
             b == x.fb
             d == x.fbdir
             sl == x.slots
             fs == x.fbslot
             y == BrowseAt(x, b, d, sl, fs, l)
  <2>1. l \in Lists
    BY ItemFacts DEF Lists, Dirs
  <2>2. b \in BOOLEAN /\ d \in Dirs /\ sl \in [Slots -> Slot] /\ fs \in Slots \cup {-1}
    BY <1>1, MenuFields
  <2>3. loader_shown(x) = y
    <3>1. loader_shown(x) = [x EXCEPT !.list = l]
      BY <1>3 DEF loader_shown
    <3> HIDE DEF l
    <3>2. [x EXCEPT !.list = l] = y
      BY <1>1 DEF MenuRecs, BrowseAt
    <3> QED
      BY <3>1, <3>2
  <2> HIDE DEF l, b, d, sl, fs, y
  <2>4. y = BrowseAt(x, b, d, sl, fs, l)
    BY DEF y
  <2>5. /\ Browses(x, y) /\ y.fbdir = d /\ y.slots = sl /\ y.fbslot = fs /\ y.list = l
        /\ (y.fb <=> b) /\ cur_slot(y) = cur_slot(x)
    BY <1>1, <2>1, <2>2, <2>4, BrowseIs
  <2>6. ~y.fb /\ y.curr = x.curr /\ y.slots = x.slots /\ y.fbdir = x.fbdir /\ y.fbslot = -1
    BY <1>3, <2>5 DEF b, d, sl, fs, Browses
  <2>7. SameImages(x, y)
    BY <2>6, SameSlots
  <2>8. ListFits(y)
    BY <2>6 DEF ListFits
  <2>9. Sound(y) /\ KeptFits(y, o)
    BY <1>1, <2>5, <2>6, <2>7, <2>8, BrowseKeeps
  <2> QED
    BY <2>3, <2>6, <2>9 DEF Good, Browsed
<1> QED
  BY <1>2, <1>3

\* Ejected from the menu.
LEMMA EjectsKeep ==
  ASSUME ItemsRight, NEW o, NEW x, Sound(x), KeptFits(x, o), ~x.fb, osd[x.curr].type = "F"
  PROVE  Sound(app_core_eject(x, x.curr)) /\ KeptFits(app_core_eject(x, x.curr), o)
         /\ ~app_core_eject(x, x.curr).fb
<1> DEFINE ss == {SlotOf(x.curr)}
           y == ejected(x, ss)
<1>1. app_core_eject(x, x.curr) = y
  BY DEF app_core_eject
<1>2. Sound(Done(y)) /\ KeptFits(Done(y), o) /\ ~Done(y).fb
  <2> HIDE DEF ss
  <2> QED
    BY EjectKeeps
<1>3. Done(y) = y
  <2> DEFINE e == [t \in DOMAIN x.slots |-> IF t \in ss THEN [x.slots[t] EXCEPT !.file = "", !.on = FALSE]
                                            ELSE x.slots[t]]
             i == [t \in DOMAIN x.img |-> IF t \in ss THEN NoPath ELSE x.img[t]]
  <2>1. y = [x EXCEPT !.slots = e, !.img = i, !.fbslot = -1, !.save = TRUE]
    BY DEF ejected
  <2> HIDE DEF e, i, y
  <2>2. x \in MenuRecs /\ x.fb = FALSE
    <3>1. x \in MenuRecs
      BY SoundFacts
    <3>2. x.fb \in BOOLEAN
      BY <3>1, MenuFields
    <3> QED
      BY <3>1, <3>2
  <2> DEFINE b == FALSE
             v == TRUE
  <2>3. Done(y) = [y EXCEPT !.fb = b, !.save = v] /\ y = [x EXCEPT !.slots = e, !.img = i, !.fbslot = -1, !.save = v]
    BY <2>1 DEF Done
  <2>4. x.fb = b
    BY <2>2
  <2> DEFINE n == -1
             w == [x EXCEPT !.slots = e, !.img = i, !.fbslot = n, !.save = v]
  <2>5. y = w
    BY <2>1
  <2> HIDE DEF b, v, n
  <2>6. w.fb = b /\ w.save = v
    BY <2>2, <2>4 DEF MenuRecs
  <2>7. w \in [DOMAIN x -> {w[k] : k \in DOMAIN x}] /\ DOMAIN w = DOMAIN x
    BY <2>2 DEF MenuRecs
  <2> HIDE DEF w
  <2>8. [w EXCEPT !.fb = b, !.save = v] = w
    BY <2>6, <2>7
  <2> QED
    BY <2>3, <2>5, <2>8
<1> HIDE DEF y
<1> QED
  BY <1>1, <1>2, <1>3

\* Marked to be saved, with items that differ in a switch only then.
LEMMA MarkKeeps ==
  ASSUME ItemsRight, NEW o, NEW q, Shape(o), Shape(q), NEW x, Sound(x), KeptFits(x, o), NEW b \in BOOLEAN,
         ~b => Options(q) = Options(o), NEW y, y = [x EXCEPT !.save = @ \/ b]
  PROVE  /\ Sound(y) /\ KeptFits(y, q) /\ (y.fb <=> x.fb) /\ (Browsed(x) => Browsed(y))
         /\ \A z : Fitted(x, z) => Fitted(y, z)
<1>1. x \in MenuRecs /\ x.kept \in Kepts /\ x.dirty \in BOOLEAN /\ x.save \in BOOLEAN
  BY SoundFacts, MenuFields
<1> DEFINE sv == x.save \/ b
           k == x.kept
           d == x.dirty
<1>2. sv \in BOOLEAN /\ (sv <=> x.save \/ b)
  OBVIOUS
<1>3. y = SavedAs(x, sv, d, k)
  <2>1. y = [x EXCEPT !.save = sv]
    BY <1>1 DEF MenuRecs
  <2> HIDE DEF sv
  <2> QED
    BY <1>1, <2>1 DEF MenuRecs, SavedAs
<1>4. k \in Kepts /\ d \in BOOLEAN
  BY <1>1
<1> HIDE DEF sv, k, d
<1>5. Saved(x, y) /\ y.kept = k /\ (y.save <=> sv) /\ (y.dirty <=> d)
  <2>1. x \in MenuRecs /\ sv \in BOOLEAN /\ d \in BOOLEAN /\ k \in Kepts
    BY <1>1, <1>2, <1>4
  <2>2. SavedIs(x, y, sv, d, k)
    BY <1>3, <2>1, SaveFields
  <2> QED
    BY <2>2, Zenon DEF SavedIs
<1>6. y.kept = x.kept /\ (y.save <=> x.save \/ b) /\ (y.dirty <=> x.dirty) /\ y.img = x.img
  BY <1>2, <1>5, Zenon DEF k, d, Saved
<1>7. Apart(y)
  BY <1>6 DEF Apart, Sound
<1>8. KeptFits(y, q)
  <2>1. ~y.save /\ ~y.dirty => ~b /\ ~x.save /\ ~x.dirty
    BY <1>6, Zenon
  <2> QED
    BY <1>6, <2>1 DEF KeptFits
<1>9. y.fb <=> x.fb
  BY <1>5, Zenon DEF Saved
<1> QED
  BY <1>5, <1>7, <1>8, <1>9, SavesKeep

\* core_state_flush(): what is written is what the menu has.
Flushed(x, o) == [x EXCEPT !.dirty = FALSE, !.kept = Values(x, o)]
\* Then the card has it, and the menu is as it was.
LEMMA FlushKeeps ==
  ASSUME ItemsRight, NEW o, Shape(o), NEW x, Sound(x), ~x.fb, NEW y, y = Flushed(x, o)
  PROVE  Good(y, o) /\ ~y.fb /\ ~y.dirty /\ y.fbslot = x.fbslot /\ \A z : Fitted(x, z) => Fitted(y, z)
<1>1. x \in MenuRecs /\ x.save \in BOOLEAN /\ OnIsNamed(x)
  BY SoundFacts, MenuFields
<1> DEFINE sv == x.save
           d == FALSE
           k == Values(x, o)
<1>2. k \in Kepts /\ k.val = Options(o) /\ k.path = SlotPaths(x)
  BY <1>1, ValuesFacts
<1>3. y = SavedAs(x, sv, d, k)
  <2> HIDE DEF k
  <2>1. y = [x EXCEPT !.dirty = FALSE, !.kept = k]
    BY DEF Flushed, k
  <2> QED
    BY <1>1, <2>1 DEF MenuRecs, SavedAs
<1>4. sv \in BOOLEAN /\ d \in BOOLEAN
  BY <1>1
<1> HIDE DEF sv, k, d
<1>5. Saved(x, y) /\ y.kept = k /\ (y.save <=> sv) /\ (y.dirty <=> d)
  <2>1. x \in MenuRecs /\ sv \in BOOLEAN /\ d \in BOOLEAN /\ k \in Kepts
    BY <1>1, <1>2, <1>4
  <2>2. SavedIs(x, y, sv, d, k)
    BY <1>3, <2>1, SaveFields
  <2> QED
    BY <2>2, Zenon DEF SavedIs
<1>6. y.kept = k /\ ~y.dirty /\ y.img = x.img /\ ~y.fb /\ y.fbslot = x.fbslot
  BY <1>5, Zenon DEF d, Saved
<1>7. k.path = x.img
  <2>1. \A t \in Slots : x.img[t] = Path(x.slots[t])
    BY ImagesAre
  <2>2. x.img \in [Slots -> Paths]
    BY ImagesAre
  <2> QED
    BY <1>2, <2>1, <2>2 DEF SlotPaths
<1>8. Apart(y)
  BY <1>6, <1>7 DEF Apart, Sound
<1>9. KeptFits(y, o)
  <2>1. \A i \in 1 .. osd_len : osd[i].type # "S" => k.val[i] = 0
    <3>1. \A i \in 1 .. osd_len : i \in 1 .. MaxItems
      BY ItemFacts
    <3>2. \A i \in 1 .. osd_len : o[i].type = osd[i].type
      BY <3>1 DEF Shape
    <3> QED
      BY <1>2, <3>2 DEF Options
  <2> QED
    BY <1>2, <1>6, <1>7, <2>1 DEF KeptFits
<1> QED
  BY <1>5, <1>6, <1>8, <1>9, SavesKeep DEF Good, Browsed

\* A slot read from the card has the image that was written.
LEMMA SlotAtFacts ==
  \A p \in Paths : /\ SlotAt(p) \in Slot /\ Path(SlotAt(p)) = p
                   /\ (SlotAt(p).on <=> SlotAt(p).file # "")
<1> SUFFICES ASSUME NEW p \in Paths
             PROVE  SlotAt(p) \in Slot /\ Path(SlotAt(p)) = p /\ (SlotAt(p).on <=> SlotAt(p).file # "")
  OBVIOUS
<1> DEFINE z == SlotAt(p)
<1>1. CASE p = NoPath
  <2>1. z = [dir |-> "/", file |-> "", on |-> FALSE]
    BY <1>1 DEF SlotAt
  <2> HIDE DEF z
  <2>2. z \in Slot /\ z.file = ""
    BY <2>1 DEF Slot, Dirs
  <2>3. z.on = FALSE
    BY <2>1
  <2>4. Path(z) = NoPath
    BY <2>3 DEF Path
  <2> QED
    BY <1>1, <2>2, <2>3, <2>4, Zenon DEF z
<1>2. CASE p # NoPath
  <2>1. (\E d \in PhysDrives : p = <<d>>) \/ (\E d \in Dirs : p = <<d, "x">>)
    BY <1>2 DEF Paths
  <2>2. ASSUME NEW d \in PhysDrives, p = <<d>>
        PROVE  z \in Slot /\ Path(z) = p /\ (z.on <=> z.file # "")
    <3>1. Len(p) = 1 /\ p[1] = d /\ p # <<>>
      BY <2>2
    <3>2. z = [dir |-> "/", file |-> d, on |-> TRUE]
      BY <1>2, <3>1 DEF SlotAt
    <3> HIDE DEF z
    <3>3. z \in Slot /\ z.file = d /\ d # ""
      BY <3>2, MenuAssumption DEF Slot, Dirs, Images
    <3>4. z.on = TRUE
      BY <3>2
    <3>5. Path(z) = <<d>>
      BY <3>3, <3>4 DEF Path
    <3> QED
      BY <2>2, <3>3, <3>4, <3>5, Zenon
  <2>3. ASSUME NEW d \in Dirs, p = <<d, "x">>
        PROVE  z \in Slot /\ Path(z) = p /\ (z.on <=> z.file # "")
    <3>1. Len(p) = 2 /\ p[1] = d /\ p[2] = "x"
      BY <2>3
    <3>2. z = [dir |-> d, file |-> "x", on |-> TRUE]
      BY <1>2, <3>1 DEF SlotAt
    <3> HIDE DEF z
    <3>3. z \in Slot /\ z.file = "x" /\ z.dir = d /\ z.file # "" /\ z.file \notin PhysDrives
      BY <3>2, MenuAssumption DEF Slot, Images
    <3>4. z.on = TRUE
      BY <3>2
    <3>5. Path(z) = <<d, "x">>
      BY <3>3, <3>4 DEF Path
    <3> QED
      BY <2>3, <3>3, <3>4, <3>5, Zenon
  <2> QED
    BY <2>1, <2>2, <2>3
<1> QED
  BY <1>1, <1>2

\* The items as the card has them.
Reloaded(k) == [i \in DOMAIN osd |-> IF i <= osd_len /\ osd[i].type = "S"
                                     THEN [osd[i] EXCEPT !.val = k.val[i]] ELSE osd[i]]
\* They are the same items, with the values of the card.
LEMMA ReloadedFacts ==
  ASSUME ItemsRight, NEW k \in Kepts, NEW r, r = Reloaded(k)
  PROVE  /\ Shape(r) /\ \A i \in 1 .. MaxItems : i > osd_len => r[i] = NoItem
         /\ \A i \in 1 .. osd_len : osd[i].type = "S" => r[i].val = k.val[i]
<1>1. osd \in [1 .. MaxItems -> Items] /\ \A i \in 1 .. MaxItems : i > osd_len => osd[i] = NoItem
  BY DEF ItemsRight
<1>2. MaxItems \in Nat /\ osd_len \in Nat /\ osd_len <= MaxItems /\ k.val \in [1 .. osd_len -> Nat]
  BY ItemFacts, KeptUpdates
<1>3. DOMAIN osd = 1 .. MaxItems
  BY <1>1
<1> DEFINE R(i) == IF i <= osd_len /\ osd[i].type = "S" THEN [osd[i] EXCEPT !.val = k.val[i]] ELSE osd[i]
<1>4. r = [i \in 1 .. MaxItems |-> R(i)]
  BY <1>3 DEF Reloaded
<1>5. ASSUME NEW i \in 1 .. MaxItems
      PROVE  /\ R(i) \in Items /\ R(i).type = osd[i].type /\ R(i).page = osd[i].page /\ R(i).slot = osd[i].slot
             /\ R(i).opens = osd[i].opens /\ R(i).opts = osd[i].opts
             /\ (i > osd_len => R(i) = osd[i])
             /\ (i <= osd_len /\ osd[i].type = "S" => R(i).val = k.val[i])
  <2>1. osd[i] \in Items
    BY <1>1
  <2>2. CASE i <= osd_len /\ osd[i].type = "S"
    <3> DEFINE q == osd[i]
               v == k.val[i]
    <3>1. v \in Nat
      BY <1>2, <2>2
    <3>2. R(i) = [q EXCEPT !.val = v]
      BY <2>2
    <3>3. q \in Items /\ ~(i > osd_len)
      BY <1>2, <2>1, <2>2
    <3>4. /\ [q EXCEPT !.val = v] \in Items /\ [q EXCEPT !.val = v].type = q.type
          /\ [q EXCEPT !.val = v].page = q.page /\ [q EXCEPT !.val = v].slot = q.slot
          /\ [q EXCEPT !.val = v].opens = q.opens /\ [q EXCEPT !.val = v].opts = q.opts
          /\ [q EXCEPT !.val = v].val = v
      <4> HIDE DEF q, v
      <4> QED
        BY <3>1, <3>3 DEF Items
    <3> HIDE DEF R
    <3> QED
      BY <3>2, <3>3, <3>4
  <2>3. CASE ~(i <= osd_len /\ osd[i].type = "S")
    <3>1. R(i) = osd[i]
      BY <2>3
    <3> HIDE DEF R
    <3> QED
      BY <2>1, <2>3, <3>1
  <2> QED
    BY <2>2, <2>3
<1> HIDE DEF R
<1>6. \A i \in 1 .. MaxItems : r[i] = R(i)
  BY <1>4
<1>7. r \in [1 .. MaxItems -> Items]
  BY <1>4, <1>5
<1>8. Shape(r)
  BY <1>5, <1>6, <1>7 DEF Shape
<1>9. \A i \in 1 .. MaxItems : i > osd_len => r[i] = NoItem
  BY <1>1, <1>5, <1>6
<1>10. \A i \in 1 .. osd_len : i \in 1 .. MaxItems /\ i <= osd_len
  BY <1>2
<1>11. \A i \in 1 .. osd_len : osd[i].type = "S" => r[i].val = k.val[i]
  BY <1>5, <1>6, <1>10
<1> QED
  BY <1>8, <1>9, <1>11

\* The core again: it has what the card has, and so has the menu.
Remounted(x) == [x EXCEPT !.slots = [t \in DOMAIN x.slots |-> SlotAt(x.kept.path[t])], !.img = x.kept.path]
\* Then menu, core and card agree.
LEMMA ReloadKeeps ==
  ASSUME ItemsRight, NEW o, NEW x, Sound(x), KeptFits(x, o), ~x.fb, x.fbslot = -1,
         NEW r, r = Reloaded(x.kept), NEW y, y = Remounted(x)
  PROVE  Good(y, r) /\ ~y.fb /\ y.fbslot = -1
<1>1. x \in MenuRecs /\ x.kept \in Kepts /\ x.slots \in [Slots -> Slot]
  BY SoundFacts, MenuFields
<1> DEFINE im == x.kept.path
           sl == [t \in DOMAIN x.slots |-> SlotAt(x.kept.path[t])]
<1>2. im \in [Slots -> Paths]
  BY <1>1, KeptUpdates
<1>3. sl = [t \in Slots |-> SlotAt(im[t])]
  BY <1>1
<1>4. y = [x EXCEPT !.slots = sl, !.img = im]
  BY DEF Remounted
<1> HIDE DEF im, sl
<1>5. /\ sl \in [Slots -> Slot]
      /\ \A t \in Slots : Path(sl[t]) = im[t] /\ (sl[t].on <=> sl[t].file # "")
  <2>1. \A t \in Slots : im[t] \in Paths
    BY <1>2
  <2>2. \A t \in Slots : sl[t] = SlotAt(im[t])
    BY <1>3
  <2>3. \A t \in Slots : SlotAt(im[t]) \in Slot
    BY <2>1, SlotAtFacts, Zenon
  <2>4. \A t \in Slots : Path(sl[t]) = im[t] /\ (sl[t].on <=> sl[t].file # "")
    BY <2>1, <2>2, SlotAtFacts, Zenon
  <2> QED
    BY <1>3, <2>3, <2>4
<1>6. y \in MenuRecs
  BY <1>1, <1>2, <1>4, <1>5 DEF MenuRecs
<1>7. y.slots = sl /\ y.img = im /\ y.fbslot = -1 /\ y.kept = x.kept
  BY <1>1, <1>4 DEF MenuRecs
<1>8. y.fb = x.fb /\ y.save = x.save /\ y.dirty = x.dirty
  BY <1>1, <1>4 DEF MenuRecs
<1>9. ImagesFit(y)
  <2>1. \A t \in Slots : Mounted(y, t) = sl[t]
    BY <1>7, <1>8, Zenon DEF Mounted
  <2> QED
    BY <1>5, <1>7, <2>1, Zenon DEF ImagesFit
<1>10. ListFits(y)
  BY <1>7 DEF ListFits
<1>11. Apart(y)
  BY <1>7 DEF Apart, Sound, im
<1>12. KeptFits(y, r)
  <2>1. SUFFICES ASSUME Kgo2
                 PROVE  /\ \A i \in 1 .. osd_len : osd[i].type # "S" => y.kept.val[i] = 0
                        /\ y.kept.val = Options(r) /\ y.kept.path = y.img
    BY DEF KeptFits
  <2>2. \A i \in 1 .. osd_len : osd[i].type # "S" => x.kept.val[i] = 0
    BY <2>1 DEF KeptFits
  <2>3. /\ Shape(r) /\ \A i \in 1 .. osd_len : osd[i].type = "S" => r[i].val = x.kept.val[i]
    BY <1>1, ReloadedFacts
  <2>4. \A i \in 1 .. osd_len : r[i].type = osd[i].type
    <3>1. \A i \in 1 .. osd_len : i \in 1 .. MaxItems
      BY ItemFacts
    <3> QED
      BY <2>3, <3>1 DEF Shape
  <2> DEFINE v == x.kept.val
  <2>5. v \in [1 .. osd_len -> Nat]
    BY <1>1, KeptUpdates
  <2>6. \A i \in 1 .. osd_len : v[i] = IF r[i].type = "S" THEN r[i].val ELSE 0
    BY <2>2, <2>3, <2>4
  <2> HIDE DEF v
  <2>7. v = Options(r)
    BY <2>5, <2>6 DEF Options
  <2> QED
    BY <1>7, <2>2, <2>7 DEF v, im
<1>13. ~y.fb
  BY <1>8
<1> QED
  BY <1>6, <1>7, <1>9, <1>10, <1>11, <1>12, <1>13 DEF Good, Sound, Browsed

-----------------------------------------------------------------------------
(* The same for the items as they are after a step.                        *)

\* Slots, pages and the file are those of the step before.
LEMMA SameShape ==
  ASSUME ItemsRight, Shape(osd'), UNCHANGED <<osd_len, cfile>>
  PROVE  /\ Slots' = Slots /\ Pages' = Pages /\ (Kgo2' <=> Kgo2) /\ osd_len' = osd_len
         /\ \A i \in 1 .. MaxItems : osd'[i].type = osd[i].type /\ SlotOf(i)' = SlotOf(i)
         /\ \A i \in 1 .. osd_len : i \in 1 .. MaxItems
<1>1. \A i \in 1 .. osd_len : i \in 1 .. MaxItems
  BY ItemFacts
<1>2. \A i \in 1 .. MaxItems : /\ osd'[i].type = osd[i].type /\ osd'[i].slot = osd[i].slot
                               /\ osd'[i].opens = osd[i].opens
  BY DEF Shape
<1>3. osd_len' = osd_len
  OBVIOUS
<1>4. Pages' = Pages
  BY <1>1, <1>2, <1>3 DEF Pages
<1>5. Slots' = Slots
  <2>1. {j \in 1 .. osd_len : IsFile(osd'[j].type)} = {j \in 1 .. osd_len : IsFile(osd[j].type)}
    BY <1>1, <1>2
  <2>2. \A i \in {j \in 1 .. osd_len : IsFile(osd[j].type)} : osd'[i].slot = osd[i].slot
    BY <1>1, <1>2
  <2> QED
    BY <1>3, <2>1, <2>2 DEF Slots
<1>6. Kgo2' <=> Kgo2
  BY DEF Kgo2
<1> QED
  BY <1>1, <1>2, <1>3, <1>4, <1>5, <1>6 DEF SlotOf

\* So what is right for the new values is right then.
LEMMA GoodThen ==
  ASSUME ItemsRight, Shape(osd'), UNCHANGED <<osd_len, cfile>>, Good(m', osd')
  PROVE  Good(m, osd)'
<1>1. /\ Slots' = Slots /\ Pages' = Pages /\ (Kgo2' <=> Kgo2) /\ osd_len' = osd_len
      /\ \A i \in 1 .. MaxItems : osd'[i].type = osd[i].type /\ SlotOf(i)' = SlotOf(i)
      /\ \A i \in 1 .. osd_len : i \in 1 .. MaxItems
  BY SameShape
<1>2. Sound(m') /\ KeptFits(m', osd') /\ Browsed(m')
  BY DEF Good
<1>3. m' \in MenuRecs /\ m'.curr \in 1 .. MaxItems
  BY <1>2, SoundFacts, MenuFields
<1>4. MenuRecs' = MenuRecs
  BY <1>1 DEF MenuRecs, Lists, Kepts
<1>5. cur_slot(m)' = cur_slot(m') /\ osd'[m'.curr].type = osd[m'.curr].type
  BY <1>1, <1>3 DEF cur_slot, SlotOf
<1>6. ListFits(m)'
  BY <1>2, <1>5 DEF Sound, ListFits
<1>7. ImagesFit(m)'
  <2>1. \A t \in Slots : Mounted(m, t)' = Mounted(m', t)
    BY <1>5, Zenon DEF Mounted
  <2> QED
    BY <1>1, <1>2, <2>1, Zenon DEF Sound, ImagesFit
<1>8. \A p : DrivesApart(p) => DrivesApart(p)'
  BY <1>1 DEF DrivesApart
<1>9. Apart(m)'
  BY <1>1, <1>2, <1>8 DEF Sound, Apart, DrivesApart
<1>10. KeptFits(m, osd)'
  BY <1>1, <1>2 DEF KeptFits, Options
<1>11. Browsed(m)'
  BY <1>2, <1>5 DEF Browsed
<1>12. (m.fb => IsFile(osd[m.curr].type))'
  BY <1>2, <1>5 DEF Sound
<1> QED
  BY <1>3, <1>4, <1>6, <1>7, <1>9, <1>10, <1>11, <1>12 DEF Good, Sound

-----------------------------------------------------------------------------
(* The steps.                                                              *)

\* What the menu is after a step.
Lands(x, o) == Good(x, o) /\ (~x.fb => Fitted(x, o))
\* That is the invariant, if the window is right too.
LEMMA InvAfter ==
  ASSUME MenuInv, Shape(osd'), \A i \in 1 .. MaxItems : i > osd_len => osd'[i] = NoItem,
         UNCHANGED <<osd_len, cfile>>, Good(m', osd'), WindowRight', m'.fb => screen' = "menu",
         screen' = "menu" /\ ~popup' /\ ~m'.fb => Fitted(m', osd')
  PROVE  MenuInv'
<1>1. ItemsRight
  BY DEF MenuInv
<1>2. ItemsRight'
  BY <1>1 DEF ItemsRight, Shape
<1>3. Good(m, osd)'
  BY <1>1, GoodThen
<1>4. Fitted(m', osd') => Fitted(m, osd)'
  BY DEF Fitted, Actives, build_vis, item_active, core_osd_shown, core_osd_enabled, core_osd_selectable
<1>5. CursorFits'
  BY <1>4 DEF CursorFits
<1> QED
  BY <1>2, <1>3, <1>5 DEF MenuInv

\* The same with the items as they were.
LEMMA InvSame ==
  ASSUME MenuInv, SameItems, Good(m', osd), WindowRight', m'.fb => screen' = "menu",
         screen' = "menu" /\ ~popup' /\ ~m'.fb => Fitted(m', osd)
  PROVE  MenuInv'
<1>1. ItemsRight /\ Shape(osd)
  BY OwnShape DEF MenuInv
<1>2. osd' = osd /\ UNCHANGED <<osd_len, cfile>>
  BY DEF SameItems, coreKept
<1>3. \A i \in 1 .. MaxItems : i > osd_len => osd[i] = NoItem
  BY <1>1 DEF ItemsRight
<1>4. Shape(osd')
  BY <1>1, <1>2
<1>5. Good(m', osd') /\ (screen' = "menu" /\ ~popup' /\ ~m'.fb => Fitted(m', osd'))
  BY <1>2
<1>6. \A i \in 1 .. MaxItems : i > osd_len => osd'[i] = NoItem
  BY <1>2, <1>3
<1> QED
  BY <1>2, <1>4, <1>5, <1>6, InvAfter

\* Nothing of the window changes.
LEMMA WindowSame ==
  ASSUME MenuInv, UNCHANGED <<screen, listed>>, UNCHANGED window
  PROVE  WindowRight'
BY DEF MenuInv, WindowRight, window

\* The parts of the invariant.
LEMMA InvParts ==
  ASSUME MenuInv
  PROVE  /\ ItemsRight /\ Shape(osd) /\ Good(m, osd) /\ Sound(m) /\ KeptFits(m, osd) /\ m \in MenuRecs
         /\ m.fb \in BOOLEAN /\ (m.fb => screen = "menu")
         /\ (screen = "menu" /\ ~popup /\ ~m.fb => Fitted(m, osd))
<1>1. ItemsRight /\ Shape(osd) /\ Good(m, osd) /\ Sound(m) /\ KeptFits(m, osd)
  BY OwnShape DEF MenuInv, Good
<1>2. m \in MenuRecs /\ m.fb \in BOOLEAN
  BY <1>1, SoundFacts, MenuFields
<1> QED
  BY <1>1, <1>2 DEF MenuInv, CursorFits

\* What a hotkey left is saved, and the menu synced.
LEMMA BeforeGood ==
  ASSUME MenuInv
  PROVE  /\ Good(before(m), osd) /\ before(m).fb = m.fb /\ before(m).curr = m.curr
         /\ (Fitted(m, osd) => Fitted(before(m), osd))
<1>1. ItemsRight /\ Shape(osd) /\ Good(m, osd) /\ Sound(m) /\ KeptFits(m, osd)
  BY InvParts
<1>2. CASE ~m.save
  <2>1. before(m) = m
    BY <1>2 DEF before
  <2> QED
    BY <1>1, <2>1
<1>3. CASE m.save
  <2> DEFINE y == app_core_save(m, osd)
  <2>1. before(m) = y
    BY <1>3 DEF before
  <2>2. /\ Sound(y) /\ KeptFits(y, osd) /\ y.fb = m.fb /\ y.curr = m.curr
        /\ (Browsed(m) => Browsed(y)) /\ (Fitted(m, osd) => Fitted(y, osd))
    BY <1>1, SaveKeeps
  <2> HIDE DEF y
  <2> QED
    BY <1>1, <2>1, <2>2 DEF Good
<1> QED
  BY <1>2, <1>3

\* menu_sync() of a menu that is right.
LEMMA SyncGood ==
  ASSUME ItemsRight, NEW o, Shape(o), NEW x, Good(x, o), ~x.fb
  PROVE  Good(menu_sync(x, o), o) /\ ~menu_sync(x, o).fb /\ Fitted(menu_sync(x, o), o)
<1>1. Sound(x) /\ KeptFits(x, o) /\ x \in MenuRecs
  BY SoundFacts DEF Good
<1>2. Moved(x, menu_sync(x, o)) /\ Fitted(menu_sync(x, o), o)
  BY <1>1, SyncMoves
<1> QED
  BY <1>1, <1>2, MovesKeep

\* app_core_overlay() of one.
LEMMA OverlayGood ==
  ASSUME ItemsRight, NEW o, Shape(o), NEW x, Good(x, o), ~x.fb
  PROVE  /\ Good(app_core_overlay(x, o), o) /\ ~app_core_overlay(x, o).fb
         /\ Fitted(app_core_overlay(x, o), o)
<1>1. Sound(x) /\ KeptFits(x, o) /\ x \in MenuRecs
  BY SoundFacts DEF Good
<1>2. Moved(x, app_core_overlay(x, o)) /\ Fitted(app_core_overlay(x, o), o)
  BY <1>1, OverlayMoves
<1> QED
  BY <1>1, <1>2, MovesKeep

\* What a key in the menu starts from.
LEMMA SyncedGood ==
  ASSUME MenuInv, ~m.fb
  PROVE  /\ Good(synced, osd) /\ ~synced.fb /\ Fitted(synced, osd) /\ Sound(synced) /\ KeptFits(synced, osd)
         /\ synced \in MenuRecs /\ synced.curr \in 1 .. MaxItems /\ ItemsRight /\ Shape(osd)
<1>1. ItemsRight /\ Shape(osd)
  BY InvParts
<1>2. Good(before(m), osd) /\ ~before(m).fb
  BY BeforeGood
<1>3. Good(synced, osd) /\ ~synced.fb /\ Fitted(synced, osd)
  BY <1>1, <1>2, SyncGood DEF synced
<1>4. Sound(synced) /\ KeptFits(synced, osd)
  BY <1>3 DEF Good
<1> HIDE DEF synced
<1>5. synced \in MenuRecs /\ synced.curr \in 1 .. MaxItems
  BY <1>4, SoundFacts, MenuFields
<1> QED
  BY <1>1, <1>3, <1>4, <1>5

\* A step in the menu that draws it.
LEMMA DrawnStep ==
  ASSUME MenuInv, is_osd, screen = "menu", NEW x, Sound(x), KeptFits(x, osd), m' = drawn(x, osd),
         SameItems, UNCHANGED <<screen, listed, window>>
  PROVE  MenuInv'
<1>1. ItemsRight /\ Shape(osd)
  BY InvParts
<1>2. Good(m', osd) /\ (~m'.fb => Fitted(m', osd))
  <2> DEFINE y == drawn(x, osd)
  <2>1. Good(y, osd) /\ (y.fb <=> x.fb) /\ (~x.fb => Fitted(y, osd))
    BY <1>1, DrawnGood
  <2> HIDE DEF y
  <2>2. m' = y
    BY DEF y
  <2> QED
    BY <2>1, <2>2, Zenon
<1>3. WindowRight' /\ screen' = screen
  BY WindowSame
<1> QED
  BY <1>2, <1>3, InvSame

\* Up and down.
LEMMA MoveStep == ASSUME MenuInv, MoveCursor PROVE MenuInv'
<1>1. is_osd /\ screen = "menu" /\ ~m.fb
  BY DEF MoveCursor, InMenu
<1>2. PICK d \in {-1, 1} : m' = drawn(step(synced, osd, d), osd)
  BY DEF MoveCursor
<1>3. SameItems /\ UNCHANGED <<screen, listed, window>>
  BY DEF MoveCursor
<1> DEFINE s0 == synced
           x == step(s0, osd, d)
<1>4. Sound(s0) /\ KeptFits(s0, osd) /\ ~s0.fb /\ s0 \in MenuRecs /\ ItemsRight
  BY <1>1, SyncedGood
<1> HIDE DEF s0
<1>5. Moved(s0, x)
  BY <1>4, StepMoves
<1>6. m' = drawn(x, osd)
  BY <1>2 DEF s0
<1> HIDE DEF x
<1>7. Good(x, osd)
  BY <1>4, <1>5, MovesKeep
<1>8. Sound(x) /\ KeptFits(x, osd)
  BY <1>7 DEF Good
<1> QED
  BY <1>1, <1>3, <1>6, <1>8, DrawnStep

\* A page or the file browser.
LEMMA OpenStep == ASSUME MenuInv, OpenItem PROVE MenuInv'
<1>1. is_osd /\ screen = "menu" /\ ~m.fb
  BY DEF OpenItem, InMenu
<1>2. SameItems /\ UNCHANGED <<screen, listed, window>>
  BY DEF OpenItem
<1> DEFINE x == synced
<1>3. \/ osd[x.curr].type = "M" /\ m' = drawn(menu_open_page(x, osd, osd[x.curr].opens), osd)
      \/ IsFile(osd[x.curr].type) /\ m' = drawn(filebrowser_open(x), osd)
  BY DEF OpenItem
<1>4. /\ Sound(x) /\ KeptFits(x, osd) /\ ~x.fb /\ x \in MenuRecs /\ ItemsRight /\ Shape(osd)
      /\ x.curr \in 1 .. MaxItems
  BY <1>1, SyncedGood
<1> HIDE DEF x
<1>5. CASE osd[x.curr].type = "M" /\ m' = drawn(menu_open_page(x, osd, osd[x.curr].opens), osd)
  <2> DEFINE p == osd[x.curr].opens
             y == menu_open_page(x, osd, p)
  <2>1. p \in Pages
    <3>1. x.curr <= osd_len
      <4>1. x.curr > osd_len => osd[x.curr].type = "H"
        BY <1>4 DEF ItemsRight, NoItem
      <4> QED
        BY <1>4, <1>5, <4>1, ItemFacts
    <3>2. x.curr \in 1 .. osd_len
      BY <1>4, <3>1, ItemFacts
    <3> QED
      BY <1>4, <3>2, ItemFacts
  <2>2. m' = drawn(y, osd)
    BY <1>5
  <2> HIDE DEF p
  <2>3. Moved(x, y)
    BY <1>4, <2>1, OpenMoves
  <2> HIDE DEF y
  <2>4. Good(y, osd)
    BY <1>4, <2>3, MovesKeep
  <2>5. Sound(y) /\ KeptFits(y, osd)
    BY <2>4 DEF Good
  <2> QED
    BY <1>1, <1>2, <2>2, <2>5, DrawnStep
<1>6. CASE IsFile(osd[x.curr].type) /\ m' = drawn(filebrowser_open(x), osd)
  <2> DEFINE y == filebrowser_open(x)
  <2>1. Sound(y) /\ KeptFits(y, osd) /\ m' = drawn(y, osd)
    BY <1>4, <1>6, OpenKeeps
  <2> HIDE DEF y
  <2> QED
    BY <1>1, <1>2, <2>1, DrawnStep
<1> QED
  BY <1>3, <1>5, <1>6

\* An image out of its drive.
LEMMA EjectStep == ASSUME MenuInv, Eject PROVE MenuInv'
<1>1. is_osd /\ screen = "menu" /\ ~m.fb
  BY DEF Eject, InMenu
<1>2. SameItems /\ UNCHANGED <<screen, listed, window>>
  BY DEF Eject
<1> DEFINE x == synced
<1>3. osd[x.curr].type = "F" /\ m' = drawn(app_core_eject(x, x.curr), osd)
  BY DEF Eject
<1>4. Sound(x) /\ KeptFits(x, osd) /\ ~x.fb /\ ItemsRight
  BY <1>1, SyncedGood
<1> HIDE DEF x
<1> DEFINE y == app_core_eject(x, x.curr)
<1>5. Sound(y) /\ KeptFits(y, osd) /\ m' = drawn(y, osd)
  BY <1>3, <1>4, EjectsKeep
<1> HIDE DEF y
<1> QED
  BY <1>1, <1>2, <1>5, DrawnStep

\* core_osd_change(): the items keep all but a value.
LEMMA ChangeShape ==
  ASSUME ItemsRight, NEW i \in 1 .. MaxItems, NEW d \in {-1, 1}, core_osd_change(i, d)
  PROVE  /\ Shape(osd') /\ \A j \in 1 .. MaxItems : j > osd_len => osd'[j] = NoItem
         /\ UNCHANGED <<osd_len, cfile>>
         /\ (osd[i].type # "S" => Options(osd') = Options(osd))
<1>1. osd \in [1 .. MaxItems -> Items] /\ \A j \in 1 .. MaxItems : j > osd_len => osd[j] = NoItem
  BY DEF ItemsRight
<1> DEFINE q == osd[i]
           v == turned(q, d)
           r == [q EXCEPT !.val = v]
<1>2. osd' = [osd EXCEPT ![i] = r] /\ i <= osd_len
  BY <1>1 DEF core_osd_change
<1>3. q \in Items /\ q.opts \in Seq(Nat) /\ q.val \in Nat /\ q.opts # <<>>
  BY <1>1 DEF Items, core_osd_change
<1>4. v \in Nat
  <2>1. Len(q.opts) \in Nat /\ Len(q.opts) # 0
    BY <1>3
  <2> HIDE DEF q
  <2> QED
    BY <1>3, <2>1 DEF turned
<1>5. /\ r \in Items /\ r.type = q.type /\ r.page = q.page /\ r.slot = q.slot
      /\ r.opens = q.opens /\ r.opts = q.opts
  <2> HIDE DEF q, v
  <2> QED
    BY <1>3, <1>4 DEF Items
<1> HIDE DEF r
<1>6. osd'[i] = r /\ \A j \in 1 .. MaxItems : j # i => osd'[j] = osd[j]
  BY <1>1, <1>2
<1>7. osd' \in [1 .. MaxItems -> Items]
  BY <1>1, <1>2, <1>5
<1>8. ASSUME NEW j \in 1 .. MaxItems
      PROVE  /\ osd'[j].type = osd[j].type /\ osd'[j].page = osd[j].page /\ osd'[j].slot = osd[j].slot
             /\ osd'[j].opens = osd[j].opens /\ osd'[j].opts = osd[j].opts
  <2>1. CASE j = i
    BY <1>5, <1>6, <2>1
  <2>2. CASE j # i
    BY <1>6, <2>2
  <2> QED
    BY <2>1, <2>2
<1>9. Shape(osd')
  BY <1>7, <1>8 DEF Shape
<1>10. \A j \in 1 .. MaxItems : j > osd_len => osd'[j] = NoItem
  <2>1. SUFFICES ASSUME NEW j \in 1 .. MaxItems, j > osd_len PROVE osd'[j] = NoItem
    OBVIOUS
  <2>2. j # i
    BY <1>2, <2>1, ItemFacts
  <2> QED
    BY <1>1, <1>6, <2>1, <2>2
<1>11. UNCHANGED <<osd_len, cfile>>
  BY DEF core_osd_change
<1>12. osd[i].type # "S" => Options(osd') = Options(osd)
  <2>1. SUFFICES ASSUME osd[i].type # "S" PROVE Options(osd') = Options(osd)
    OBVIOUS
  <2>2. \A j \in 1 .. osd_len : j \in 1 .. MaxItems
    BY ItemFacts
  <2>3. \A j \in 1 .. osd_len : (IF osd'[j].type = "S" THEN osd'[j].val ELSE 0)
                                = (IF osd[j].type = "S" THEN osd[j].val ELSE 0)
    <3>1. SUFFICES ASSUME NEW j \in 1 .. osd_len
                   PROVE  (IF osd'[j].type = "S" THEN osd'[j].val ELSE 0)
                          = (IF osd[j].type = "S" THEN osd[j].val ELSE 0)
      OBVIOUS
    <3>2. j \in 1 .. MaxItems
      BY <2>2
    <3>3. CASE j = i
      BY <1>8, <2>1, <3>2, <3>3
    <3>4. CASE j # i
      BY <1>6, <3>2, <3>4
    <3> QED
      BY <3>3, <3>4
  <2> QED
    BY <2>3 DEF Options
<1> QED
  BY <1>9, <1>10, <1>11, <1>12

\* Left, right and enter on an option.
LEMMA ChangeStep == ASSUME MenuInv, ChangeOption PROVE MenuInv'
<1>1. is_osd /\ screen = "menu" /\ ~m.fb
  BY DEF ChangeOption, InMenu
<1>2. UNCHANGED <<screen, listed, window>>
  BY DEF ChangeOption
<1> DEFINE x == synced
           b == osd[x.curr].type = "S"
           y == [x EXCEPT !.save = @ \/ b]
<1>3. PICK d \in {-1, 1} : core_osd_change(x.curr, d)
  BY DEF ChangeOption
<1>4. m' = drawn(y, osd')
  BY DEF ChangeOption
<1>5. /\ Good(x, osd) /\ Sound(x) /\ KeptFits(x, osd) /\ ~x.fb /\ x.curr \in 1 .. MaxItems
      /\ ItemsRight /\ Shape(osd)
  BY <1>1, SyncedGood
<1> HIDE DEF x
<1>6. /\ Shape(osd') /\ \A j \in 1 .. MaxItems : j > osd_len => osd'[j] = NoItem
      /\ UNCHANGED <<osd_len, cfile>> /\ (~b => Options(osd') = Options(osd))
  BY <1>3, <1>5, ChangeShape
<1>7. b \in BOOLEAN
  OBVIOUS
<1> HIDE DEF b
<1>8. y = [x EXCEPT !.save = @ \/ b]
  OBVIOUS
<1> HIDE DEF y
<1>9. Sound(y) /\ KeptFits(y, osd') /\ (y.fb <=> x.fb)
  <2> DEFINE o == osd
             q == osd'
  <2>1. Shape(o) /\ Shape(q) /\ (~b => Options(q) = Options(o)) /\ KeptFits(x, o)
    BY <1>5, <1>6
  <2> HIDE DEF o, q
  <2>2. Sound(y) /\ KeptFits(y, q) /\ (y.fb <=> x.fb)
    BY <1>5, <1>7, <1>8, <2>1, MarkKeeps
  <2> QED
    BY <2>2 DEF q
<1>10. Good(m', osd') /\ (~m'.fb => Fitted(m', osd')) /\ ~m'.fb
  <2> DEFINE q == osd'
             z == drawn(y, q)
  <2>1. Shape(q) /\ Sound(y) /\ KeptFits(y, q) /\ m' = z
    BY <1>4, <1>6, <1>9
  <2> HIDE DEF q
  <2>2. Good(z, q) /\ (z.fb <=> y.fb) /\ (~y.fb => Fitted(z, q))
    BY <1>5, <2>1, DrawnGood
  <2> HIDE DEF z
  <2>3. ~z.fb /\ Good(z, q) /\ Fitted(z, q)
    BY <1>5, <1>9, <2>2, Zenon
  <2> QED
    BY <2>1, <2>3, Zenon DEF q
<1>11. WindowRight' /\ screen' = screen
  BY <1>2, WindowSame
<1> QED
  BY <1>6, <1>10, <1>11, InvAfter

\* A step of the screen that leaves the browser closed.
LEMMA ClosedStep ==
  ASSUME MenuInv, SameItems, Good(m', osd), ~m'.fb, screen' = "menu" /\ ~popup' => Fitted(m', osd), WindowRight'
  PROVE  MenuInv'
BY InvSame

\* Setup and About, and back.
LEMMA OtherStep == ASSUME MenuInv, OtherScreen PROVE MenuInv'
<1>1. SameItems /\ listed' = listed /\ UNCHANGED window
  BY DEF OtherScreen
<1>2. ItemsRight /\ Shape(osd)
  BY InvParts
<1>3. CASE InMenu /\ screen' = "other" /\ m' = app_core_save(synced, osd)
  <2> DEFINE x == synced
             y == app_core_save(x, osd)
  <2>1. Sound(x) /\ KeptFits(x, osd) /\ ~x.fb
    BY <1>3, SyncedGood DEF InMenu
  <2>2. m' = y
    BY <1>3
  <2> HIDE DEF x
  <2>3. Sound(y) /\ KeptFits(y, osd) /\ y.fb = x.fb
    BY <1>2, <2>1, SaveKeeps
  <2> HIDE DEF y
  <2>4. Good(m', osd) /\ ~m'.fb
    BY <2>1, <2>2, <2>3 DEF Good, Browsed
  <2>5. WindowRight'
    BY <1>1, <1>3 DEF MenuInv, WindowRight, window, InMenu
  <2>6. screen' # "menu"
    BY <1>3
  <2> QED
    BY <1>1, <2>4, <2>5, <2>6, ClosedStep
<1>4. CASE is_osd /\ screen = "other" /\ screen' = "menu" /\ m' = app_core_overlay(before(m), osd)
  <2> DEFINE x == before(m)
             y == app_core_overlay(x, osd)
  <2>1. ~m.fb
    BY <1>4, InvParts
  <2>2. Good(x, osd) /\ ~x.fb
    BY <2>1, BeforeGood
  <2>3. m' = y
    BY <1>4
  <2> HIDE DEF x
  <2>4. Good(y, osd) /\ ~y.fb /\ Fitted(y, osd)
    BY <1>2, <2>2, OverlayGood
  <2> HIDE DEF y
  <2>5. WindowRight'
    BY <1>1, <1>4 DEF MenuInv, WindowRight, window
  <2> QED
    BY <1>1, <2>3, <2>4, <2>5, ClosedStep
<1> QED
  BY <1>3, <1>4 DEF OtherScreen

\* Tab or O in the loader's files.
LEMMA FilesStep == ASSUME MenuInv, FilesToMenu PROVE MenuInv'
<1>1. SameItems /\ UNCHANGED window /\ is_osd /\ screen = "loader" /\ screen' = "menu" /\ listed' = FALSE
  BY DEF FilesToMenu
<1>2. ItemsRight /\ Shape(osd) /\ ~m.fb
  BY <1>1, InvParts
<1> DEFINE x == before(m)
           y == app_core_overlay(x, osd)
<1>3. Good(x, osd) /\ ~x.fb
  BY <1>2, BeforeGood
<1>4. m' = y
  BY DEF FilesToMenu
<1> HIDE DEF x
<1>5. Good(y, osd) /\ ~y.fb /\ Fitted(y, osd)
  BY <1>2, <1>3, OverlayGood
<1> HIDE DEF y
<1>6. WindowRight'
  BY <1>1 DEF MenuInv, WindowRight, window
<1> QED
  BY <1>1, <1>4, <1>5, <1>6, ClosedStep

\* Enter in the list.
LEMMA EnterStep == ASSUME MenuInv, filebrowser_enter PROVE MenuInv'
<1>1. is_osd /\ screen = "menu" /\ m.fb
  BY DEF filebrowser_enter
<1>2. SameItems /\ UNCHANGED <<screen, listed, window>>
  BY DEF filebrowser_enter
<1> DEFINE x == before(m)
<1>3. \/ x.list.eject /\ m' = drawn(Done(app_core_eject(x, x.curr)), osd)
      \/ \E d \in PhysDrives :
           osd[x.curr].type = "F" /\ m' = drawn(Done(app_core_select_phys(x, x.curr, d)), osd)
      \/ m' = in_dir(x, "/")
      \/ m' = in_dir(x, "a")
      \/ m' = drawn(Image(x), osd)
  BY DEF filebrowser_enter
<1>4. Good(x, osd) /\ x.fb
  BY <1>1, BeforeGood
<1> HIDE DEF x
<1>5. ItemsRight /\ Shape(osd) /\ Sound(x) /\ KeptFits(x, osd) /\ IsFile(osd[x.curr].type)
  BY <1>4, InvParts, SoundFacts DEF Good
<1>6. ASSUME NEW d \in Dirs, m' = in_dir(x, d)
      PROVE  MenuInv'
  <2> DEFINE y == in_dir(x, d)
  <2>1. Good(y, osd) /\ y.fb
    BY <1>4, <1>5, InDirKeeps
  <2>2. m' = y
    BY <1>6
  <2> HIDE DEF y
  <2>3. WindowRight' /\ screen' = screen
    BY <1>2, WindowSame
  <2> QED
    BY <1>1, <1>2, <2>1, <2>2, <2>3, InvSame
<1>7. ASSUME NEW y, m' = drawn(y, osd), Sound(y), KeptFits(y, osd)
      PROVE  MenuInv'
  BY <1>1, <1>2, <1>7, DrawnStep
<1>8. CASE x.list.eject /\ m' = drawn(Done(app_core_eject(x, x.curr)), osd)
  <2> DEFINE ss == {SlotOf(x.curr)}
             y == Done(app_core_eject(x, x.curr))
  <2>1. CASE osd[x.curr].type = "F"
    <3>1. y = Done(ejected(x, ss))
      BY <2>1 DEF app_core_eject
    <3>2. cur_slot(x) \in ss
      BY DEF cur_slot
    <3> HIDE DEF ss
    <3>3. Sound(Done(ejected(x, ss))) /\ KeptFits(Done(ejected(x, ss)), osd)
      BY <1>5, <3>2, EjectKeeps
    <3> HIDE DEF y
    <3>4. Sound(y) /\ KeptFits(y, osd)
      BY <3>1, <3>3
    <3>5. m' = drawn(y, osd)
      BY <1>8 DEF y
    <3> QED
      BY <1>7, <3>4, <3>5
  <2>2. CASE osd[x.curr].type # "F"
    <3>1. y = Done(x)
      BY <2>2 DEF app_core_eject
    <3>2. Sound(Done(x)) /\ KeptFits(Done(x), osd)
      BY <1>4, <1>5, <1>8, <2>2, DoneKeeps
    <3> HIDE DEF y
    <3>3. Sound(y) /\ KeptFits(y, osd)
      BY <3>1, <3>2
    <3>4. m' = drawn(y, osd)
      BY <1>8 DEF y
    <3> QED
      BY <1>7, <3>3, <3>4
  <2> QED
    BY <2>1, <2>2
<1>9. ASSUME NEW d \in PhysDrives, osd[x.curr].type = "F",
             m' = drawn(Done(app_core_select_phys(x, x.curr, d)), osd)
      PROVE  MenuInv'
  <2> DEFINE y == Done(app_core_select_phys(x, x.curr, d))
  <2>1. Sound(y) /\ KeptFits(y, osd)
    BY <1>5, <1>9, SelectKeeps
  <2>2. m' = drawn(y, osd)
    BY <1>9
  <2> HIDE DEF y
  <2> QED
    BY <1>7, <2>1, <2>2
<1>10. CASE m' = drawn(Image(x), osd)
  <2> DEFINE y == Image(x)
  <2>1. Sound(y) /\ KeptFits(y, osd)
    BY <1>5, ImageKeeps
  <2>2. m' = drawn(y, osd)
    BY <1>10
  <2> HIDE DEF y
  <2> QED
    BY <1>7, <2>1, <2>2
<1>11. "/" \in Dirs /\ "a" \in Dirs
  BY DEF Dirs
<1> QED
  BY <1>3, <1>6, <1>8, <1>9, <1>10, <1>11

\* Backspace in the list.
LEMMA ParentStep == ASSUME MenuInv, ParentDir PROVE MenuInv'
<1>1. is_osd /\ screen = "menu" /\ m.fb
  BY DEF ParentDir
<1>2. SameItems /\ UNCHANGED <<screen, listed, window>>
  BY DEF ParentDir
<1> DEFINE x == before(m)
           d == "/"
           y == in_dir(x, d)
<1>3. m' = y
  BY DEF ParentDir
<1>4. Good(x, osd) /\ x.fb /\ d \in Dirs /\ ItemsRight
  BY <1>1, BeforeGood, InvParts DEF Dirs
<1> HIDE DEF x, d
<1>5. Good(y, osd) /\ y.fb
  BY <1>4, InDirKeeps
<1> HIDE DEF y
<1>6. WindowRight' /\ screen' = screen
  BY <1>2, WindowSame
<1> QED
  BY <1>1, <1>2, <1>3, <1>5, <1>6, InvSame

\* The keys of the screen that leave it: the browser is closed, the menu is drawn or
\* left for the loader's files.
Left(scr, lst) ==
  /\ Good(m', osd) /\ ~m'.fb /\ (scr = "menu" => Fitted(m', osd))
  /\ lst \in BOOLEAN /\ (lst => scr = "loader") /\ scr \in {"menu", "loader", "other"}
\* An Esc leaves the file browser, a page, or the menu for the files.
LEMMA EscLeaves ==
  ASSUME MenuInv, Coincidences = {}, NEW x, Good(x, osd), x.fb <=> m.fb, NEW fresh, EscPressed(x, fresh)
  PROVE  Left(screen', listed')
<1>1. ItemsRight /\ Shape(osd) /\ Sound(x) /\ KeptFits(x, osd)
  BY InvParts DEF Good
<1>2. listed \in BOOLEAN /\ (listed => screen = "loader")
  BY DEF MenuInv, WindowRight
<1>3. ASSUME NEW y, Sound(y), KeptFits(y, osd), ~y.fb, m' = drawn(y, osd), screen = "menu",
             UNCHANGED <<screen, listed>>
      PROVE  Left(screen', listed')
  <2> DEFINE z == drawn(y, osd)
  <2>1. Good(z, osd) /\ (z.fb <=> y.fb) /\ (~y.fb => Fitted(z, osd))
    BY <1>1, <1>3, DrawnGood
  <2> HIDE DEF z
  <2>2. Good(m', osd) /\ ~m'.fb /\ Fitted(m', osd)
    BY <1>3, <2>1, Zenon DEF z
  <2>3. listed' = listed /\ screen' = "menu" /\ ~listed
    BY <1>2, <1>3
  <2> QED
    BY <1>2, <2>2, <2>3 DEF Left
<1>4. CASE screen = "menu" /\ x.fb /\ m' = drawn(filebrowser_esc(x), osd) /\ UNCHANGED <<screen, listed>>
  <2> DEFINE y == filebrowser_esc(x)
  <2>1. Sound(y) /\ KeptFits(y, osd) /\ ~y.fb
    BY <1>1, <1>4, EscKeeps
  <2>2. m' = drawn(y, osd)
    BY <1>4
  <2> HIDE DEF y
  <2> QED
    BY <1>3, <1>4, <2>1, <2>2
<1>5. CASE screen = "menu" /\ ~x.fb /\ EscMenu(menu_sync(x, osd), fresh)
  <2> DEFINE z == menu_sync(x, osd)
  <2>1. Good(z, osd) /\ ~z.fb /\ Fitted(z, osd) /\ EscMenu(z, fresh)
    BY <1>1, <1>5, SyncGood
  <2> HIDE DEF z
  <2>2. Sound(z) /\ KeptFits(z, osd) /\ z \in MenuRecs
    BY <2>1, SoundFacts DEF Good
  <2>3. CASE z.page # 0
    <3> DEFINE y == menu_back(z, osd)
    <3>1. m' = drawn(y, osd) /\ UNCHANGED <<screen, listed>>
      BY <2>1, <2>3 DEF EscMenu
    <3>2. Moved(z, y)
      BY <1>1, <2>2, BackMoves
    <3> HIDE DEF y
    <3>3. Good(y, osd) /\ ~y.fb
      BY <2>1, <2>2, <3>2, MovesKeep
    <3>4. Sound(y) /\ KeptFits(y, osd)
      BY <3>3 DEF Good
    <3> QED
      BY <1>3, <1>5, <3>1, <3>3, <3>4
  <2>4. CASE z.page = 0 /\ IsLoader
    <3>1. ListedToo(z) /\ screen' = "loader" /\ m' = loader_shown(z) /\ listed' = TRUE
      BY <2>1, <2>4 DEF EscMenu
    <3>2. listed \/ z.fbslot = -1
      BY <3>1 DEF ListedToo
    <3>3. Good(loader_shown(z), osd) /\ ~loader_shown(z).fb
      BY <1>1, <2>1, <3>2, LoaderKeeps
    <3>4. Good(m', osd) /\ ~m'.fb
      BY <3>1, <3>3
    <3> QED
      BY <3>1, <3>4 DEF Left
  <2>5. CASE z.page = 0 /\ ~IsLoader
    <3>1. m' = (IF fresh THEN z ELSE drawn(z, osd)) /\ UNCHANGED <<screen, listed>>
      BY <2>1, <2>5 DEF EscMenu
    <3>2. CASE fresh
      <4>1. m' = z /\ screen' = screen /\ listed' = listed
        BY <3>1, <3>2
      <4> QED
        BY <1>2, <1>5, <2>1, <4>1 DEF Left
    <3>3. CASE ~fresh
      BY <1>3, <1>5, <2>1, <2>2, <3>1, <3>3
    <3> QED
      BY <3>2, <3>3
  <2> QED
    BY <2>3, <2>4, <2>5
<1>6. CASE screen = "loader" /\ m' = x /\ UNCHANGED <<screen, listed>>
  <2>1. ~x.fb
    BY <1>6, InvParts
  <2> QED
    BY <1>2, <1>6, <2>1 DEF Left
<1> QED
  BY <1>4, <1>5, <1>6 DEF EscPressed

\* What hides the OSD.
LEMMA HideWindow ==
  ASSUME MenuInv, is_osd, ui_osd_hide \/ UNCHANGED <<hiding, menu_on>>, UNCHANGED <<is_osd, popup>>,
         listed' \in BOOLEAN, listed' => screen' = "loader", screen' \in {"menu", "loader", "other"}
  PROVE  WindowRight'
<1>1. /\ {listed, is_osd, hiding, popup, menu_on} \subseteq BOOLEAN
      /\ (hiding => is_osd /\ ~menu_on) /\ (~hiding => is_osd = menu_on)
  BY DEF MenuInv, WindowRight
<1>2. CASE ui_osd_hide
  <2>1. hiding' = TRUE /\ ~menu_on' /\ menu_on' \in BOOLEAN
    BY <1>1, <1>2 DEF ui_osd_hide
  <2> QED
    BY <1>1, <2>1 DEF WindowRight
<1>3. CASE UNCHANGED <<hiding, menu_on>>
  BY <1>1, <1>3 DEF WindowRight
<1> QED
  BY <1>2, <1>3

\* Esc.
LEMMA EscStep == ASSUME MenuInv, Coincidences = {}, Esc PROVE MenuInv'
<1>1. /\ is_osd /\ SameItems /\ UNCHANGED <<is_osd, popup>>
      /\ (ui_osd_hide \/ UNCHANGED <<hiding, menu_on>>)
  BY DEF Esc
<1> DEFINE x == before(m)
           b == TRUE
<1>2. EscPressed(x, b) /\ Good(x, osd) /\ (x.fb <=> m.fb)
  BY BeforeGood DEF Esc
<1> HIDE DEF x, b
<1>3. Left(screen', listed')
  BY <1>2, EscLeaves
<1>4. /\ Good(m', osd) /\ ~m'.fb /\ (screen' = "menu" => Fitted(m', osd))
      /\ listed' \in BOOLEAN /\ (listed' => screen' = "loader") /\ screen' \in {"menu", "loader", "other"}
  BY <1>3 DEF Left
<1>5. WindowRight'
  BY <1>1, <1>4, HideWindow
<1> QED
  BY <1>1, <1>4, <1>5, ClosedStep

\* Menu+Esc and the button.
LEMMA ToggleStep ==
  ASSUME MenuInv, Coincidences = {}, NEW key \in BOOLEAN, osd_toggle(key)
  PROVE  MenuInv'
<1>1. SameItems /\ popup' = popup /\ (~key => BrowsingToo)
  BY DEF osd_toggle
<1>2. ItemsRight /\ Shape(osd) /\ Good(m, osd) /\ (m.fb => screen = "menu")
      /\ (screen = "menu" /\ ~popup /\ ~m.fb => Fitted(m, osd)) /\ m.fb \in BOOLEAN
  BY InvParts
<1>3. /\ {listed, is_osd, hiding, popup, menu_on} \subseteq BOOLEAN /\ screen \in {"menu", "loader", "other"}
      /\ (hiding => is_osd /\ ~menu_on) /\ (~hiding => is_osd = menu_on) /\ (listed => screen = "loader")
  BY DEF MenuInv, WindowRight
<1>4. ASSUME listed' \in BOOLEAN, listed' => screen' = "loader", screen' \in {"menu", "loader", "other"}
      PROVE  WindowRight'
  <2>1. CASE is_osd
    <3>1. ui_osd_hide /\ is_osd' = is_osd
      BY <2>1 DEF osd_toggle
    <3> QED
      BY <1>1, <1>4, <2>1, <3>1, HideWindow
  <2>2. CASE ~is_osd
    <3>1. is_osd' = TRUE /\ menu_on' = TRUE /\ hiding' = hiding
      BY <2>2 DEF osd_toggle
    <3> QED
      BY <1>1, <1>3, <1>4, <2>2, <3>1 DEF WindowRight
  <2> QED
    BY <2>1, <2>2
<1>5. CASE ~is_osd /\ IsLoader /\ screen = "menu"
  <2>1. ListedToo(m) /\ screen' = "loader" /\ m' = loader_shown(m) /\ listed' = TRUE
    BY <1>5 DEF osd_toggle
  <2>2. ~listed /\ m.fbslot = -1
    BY <1>3, <1>5, <2>1 DEF ListedToo
  <2>3. ~m.fb
    <3>1. SUFFICES ASSUME m.fb PROVE FALSE
      BY <1>2
    <3>2. m.fbslot = cur_slot(m) /\ Sound(m)
      BY <1>2, <3>1 DEF Good, Browsed
    <3>3. IsFile(osd[m.curr].type) /\ m.curr \in 1 .. MaxItems
      BY <3>1, <3>2, SoundFacts, MenuFields
    <3>4. cur_slot(m) \in Slots /\ -1 \notin Slots
      BY <1>2, <3>3, ItemFacts DEF cur_slot
    <3> QED
      BY <2>2, <3>2, <3>4
  <2>4. Good(loader_shown(m), osd) /\ ~loader_shown(m).fb
    BY <1>2, <2>2, <2>3, LoaderKeeps
  <2>5. Good(m', osd) /\ ~m'.fb
    BY <2>1, <2>4
  <2>6. WindowRight'
    BY <1>4, <2>1
  <2>7. screen' # "menu"
    BY <2>1
  <2> QED
    BY <1>1, <2>5, <2>6, <2>7, ClosedStep
<1>6. CASE ~(~is_osd /\ IsLoader /\ screen = "menu") /\ ~key
  <2>1. m' = m /\ screen' = screen /\ listed' = listed
    BY <1>6 DEF osd_toggle
  <2>2. ~m.fb
    BY <1>1, <1>6 DEF BrowsingToo
  <2>3. WindowRight'
    BY <1>3, <1>4, <2>1
  <2> QED
    BY <1>1, <1>2, <2>1, <2>2, <2>3, ClosedStep
<1>7. CASE ~(~is_osd /\ IsLoader /\ screen = "menu") /\ key /\ screen # "other"
  <2> DEFINE b == FALSE
  <2>1. EscPressed(m, b)
    BY <1>7 DEF osd_toggle
  <2> HIDE DEF b
  <2>2. Left(screen', listed')
    BY <1>2, <2>1, EscLeaves
  <2>3. /\ Good(m', osd) /\ ~m'.fb /\ (screen' = "menu" => Fitted(m', osd))
        /\ listed' \in BOOLEAN /\ (listed' => screen' = "loader") /\ screen' \in {"menu", "loader", "other"}
    BY <2>2 DEF Left
  <2>4. WindowRight'
    BY <1>4, <2>3
  <2> QED
    BY <1>1, <2>3, <2>4, ClosedStep
<1>8. CASE ~(~is_osd /\ IsLoader /\ screen = "menu") /\ key /\ screen = "other"
  <2>1. /\ screen' \in {"other", "menu"} /\ listed' = listed
        /\ m' = IF screen' = "menu" THEN app_core_overlay(m, osd) ELSE m
    BY <1>8 DEF osd_toggle
  <2>2. ~m.fb /\ ~listed
    BY <1>2, <1>3, <1>8
  <2>3. WindowRight'
    BY <1>3, <1>4, <2>1, <2>2
  <2>4. CASE screen' = "menu"
    <3> DEFINE y == app_core_overlay(m, osd)
    <3>1. Good(y, osd) /\ ~y.fb /\ Fitted(y, osd)
      BY <1>2, <2>2, OverlayGood
    <3>2. m' = y
      BY <2>1, <2>4
    <3> HIDE DEF y
    <3> QED
      BY <1>1, <2>3, <3>1, <3>2, ClosedStep
  <2>5. CASE screen' # "menu"
    <3>1. m' = m
      BY <2>1, <2>5
    <3> QED
      BY <1>1, <1>2, <2>2, <2>3, <2>5, <3>1, ClosedStep
  <2> QED
    BY <2>4, <2>5
<1> QED
  BY <1>5, <1>6, <1>7, <1>8

\* A hotkey of an item of the menu.
LEMMA HotkeyMoves ==
  ASSUME MenuInv, Coincidences = {}, NEW i \in Hotkeys, on_global_hotkeys(i), NEW x, x = [m EXCEPT !.curr = i]
  PROVE  /\ i \in 1 .. MaxItems /\ ~m.fb /\ Good(x, osd) /\ ~x.fb /\ Sound(x) /\ KeptFits(x, osd)
<1>1. ItemsRight /\ m \in MenuRecs /\ Sound(m) /\ KeptFits(m, osd) /\ m.fb \in BOOLEAN
  BY InvParts
<1>2. i <= osd_len /\ ~m.fb
  BY DEF on_global_hotkeys, BrowsingToo
<1>3. i \in 1 .. MaxItems
  <2>1. i \in Nat \ {0}
    BY MenuAssumption
  <2> QED
    BY <1>1, <1>2, <2>1, ItemFacts
<1>4. x = CursorAt(m, i, m.page) /\ m.page \in Nat
  BY <1>1 DEF CursorAt, MenuRecs
<1>5. Moved(m, x)
  BY <1>1, <1>3, <1>4, CursorMoves
<1>6. Good(x, osd) /\ ~x.fb
  BY <1>1, <1>2, <1>5, MovesKeep
<1> QED
  BY <1>2, <1>3, <1>6 DEF Good

\* A switch's.
LEMMA SwitchKey ==
  ASSUME MenuInv, Coincidences = {}, NEW i \in Hotkeys, on_global_hotkeys(i),
         core_osd_change(i, 1),
         m' = (IF is_osd /\ screen = "menu"
               THEN drawn([[m EXCEPT !.curr = i] EXCEPT !.save = @ \/ osd[i].type = "S"], osd')
               ELSE [[m EXCEPT !.curr = i] EXCEPT !.save = @ \/ osd[i].type = "S"]),
         popup' = (popup \/ ~is_osd), UNCHANGED <<screen, listed, is_osd, hiding, menu_on>>
  PROVE  MenuInv'
<1> DEFINE x == [m EXCEPT !.curr = i]
           b == osd[i].type = "S"
           y == [x EXCEPT !.save = @ \/ b]
           q == osd'
           d == 1
<1>1. i \in 1 .. MaxItems /\ ~m.fb /\ Good(x, osd) /\ ~x.fb /\ Sound(x) /\ KeptFits(x, osd)
  BY HotkeyMoves
<1>2. ItemsRight /\ Shape(osd)
  BY InvParts
<1>3. /\ Shape(q) /\ \A j \in 1 .. MaxItems : j > osd_len => q[j] = NoItem
      /\ UNCHANGED <<osd_len, cfile>> /\ (~b => Options(q) = Options(osd))
  <2>1. d \in {-1, 1} /\ core_osd_change(i, d)
    OBVIOUS
  <2> HIDE DEF d
  <2> QED
    BY <1>1, <1>2, <2>1, ChangeShape
<1>4. m' = IF is_osd /\ screen = "menu" THEN drawn(y, q) ELSE y
  OBVIOUS
<1>5. b \in BOOLEAN /\ y = [x EXCEPT !.save = @ \/ b]
  OBVIOUS
<1> HIDE DEF x, b, y, q
<1>6. Sound(y) /\ KeptFits(y, q) /\ (y.fb <=> x.fb)
  <2> DEFINE o == osd
  <2>1. Shape(o) /\ (~b => Options(q) = Options(o)) /\ KeptFits(x, o) /\ Sound(x)
    BY <1>1, <1>2, <1>3
  <2> HIDE DEF o
  <2> QED
    BY <1>2, <1>3, <1>5, <2>1, MarkKeeps
<1>7. WindowRight'
  BY DEF MenuInv, WindowRight
<1>8. CASE is_osd /\ screen = "menu"
  <2> DEFINE z == drawn(y, q)
  <2>1. Good(z, q) /\ (z.fb <=> y.fb) /\ (~y.fb => Fitted(z, q))
    BY <1>2, <1>3, <1>6, DrawnGood
  <2>2. m' = z
    BY <1>4, <1>8
  <2> HIDE DEF z
  <2>3. ~z.fb /\ Good(z, q) /\ Fitted(z, q)
    BY <1>1, <1>6, <2>1, Zenon
  <2>4. Good(m', osd') /\ ~m'.fb /\ Fitted(m', osd')
    BY <2>2, <2>3 DEF q
  <2> QED
    BY <1>3, <1>7, <2>4, InvAfter DEF q
<1>9. CASE ~(is_osd /\ screen = "menu")
  <2>1. m' = y
    BY <1>4, <1>9
  <2>2. ~y.fb
    BY <1>1, <1>6, Zenon
  <2>3. Good(y, q)
    BY <1>6, <2>2 DEF Good, Browsed
  <2>4. Good(m', osd') /\ ~m'.fb
    BY <2>1, <2>2, <2>3 DEF q
  <2>5. ~(screen' = "menu" /\ ~popup')
    BY <1>9 DEF MenuInv, WindowRight
  <2> QED
    BY <1>3, <1>7, <2>4, <2>5, InvAfter DEF q
<1> QED
  BY <1>8, <1>9

\* A trigger's: a pulse, and the menu drawn.
LEMMA TriggerKey ==
  ASSUME MenuInv, Coincidences = {}, ~m.fb, NEW i, core_trigger(i),
         m' = (IF is_osd /\ screen = "menu" THEN drawn(m, osd) ELSE m), UNCHANGED <<screen, listed, window>>
  PROVE  MenuInv'
<1>1. /\ ItemsRight /\ Shape(osd) /\ Good(m, osd) /\ Sound(m) /\ KeptFits(m, osd)
      /\ (screen = "menu" /\ ~popup /\ ~m.fb => Fitted(m, osd))
  BY InvParts
<1>2. osd' = osd /\ UNCHANGED <<osd_len, cfile>>
  BY DEF core_trigger
<1>3. \A j \in 1 .. MaxItems : j > osd_len => osd[j] = NoItem
  BY <1>1 DEF ItemsRight
<1>4. WindowRight' /\ screen' = screen /\ popup' = popup
  BY WindowSame DEF window
<1>5. Good(m', osd) /\ ~m'.fb /\ (screen' = "menu" /\ ~popup' => Fitted(m', osd))
  <2>1. CASE is_osd /\ screen = "menu"
    <3> DEFINE z == drawn(m, osd)
    <3>1. Good(z, osd) /\ (z.fb <=> m.fb) /\ (~m.fb => Fitted(z, osd))
      BY <1>1, DrawnGood
    <3>2. m' = z
      BY <2>1
    <3> HIDE DEF z
    <3> QED
      BY <3>1, <3>2, Zenon
  <2>2. CASE ~(is_osd /\ screen = "menu")
    <3>1. m' = m
      BY <2>2
    <3> QED
      BY <1>1, <1>4, <3>1
  <2> QED
    BY <2>1, <2>2
<1>6. Shape(osd') /\ Good(m', osd') /\ (screen' = "menu" /\ ~popup' => Fitted(m', osd'))
  BY <1>1, <1>2, <1>5
<1>7. \A j \in 1 .. MaxItems : j > osd_len => osd'[j] = NoItem
  BY <1>2, <1>3
<1> QED
  BY <1>2, <1>4, <1>5, <1>6, <1>7, InvAfter

\* A file item's: the OSD comes, with the cursor on it.
LEMMA FileKey ==
  ASSUME MenuInv, Coincidences = {}, NEW x, Good(x, osd), ~x.fb, HidingToo,
         screen' = (IF screen = "loader" THEN "menu" ELSE screen),
         listed' = (listed /\ screen # "loader"),
         is_osd' = TRUE, menu_on' = TRUE, UNCHANGED <<hiding, popup>>,
         m' = (IF screen = "loader" THEN app_core_overlay(drawn(x, osd), osd)
               ELSE IF screen = "menu" THEN drawn(x, osd) ELSE x),
         SameItems
  PROVE  MenuInv'
<1>1. ItemsRight /\ Shape(osd) /\ Sound(x) /\ KeptFits(x, osd)
  BY InvParts DEF Good
<1>2. ~hiding
  BY DEF HidingToo
<1>3. WindowRight'
  BY <1>2 DEF MenuInv, WindowRight
<1> DEFINE z == drawn(x, osd)
<1>4. Good(z, osd) /\ (z.fb <=> x.fb) /\ (~x.fb => Fitted(z, osd))
  BY <1>1, DrawnGood
<1>5. m' = IF screen = "loader" THEN app_core_overlay(z, osd) ELSE IF screen = "menu" THEN z ELSE x
  OBVIOUS
<1> HIDE DEF z
<1>6. ~z.fb /\ Fitted(z, osd) /\ Good(z, osd)
  BY <1>4, Zenon
<1>7. CASE screen = "loader"
  <2> DEFINE y == app_core_overlay(z, osd)
  <2>1. Good(y, osd) /\ ~y.fb /\ Fitted(y, osd)
    BY <1>1, <1>6, OverlayGood
  <2>2. m' = y
    BY <1>5, <1>7
  <2> HIDE DEF y
  <2> QED
    BY <1>3, <2>1, <2>2, ClosedStep
<1>8. CASE screen = "menu"
  <2>1. m' = z
    BY <1>5, <1>8
  <2> QED
    BY <1>3, <1>6, <2>1, ClosedStep
<1>9. CASE screen # "loader" /\ screen # "menu"
  <2>1. m' = x /\ screen' # "menu"
    BY <1>5, <1>9
  <2> QED
    BY <1>3, <2>1, ClosedStep
<1> QED
  BY <1>7, <1>8, <1>9

\* Every hotkey.
LEMMA HotkeyStep ==
  ASSUME MenuInv, Coincidences = {}, NEW i \in Hotkeys, on_global_hotkeys(i)
  PROVE  MenuInv'
<1> DEFINE x == [m EXCEPT !.curr = i]
<1>1. ~m.fb /\ Good(x, osd) /\ ~x.fb
  BY HotkeyMoves
<1> HIDE DEF x
<1>2. CASE core_trigger(i) /\ m' = (IF is_osd /\ screen = "menu" THEN drawn(m, osd) ELSE m)
           /\ UNCHANGED <<screen, listed, window>>
  BY <1>1, <1>2, TriggerKey
<1>3. CASE /\ core_osd_change(i, 1)
           /\ m' = (IF is_osd /\ screen = "menu"
                    THEN drawn([[m EXCEPT !.curr = i] EXCEPT !.save = @ \/ osd[i].type = "S"], osd')
                    ELSE [[m EXCEPT !.curr = i] EXCEPT !.save = @ \/ osd[i].type = "S"])
           /\ popup' = (popup \/ ~is_osd) /\ UNCHANGED <<screen, listed, is_osd, hiding, menu_on>>
  BY <1>3, SwitchKey
<1>4. CASE /\ HidingToo /\ screen' = (IF screen = "loader" THEN "menu" ELSE screen)
           /\ listed' = (listed /\ screen # "loader")
           /\ is_osd' = TRUE /\ menu_on' = TRUE /\ UNCHANGED <<hiding, popup>>
           /\ m' = (IF screen = "loader" THEN app_core_overlay(drawn(x, osd), osd)
                    ELSE IF screen = "menu" THEN drawn(x, osd) ELSE x)
           /\ SameItems
  BY <1>1, <1>4, FileKey
<1> QED
  BY <1>2, <1>3, <1>4 DEF on_global_hotkeys, x

\* Any other key.
LEMMA KeyStep == ASSUME MenuInv, OtherKey PROVE MenuInv'
<1>1. m' = (IF InMenu THEN synced ELSE before(m)) /\ SameItems /\ UNCHANGED <<screen, listed, window>>
  BY DEF OtherKey
<1>2. WindowRight' /\ screen' = screen /\ popup' = popup
  BY <1>1, WindowSame DEF window
<1>3. CASE InMenu
  <2> DEFINE x == synced
  <2>1. Good(x, osd) /\ ~x.fb /\ Fitted(x, osd)
    BY <1>3, SyncedGood DEF InMenu
  <2>2. m' = x
    BY <1>1, <1>3
  <2> HIDE DEF x
  <2> QED
    BY <1>1, <1>2, <2>1, <2>2, ClosedStep
<1>4. CASE ~InMenu
  <2> DEFINE x == before(m)
  <2>1. Good(x, osd) /\ x.fb = m.fb /\ (Fitted(m, osd) => Fitted(x, osd))
    BY BeforeGood
  <2>2. m' = x
    BY <1>1, <1>4
  <2> HIDE DEF x
  <2>3. (m.fb => screen = "menu") /\ (screen = "menu" /\ ~popup /\ ~m.fb => Fitted(m, osd))
    BY InvParts
  <2>4. (m'.fb => screen' = "menu") /\ (screen' = "menu" /\ ~popup' /\ ~m'.fb => Fitted(m', osd))
    BY <1>2, <2>1, <2>2, <2>3
  <2>5. Good(m', osd)
    BY <2>1, <2>2
  <2> QED
    BY <1>1, <1>2, <2>4, <2>5, InvSame
<1> QED
  BY <1>3, <1>4

\* The timers of the OSD.
LEMMA HideStep == ASSUME MenuInv, HideEnd PROVE MenuInv'
<1>1. /\ hiding /\ hiding' = FALSE /\ is_osd' = FALSE /\ SameItems
      /\ m' = m /\ screen' = screen /\ listed' = listed /\ popup' = popup /\ menu_on' = menu_on
  BY DEF HideEnd
<1>2. WindowRight'
  BY <1>1 DEF MenuInv, WindowRight
<1>3. Good(m', osd) /\ (m'.fb => screen' = "menu") /\ (screen' = "menu" /\ ~popup' /\ ~m'.fb => Fitted(m', osd))
  BY <1>1, InvParts
<1> QED
  BY <1>1, <1>2, <1>3, InvSame

\* The popup that a hotkey showed goes.
LEMMA PopupStep == ASSUME MenuInv, Coincidences = {}, PopupEnd PROVE MenuInv'
<1>1. /\ popup' = FALSE /\ ~m.fb /\ SameItems /\ screen' = screen /\ UNCHANGED <<is_osd, hiding, menu_on>>
      /\ listed' = (listed \/ screen = "loader") /\ (screen = "loader" => ListedToo(m))
      /\ m' = IF screen = "menu" THEN app_core_overlay(m, osd)
              ELSE IF screen = "loader" THEN loader_shown(m) ELSE m
  BY DEF PopupEnd, BrowsingToo
<1>2. ItemsRight /\ Shape(osd) /\ Good(m, osd)
  BY InvParts
<1>3. WindowRight'
  BY <1>1 DEF MenuInv, WindowRight
<1>4. CASE screen = "menu"
  <2> DEFINE y == app_core_overlay(m, osd)
  <2>1. Good(y, osd) /\ ~y.fb /\ Fitted(y, osd)
    BY <1>1, <1>2, OverlayGood
  <2>2. m' = y
    BY <1>1, <1>4
  <2> HIDE DEF y
  <2> QED
    BY <1>1, <1>3, <2>1, <2>2, ClosedStep
<1>5. CASE screen = "loader"
  <2> DEFINE y == loader_shown(m)
  <2>1. listed \/ m.fbslot = -1
    BY <1>1, <1>5 DEF ListedToo
  <2>2. Good(y, osd) /\ ~y.fb
    BY <1>1, <1>2, <2>1, LoaderKeeps
  <2>3. m' = y /\ screen' # "menu"
    BY <1>1, <1>5
  <2> HIDE DEF y
  <2> QED
    BY <1>1, <1>3, <2>2, <2>3, ClosedStep
<1>6. CASE screen # "menu" /\ screen # "loader"
  <2>1. m' = m /\ screen' # "menu"
    BY <1>1, <1>6
  <2> QED
    BY <1>1, <1>2, <1>3, <2>1, ClosedStep
<1> QED
  BY <1>4, <1>5, <1>6

\* What is written to the card.
LEMMA FlushStep == ASSUME MenuInv, Coincidences = {}, core_state_flush PROVE MenuInv'
<1>1. SameItems /\ ~m.fb /\ UNCHANGED <<screen, listed, window>> /\ m' = Flushed(m, osd)
  BY DEF core_state_flush, BrowsingToo, Flushed
<1>2. ItemsRight /\ Shape(osd) /\ Sound(m) /\ (screen = "menu" /\ ~popup /\ ~m.fb => Fitted(m, osd))
  BY InvParts
<1> DEFINE y == Flushed(m, osd)
<1>3. Good(y, osd) /\ ~y.fb /\ \A z : Fitted(m, z) => Fitted(y, z)
  BY <1>1, <1>2, FlushKeeps
<1>4. m' = y
  BY <1>1
<1> HIDE DEF y
<1>5. WindowRight' /\ screen' = screen /\ popup' = popup
  BY <1>1, WindowSame DEF window
<1>6. Fitted(m, osd) => Fitted(y, osd)
  BY <1>3, Zenon
<1>7. screen' = "menu" /\ ~popup' => Fitted(m', osd)
  BY <1>1, <1>2, <1>4, <1>5, <1>6
<1> QED
  BY <1>1, <1>3, <1>4, <1>5, <1>7, ClosedStep

\* The loader's list after a reload.
LEMMA LoaderList ==
  ASSUME ItemsRight, NEW o, NEW x, Good(x, o), ~x.fb, x.fbslot = -1
  PROVE  Good([x EXCEPT !.list.of = "loader"], o) /\ ~[x EXCEPT !.list.of = "loader"].fb
<1>1. x \in MenuRecs /\ Sound(x) /\ KeptFits(x, o)
  BY SoundFacts DEF Good
<1> DEFINE l == [x.list EXCEPT !.of = "loader"]
           b == x.fb
           d == x.fbdir
           sl == x.slots
           fs == x.fbslot
           y == BrowseAt(x, b, d, sl, fs, l)
<1>2. b \in BOOLEAN /\ d \in Dirs /\ sl \in [Slots -> Slot] /\ fs \in Slots \cup {-1} /\ x.list \in Lists
  BY <1>1, MenuFields
<1>3. l \in Lists
  BY <1>2 DEF Lists
<1>4. [x EXCEPT !.list.of = "loader"] = y
  <2>1. [x EXCEPT !.list.of = "loader"] = [x EXCEPT !.list = l]
    BY <1>1 DEF MenuRecs
  <2> HIDE DEF l
  <2> QED
    BY <1>1, <2>1 DEF MenuRecs, BrowseAt
<1>10. x \in MenuRecs /\ b \in BOOLEAN /\ d \in Dirs /\ sl \in [Slots -> Slot] /\ fs \in Slots \cup {-1} /\ l \in Lists
  BY <1>1, <1>2, <1>3
<1> HIDE DEF l, b, d, sl, fs, y
<1>11. y = BrowseAt(x, b, d, sl, fs, l)
  BY DEF y
<1>5. /\ Browses(x, y) /\ y.fbdir = d /\ y.slots = sl /\ y.fbslot = fs /\ y.list = l
      /\ (y.fb <=> b) /\ cur_slot(y) = cur_slot(x)
  BY <1>10, <1>11, BrowseIs
<1>6. ~y.fb /\ y.curr = x.curr /\ y.slots = x.slots /\ y.fbdir = x.fbdir /\ y.fbslot = -1
  BY <1>5 DEF b, d, sl, fs, Browses
<1>7. SameImages(x, y)
  BY <1>6, SameSlots
<1>8. ListFits(y)
  BY <1>6 DEF ListFits
<1>9. Sound(y) /\ KeptFits(y, o)
  BY <1>1, <1>5, <1>6, <1>7, <1>8, BrowseKeeps
<1> QED
  BY <1>4, <1>6, <1>9 DEF Good, Browsed

\* The core again.
LEMMA ReloadStep == ASSUME MenuInv, Coincidences = {}, do_reload PROVE MenuInv'
<1> DEFINE x == IF Kgo2 /\ m.dirty THEN Flushed(m, osd) ELSE m
           k == x.kept
           o == Reloaded(k)
           y == Remounted(x)
<1>1. /\ ~m.fb /\ ~hiding /\ m.fbslot = -1
      /\ listed' = (screen = "loader") /\ is_osd' = IsLoader /\ menu_on' = IsLoader
      /\ UNCHANGED <<osd_len, cfile>> /\ UNCHANGED <<screen, hiding, popup>>
  BY DEF do_reload, BrowsingToo, HidingToo, coreKept
<1>2. /\ osd' = o
      /\ m' = IF screen = "menu" THEN app_core_overlay(y, o)
              ELSE IF screen = "loader" THEN [y EXCEPT !.list.of = "loader"] ELSE y
  BY DEF do_reload, Flushed, Reloaded, Remounted
<1>3. ItemsRight /\ Shape(osd) /\ Sound(m) /\ KeptFits(m, osd)
  BY InvParts
<1>4. Sound(x) /\ KeptFits(x, osd) /\ ~x.fb /\ x.fbslot = -1
  <2>1. CASE Kgo2 /\ m.dirty
    <3>1. x = Flushed(m, osd)
      BY <2>1
    <3> HIDE DEF x
    <3>2. Good(x, osd) /\ ~x.fb /\ x.fbslot = m.fbslot
      BY <1>1, <1>3, <3>1, FlushKeeps
    <3> QED
      BY <1>1, <3>2 DEF Good
  <2>2. CASE ~(Kgo2 /\ m.dirty)
    <3>1. x = m
      BY <2>2
    <3> QED
      BY <1>1, <1>3, <3>1
  <2> QED
    BY <2>1, <2>2
<1> HIDE DEF x
<1>5. k \in Kepts
  BY <1>4, SoundFacts, MenuFields
<1>6. Shape(o) /\ \A i \in 1 .. MaxItems : i > osd_len => o[i] = NoItem
  <2> HIDE DEF k
  <2> QED
    BY <1>3, <1>5, ReloadedFacts
<1>7. Good(y, o) /\ ~y.fb /\ y.fbslot = -1
  <2>1. o = Reloaded(x.kept) /\ y = Remounted(x)
    OBVIOUS
  <2> HIDE DEF o, y
  <2> DEFINE q == osd
  <2>2. KeptFits(x, q)
    BY <1>4
  <2> HIDE DEF q
  <2> QED
    BY <1>3, <1>4, <2>1, <2>2, ReloadKeeps
<1> HIDE DEF o, y, k
<1>8. WindowRight'
  <2>1. IsLoader \in BOOLEAN
    BY <1>3, CoreFileAssumption, MenuAssumption DEF ItemsRight, IsLoader
  <2> QED
    BY <1>1, <2>1 DEF MenuInv, WindowRight
<1>9. Good(m', o) /\ ~m'.fb /\ (screen = "menu" => Fitted(m', o))
  <2>1. CASE screen = "menu"
    <3> DEFINE z == app_core_overlay(y, o)
    <3>1. Good(z, o) /\ ~z.fb /\ Fitted(z, o)
      BY <1>3, <1>6, <1>7, OverlayGood
    <3>2. m' = z
      BY <1>2, <2>1
    <3> HIDE DEF z
    <3> QED
      BY <3>1, <3>2
  <2>2. CASE screen = "loader"
    <3> DEFINE z == [y EXCEPT !.list.of = "loader"]
    <3>1. m' = z /\ screen # "menu"
      BY <1>2, <2>2
    <3>2. z = [y EXCEPT !.list.of = "loader"]
      OBVIOUS
    <3> HIDE DEF z
    <3>3. Good(z, o) /\ ~z.fb
      BY <1>3, <1>7, <3>2, LoaderList
    <3> QED
      BY <3>1, <3>3
  <2>3. CASE screen # "menu" /\ screen # "loader"
    BY <1>2, <1>7, <2>3
  <2> QED
    BY <2>1, <2>2, <2>3
<1>10. Good(m', osd') /\ (screen' = "menu" => Fitted(m', osd')) /\ Shape(osd')
  BY <1>1, <1>2, <1>6, <1>9
<1>11. \A i \in 1 .. MaxItems : i > osd_len => osd'[i] = NoItem
  BY <1>2, <1>6
<1> QED
  BY <1>1, <1>8, <1>9, <1>10, <1>11, InvAfter

-----------------------------------------------------------------------------
(* What is read from a file.                                               *)

\* An item of a kgo1 file.
LEMMA Kg1Type == ASSUME NEW f \in CoreFiles, NEW i \in 1 .. Len(f.items) PROVE kg1_item(f, i) \in Items
<1> DEFINE it == f.items[i]
           n == IF IsFile(it.type) \/ it.type = "M" THEN 0 ELSE Len(Cut(it.opts, MaxOptions))
           d == IF it.type = "M" \/ (n > 0 /\ it.def >= n) THEN 0 ELSE it.def
           c == IF it.cond.item > count(f) THEN NoCond ELSE it.cond
           q == [j \in 1 .. n |-> j - 1]
<1>1. it \in FileItems
  BY CoreFileAssumption
<1>2. /\ it.type \in ItemTypes /\ it.opts \in Seq(Nat) /\ it.def \in Nat /\ it.slot \in Nat /\ it.page \in Nat
      /\ it.opens \in Nat /\ it.cond \in Conditions
  BY <1>1 DEF FileItems
<1>3. kg1_item(f, i) = [type |-> it.type, opts |-> q, val |-> d, sw |-> i - 1,
                        slot |-> it.slot, page |-> it.page, opens |-> it.opens, cond |-> c]
  BY DEF kg1_item
<1>4. n \in Nat
  BY <1>2, CutType, CoreFileAssumption
<1>5. c \in Conditions
  BY <1>2 DEF NoCond, Conditions
<1>6. d \in Nat
  BY <1>2, <1>4
<1>7. i - 1 \in Nat
  BY CoreFileAssumption
<1>8. q \in Seq(Nat)
  <2> HIDE DEF n
  <2> QED
    BY <1>4
<1> HIDE DEF it, n, d, c, q
<1> QED
  BY <1>2, <1>3, <1>5, <1>6, <1>7, <1>8 DEF Items

\* One of a kgo2 file.
LEMMA Kg2Type == ASSUME NEW f \in CoreFiles, NEW i \in 1 .. Len(f.items) PROVE kg2_item(f, i) \in Items
<1> DEFINE it == f.items[i]
           q == IF IsFile(it.type) THEN <<>> ELSE Cut(it.opts, MaxOptions)
           same == {j \in DOMAIN q : q[j] = it.def}
           d == IF it.type = "M" THEN 0 ELSE IF q = <<>> THEN it.def ELSE IF same = {} THEN 0 ELSE Max(same) - 1
           c == [it.cond EXCEPT !.value = 0]
<1>1. it \in FileItems
  BY CoreFileAssumption
<1>2. /\ it.type \in ItemTypes /\ it.opts \in Seq(Nat) /\ it.def \in Nat /\ it.sw \in Nat /\ it.slot \in Nat
      /\ it.page \in Nat /\ it.opens \in Nat /\ it.cond \in Conditions
  BY <1>1 DEF FileItems
<1>3. kg2_item(f, i) = [type |-> it.type, opts |-> q, sw |-> it.sw, slot |-> it.slot, page |-> it.page,
                        opens |-> it.opens, val |-> d, cond |-> c]
  BY DEF kg2_item
<1>4. q \in Seq(Nat)
  BY <1>2, CutType, CoreFileAssumption
<1>5. c \in Conditions
  BY <1>2 DEF Conditions
<1>6. same \subseteq 1 .. Len(q) /\ Len(q) \in Nat
  <2> HIDE DEF q
  <2> QED
    BY <1>4
<1> HIDE DEF q
<1>7. same # {} => Max(same) - 1 \in Nat
  <2>1. same \subseteq 0 .. Len(q)
    BY <1>6
  <2> HIDE DEF same
  <2>2. SUFFICES ASSUME same # {} PROVE Max(same) - 1 \in Nat
    OBVIOUS
  <2>3. Max(same) \in same
    BY <1>6, <2>1, <2>2, GreatestIn
  <2>4. Max(same) \in 1 .. Len(q)
    BY <1>6, <2>3
  <2> QED
    BY <1>6, <2>4
<1> HIDE DEF same
<1>8. d \in Nat
  BY <1>2, <1>7
<1> HIDE DEF it, c, d
<1> QED
  BY <1>2, <1>3, <1>4, <1>5, <1>8 DEF Items

\* The condition of an item, once the list is known.
LEMMA CondType ==
  ASSUME NEW f \in CoreFiles, NEW i \in 1 .. Len(f.items), NEW items, NEW n \in Nat,
         \A j \in 1 .. n : items[j].opts \in Seq(Nat)
  PROVE  kg2_cond(f, i, items, n) \in Conditions
<1> DEFINE c == f.items[i].cond
           same == {j \in DOMAIN items[c.item].opts : items[c.item].opts[j] = c.value}
<1>1. f.items[i] \in FileItems
  BY CoreFileAssumption
<1>2. c \in Conditions
  BY <1>1 DEF FileItems
<1>3. c.item \in Nat
  BY <1>2 DEF Conditions
<1>4. kg2_cond(f, i, items, n) = IF c.item = 0 \/ c.item > n THEN [c EXCEPT !.item = 0]
                                 ELSE IF same = {} THEN [c EXCEPT !.item = 0]
                                 ELSE [c EXCEPT !.value = Min(same) - 1]
  BY DEF kg2_cond
<1>5. [c EXCEPT !.item = 0] \in Conditions
  BY <1>2 DEF Conditions
<1>6. CASE c.item = 0 \/ c.item > n \/ same = {}
  <2> HIDE DEF c, same
  <2> QED
    BY <1>4, <1>5, <1>6
<1>7. CASE ~(c.item = 0 \/ c.item > n \/ same = {})
  <2>8. c.item \in 1 .. n
    <3> HIDE DEF c, same
    <3> QED
      BY <1>3, <1>7
  <2>1. items[c.item].opts \in Seq(Nat)
    <3> HIDE DEF c
    <3> QED
      BY <2>8
  <2> DEFINE q == items[c.item].opts
  <2>10. same \subseteq DOMAIN q
    OBVIOUS
  <2>11. q \in Seq(Nat)
    BY <2>1
  <2>2. same \subseteq DOMAIN q /\ DOMAIN q = 1 .. Len(q) /\ Len(q) \in Nat
    <3> HIDE DEF q
    <3>1. DOMAIN q = 1 .. Len(q) /\ Len(q) \in Nat
      BY <2>11
    <3> QED
      BY <2>10, <3>1
  <2>3. same \subseteq Nat /\ same \subseteq 1 .. Len(q)
    <3> HIDE DEF q, same
    <3> QED
      BY <2>2
  <2> HIDE DEF same
  <2>4. Min(same) \in same
    BY <1>7, <2>3, LeastIn
  <2>9. Min(same) \in 1 .. Len(q)
    BY <2>3, <2>4
  <2>5. Min(same) - 1 \in Nat
    <3> HIDE DEF q
    <3> QED
      BY <2>2, <2>9
  <2>6. [c EXCEPT !.value = Min(same) - 1] \in Conditions
    <3> DEFINE v == Min(same) - 1
    <3> HIDE DEF v, c
    <3>1. v \in Nat
      BY <2>5 DEF v
    <3>2. [c EXCEPT !.value = v] \in Conditions
      BY <1>2, <3>1 DEF Conditions
    <3> QED
      BY <3>2 DEF v
  <2> HIDE DEF c
  <2> QED
    BY <1>4, <1>7, <2>6
<1> QED
  BY <1>6, <1>7

\* The items of a file.
LEMMA ReadType == ASSUME NEW f \in CoreFiles PROVE Read(f) \in [1 .. read_len(f) -> Items]
<1> DEFINE n == read_len(f)
           p == [i \in 1 .. count(f) |-> IF f.format = "kgo1" THEN kg1_item(f, i) ELSE kg2_item(f, i)]
           e == [i \in 1 .. n |-> IF f.format = "kgo1" THEN [p[i] EXCEPT !.val = kg1_value(p[i], f.saved[i])]
                                  ELSE [p[i] EXCEPT !.cond = kg2_cond(f, i, p, n)]]
<1>1. Read(f) = e
  BY DEF Read
<1>2. count(f) \in Nat /\ n \in 0 .. count(f) /\ count(f) <= Len(f.items) /\ Len(f.items) \in Nat
  BY ReadLength, CoreFileAssumption
<1>3. \A i \in 1 .. count(f) : i \in 1 .. Len(f.items)
  <2> HIDE DEF n
  <2> QED
    BY <1>2
<1>4. \A i \in 1 .. count(f) : p[i] \in Items
  BY <1>3, Kg1Type, Kg2Type
<1>5. \A i \in 1 .. n : i \in 1 .. count(f) /\ i \in 1 .. Len(f.items)
  <2> HIDE DEF n
  <2> QED
    BY <1>2, <1>3
<1> HIDE DEF p
<1>6. ASSUME NEW i \in 1 .. n PROVE e[i] \in Items
  <2>1. p[i] \in Items /\ i \in 1 .. Len(f.items)
    BY <1>4, <1>5
  <2> DEFINE z == p[i]
  <2>2. z \in Items
    BY <2>1
  <2>3. CASE f.format = "kgo1"
    <3> DEFINE v == kg1_value(z, f.saved[i])
    <3>1. f.saved[i] \in Nat /\ z.val \in Nat
      BY <2>1, <2>2, CoreFileAssumption DEF Items
    <3>2. v \in Nat
      <4> HIDE DEF z
      <4> QED
        BY <3>1 DEF kg1_value
    <3>3. e[i] = [z EXCEPT !.val = v]
      BY <2>3
    <3> HIDE DEF v, z
    <3>4. [z EXCEPT !.val = v] \in Items
      BY <2>2, <3>2 DEF Items
    <3> QED
      BY <3>3, <3>4
  <2>4. CASE f.format # "kgo1"
    <3> DEFINE v == kg2_cond(f, i, p, n)
    <3>1. n \in Nat
      <4> HIDE DEF n
      <4> QED
        BY <1>2
    <3>2. \A j \in 1 .. n : p[j].opts \in Seq(Nat)
      BY <1>4, <1>5 DEF Items
    <3>3. v \in Conditions
      <4> HIDE DEF n
      <4> QED
        BY <2>1, <3>1, <3>2, CondType
    <3>4. e[i] = [z EXCEPT !.cond = v]
      BY <2>4
    <3> HIDE DEF v, z
    <3>5. [z EXCEPT !.cond = v] \in Items
      BY <2>2, <3>3 DEF Items
    <3> QED
      BY <3>4, <3>5
  <2> QED
    BY <2>3, <2>4
<1>7. e \in [1 .. n -> Items]
  BY <1>6
<1> QED
  BY <1>1, <1>7

\* The menu of a core that was read.
Begun(ld) ==
  [curr |-> 1, page |-> 0, pcur |-> [p \in Pages |-> 0], fb |-> FALSE, fbdir |-> "/", fbslot |-> -1,
   list |-> IF ld THEN [NoList EXCEPT !.of = "loader"] ELSE NoList, last |-> -1,
   slots |-> [s \in Slots |-> SlotAt(NoPath)], img |-> [s \in Slots |-> NoPath], save |-> FALSE, dirty |-> FALSE,
   kept |-> [val |-> Options(osd), path |-> [s \in Slots |-> NoPath]]]
\* It is right.
LEMMA BegunGood == ASSUME ItemsRight, NEW ld PROVE Good(Begun(ld), osd) /\ ~Begun(ld).fb
<1> DEFINE none == [t \in Slots |-> NoPath]
           sl == [t \in Slots |-> SlotAt(NoPath)]
           k == [val |-> Options(osd), path |-> none]
           l == IF ld THEN [NoList EXCEPT !.of = "loader"] ELSE NoList
           pc == [p \in Pages |-> 0]
           x == Begun(ld)
<1>1. NoPath \in Paths /\ SlotAt(NoPath) \in Slot /\ Path(SlotAt(NoPath)) = NoPath
      /\ (SlotAt(NoPath).on <=> SlotAt(NoPath).file # "")
  <2>1. NoPath \in Paths
    BY DEF Paths
  <2> QED
    BY <2>1, SlotAtFacts
<1>2. none \in [Slots -> Paths] /\ sl \in [Slots -> Slot]
  BY <1>1
<1>3. k \in Kepts
  <2>1. Options(osd) \in [1 .. osd_len -> Nat]
    BY OwnShape, OptionsType
  <2> HIDE DEF none
  <2> QED
    BY <1>2, <2>1 DEF Kepts
<1>4. 0 \in Slots /\ 1 \in 1 .. MaxItems /\ 0 \in 0 .. MaxItems
  BY ItemFacts, CoreFileAssumption
<1>5. l \in Lists
  BY <1>4 DEF Lists, NoList, Dirs
<1>6. pc \in [Pages -> 0 .. MaxItems]
  BY <1>4
<1>7. x = [curr |-> 1, page |-> 0, pcur |-> pc, fb |-> FALSE, fbdir |-> "/", fbslot |-> -1, list |-> l, last |-> -1,
           slots |-> sl, img |-> none, save |-> FALSE, dirty |-> FALSE, kept |-> k]
  BY DEF Begun
<1> HIDE DEF none, sl, k, l, pc, x
<1>8. x \in MenuRecs
  <2>1. "/" \in Dirs
    BY DEF Dirs
  <2> QED
    BY <1>2, <1>3, <1>4, <1>5, <1>6, <1>7, <2>1 DEF MenuRecs
<1>9. x.fbslot = -1 /\ x.slots = sl /\ x.img = none /\ x.kept = k
  BY <1>7
<1>10. ~x.fb
  BY <1>7
<1>11. ImagesFit(x)
  <2>1. SUFFICES ASSUME NEW t \in Slots PROVE x.img[t] = Path(Mounted(x, t)) /\ (x.slots[t].on <=> x.slots[t].file # "")
    BY DEF ImagesFit
  <2>2. x.img[t] = NoPath /\ x.slots[t] = SlotAt(NoPath)
    BY <1>9 DEF none, sl
  <2>3. Mounted(x, t) = x.slots[t]
    BY <1>10 DEF Mounted
  <2> QED
    BY <1>1, <2>2, <2>3
<1>12. DrivesApart(none)
  <2>1. \A t \in Slots : none[t] = NoPath
    BY DEF none
  <2> QED
    BY <2>1, NoPathLength DEF DrivesApart
<1>13. x.kept.path = none /\ x.kept.val = Options(osd)
  BY <1>9 DEF k
<1>14. Apart(x)
  BY <1>9, <1>12, <1>13 DEF Apart
<1>15. KeptFits(x, osd)
  <2>1. \A i \in 1 .. osd_len : osd[i].type # "S" => x.kept.val[i] = 0
    BY <1>13 DEF Options
  <2> QED
    BY <1>9, <1>13, <2>1 DEF KeptFits
<1>16. ListFits(x)
  BY <1>9 DEF ListFits
<1>17. Sound(x)
  BY <1>8, <1>10, <1>11, <1>14, <1>16 DEF Sound
<1>18. Good(x, osd)
  BY <1>10, <1>15, <1>17 DEF Good, Browsed
<1> QED
  BY <1>10, <1>18 DEF x

\* A core that was read.
LEMMA MenuStart == ASSUME MenuInit PROVE MenuInv
<1> PICK f \in MenuFiles :
      /\ osd = [i \in 1 .. MaxItems |-> IF i \in DOMAIN Read(f) THEN Read(f)[i] ELSE NoItem]
      /\ osd_len = Len(Read(f)) /\ cfile = f
      /\ m = IF f.loader THEN Begun(f.loader) ELSE app_core_overlay(Begun(f.loader), osd)
      /\ screen = (IF f.loader THEN "loader" ELSE "menu") /\ listed = f.loader
      /\ is_osd = f.loader /\ menu_on = f.loader
  BY DEF MenuInit, Begun, Options
<1>1. hiding = FALSE /\ popup = FALSE
  BY DEF MenuInit
<1>2. f \in CoreFiles /\ f.loader \in BOOLEAN
  BY MenuAssumption, CoreFileAssumption
<1>3. WindowRight
  BY <1>1, <1>2 DEF WindowRight
<1>4. ItemsRight
  <2> DEFINE r == Read(f)
             n == read_len(f)
  <2>1. n \in Nat /\ n <= MaxItems /\ MaxItems \in Nat
    BY <1>2, ReadLength, CoreFileAssumption
  <2>2. r \in [1 .. n -> Items]
    BY <1>2, ReadType
  <2> HIDE DEF r, n
  <2>3. Len(r) = n /\ DOMAIN r = 1 .. n
    BY <2>1, <2>2
  <2>4. osd_len = n
    BY <2>3 DEF r
  <2>5. osd = [i \in 1 .. MaxItems |-> IF i \in 1 .. n THEN r[i] ELSE NoItem]
    BY <2>3 DEF r
  <2>6. NoItem \in Items
    BY CoreFileAssumption DEF Items, NoItem, NoCond, Conditions, ItemTypes
  <2>7. osd \in [1 .. MaxItems -> Items]
    BY <2>2, <2>5, <2>6
  <2>8. \A i \in 1 .. MaxItems : i > n => osd[i] = NoItem
    BY <2>1, <2>5
  <2>9. osd_len \in 0 .. MaxItems
    BY <2>1, <2>4
  <2> QED
    BY <2>4, <2>7, <2>8, <2>9 DEF ItemsRight
<1>5. Good(Begun(f.loader), osd) /\ ~Begun(f.loader).fb
  BY <1>4, BegunGood
<1>6. Good(m, osd) /\ ~m.fb /\ (screen = "menu" => Fitted(m, osd))
  <2> DEFINE b == Begun(f.loader)
  <2>1. CASE f.loader
    BY <1>5, <2>1
  <2>2. CASE ~f.loader
    <3> DEFINE z == app_core_overlay(b, osd)
    <3>1. Good(b, osd) /\ ~b.fb
      BY <1>5
    <3> HIDE DEF b
    <3>2. Shape(osd)
      BY <1>4, OwnShape
    <3>3. Good(z, osd) /\ ~z.fb /\ Fitted(z, osd)
      BY <1>4, <3>1, <3>2, OverlayGood
    <3>4. m = z
      BY <2>2 DEF b
    <3> HIDE DEF z
    <3> QED
      BY <3>3, <3>4
  <2> QED
    BY <2>1, <2>2
<1> QED
  BY <1>3, <1>4, <1>6 DEF MenuInv, CursorFits

-----------------------------------------------------------------------------
(* What the invariant says.                                                *)

\* The menu is where the user can go on.
LEMMA InvUsable == ASSUME MenuInv PROVE MenuUsable
<1>1. ItemsRight /\ Sound(m) /\ m \in MenuRecs /\ Browsed(m)
  BY InvParts DEF MenuInv, Good
<1>2. CursorRight
  BY DEF MenuInv, CursorFits, Fitted, CursorRight
<1>3. ListIsOfSlot
  <2>1. SUFFICES ASSUME m.fb
                 PROVE  /\ IsFile(osd[m.curr].type)
                        /\ m.list.of = "slot" /\ m.list.slot = cur_slot(m) /\ m.list.dir = m.slots[cur_slot(m)].dir
                        /\ m.list.eject => m.slots[cur_slot(m)].on
    BY DEF ListIsOfSlot
  <2>2. IsFile(osd[m.curr].type) /\ m.curr \in 1 .. MaxItems
    BY <1>1, <2>1, MenuFields DEF Sound
  <2>3. cur_slot(m) \in Slots /\ -1 \notin Slots
    BY <1>1, <2>2, ItemFacts DEF cur_slot
  <2>4. m.fbslot = cur_slot(m) /\ m.fbslot # -1
    BY <1>1, <2>1, <2>3 DEF Browsed
  <2>5. /\ m.list.of = "slot" /\ m.list.slot = m.fbslot /\ m.list.dir = m.slots[m.fbslot].dir
        /\ m.list.eject => m.slots[m.fbslot].on
    BY <1>1, <2>4 DEF Sound, ListFits
  <2> QED
    BY <2>2, <2>4, <2>5
<1>4. OsdHonest
  BY DEF MenuInv, WindowRight, OsdHonest
<1> QED
  BY <1>2, <1>3, <1>4 DEF MenuUsable, MenuRight

\* The core has the images that are shown.
LEMMA InvImages == ASSUME MenuInv, Kgo2 PROVE ImagesRight
<1>1. ItemsRight /\ m \in MenuRecs /\ ImagesFit(m) /\ DrivesApart(m.img)
  BY InvParts DEF Sound, Apart
<1>2. m.slots \in [Slots -> Slot] /\ DOMAIN m.slots = Slots
  BY <1>1, MenuFields
<1>3. ~m.fb => \A s \in Slots : m.img[s] = Path(m.slots[s])
  BY <1>1 DEF ImagesFit, Mounted
<1>4. ASSUME NEW t \in Slots, m.slots[t].on, m.slots[t].file \in PhysDrives
      PROVE  m.img[t] = <<m.slots[t].file>>
  <2>1. m.slots[t] \in Slot
    BY <1>2
  <2> DEFINE z == Mounted(m, t)
  <2>2. z.file = m.slots[t].file /\ (z.on <=> m.slots[t].on)
    BY <2>1 DEF Mounted, Slot
  <2>3. m.img[t] = Path(z)
    BY <1>1 DEF ImagesFit
  <2> HIDE DEF z
  <2>4. Path(z) = <<z.file>>
    BY <1>4, <2>2 DEF Path
  <2> QED
    BY <2>2, <2>3, <2>4
<1>5. ASSUME NEW s \in Slots, NEW t \in Slots, m.slots[s].on, m.slots[s].file \in PhysDrives,
             m.slots[t].file = m.slots[s].file
      PROVE  s = t
  <2>1. m.slots[t].on /\ m.slots[t].file \in PhysDrives
    <3>1. m.slots[t].on <=> m.slots[t].file # ""
      BY <1>1 DEF ImagesFit
    <3> QED
      BY <1>5, <3>1, MenuAssumption
  <2>2. m.img[s] = <<m.slots[s].file>> /\ m.img[t] = <<m.slots[t].file>>
    BY <1>4, <1>5, <2>1
  <2>3. Len(m.img[s]) = 1 /\ m.img[t] = m.img[s]
    BY <1>5, <2>2
  <2> QED
    BY <1>1, <2>3 DEF DrivesApart
<1> QED
  BY <1>2, <1>3, <1>5 DEF ImagesRight

\* What the card has.
LEMMA InvKept == ASSUME MenuInv, Kgo2 PROVE KeptRight
<1>1. SUFFICES ASSUME ~m.fb, ~m.save, ~m.dirty PROVE m.kept = Values(m, osd)
  BY DEF KeptRight
<1>2. ItemsRight /\ Shape(osd) /\ m \in MenuRecs /\ ImagesFit(m) /\ KeptFits(m, osd)
  BY InvParts DEF Sound
<1>3. OnIsNamed(m)
  BY <1>2 DEF ImagesFit, OnIsNamed
<1> DEFINE v == Values(m, osd)
           k == m.kept
<1>4. v \in Kepts /\ v.val = Options(osd) /\ v.path = SlotPaths(m)
  BY <1>2, <1>3, ValuesFacts
<1>5. k \in Kepts /\ k.val = Options(osd) /\ k.path = m.img
  BY <1>1, <1>2, MenuFields DEF KeptFits
<1>6. m.img = SlotPaths(m)
  <2>1. m.img \in [Slots -> Paths]
    BY <1>2, MenuFields
  <2>2. \A t \in Slots : m.img[t] = Path(m.slots[t])
    BY <1>1, <1>2 DEF ImagesFit, Mounted
  <2> QED
    BY <2>1, <2>2 DEF SlotPaths
<1> HIDE DEF v, k
<1>7. v = k
  <2>1. v.val = k.val /\ v.path = k.path
    BY <1>4, <1>5, <1>6
  <2> QED
    BY <1>4, <1>5, <2>1 DEF Kepts
<1> QED
  BY <1>7 DEF v, k

-----------------------------------------------------------------------------
\* The inductive invariant of a core's menu (app_core.c with ui_osd.c's window), for
\* files of both formats.  Coincidences = {} leaves out the meetings of events that
\* the code does not handle; each of them is a finding with its counterexample.
THEOREM MenuInvariant == ASSUME Coincidences = {} PROVE MenuSpec => []MenuInv
<1>1. MenuInit => MenuInv
  BY MenuStart
<1>2. MenuInv /\ [MenuNext]_<<coreVars, menuVars>> => MenuInv'
  <2>1. SUFFICES ASSUME MenuInv, [MenuNext]_<<coreVars, menuVars>> PROVE MenuInv'
    OBVIOUS
  <2>2. CASE MoveCursor
    BY <2>1, <2>2, MoveStep
  <2>3. CASE ChangeOption
    BY <2>1, <2>3, ChangeStep
  <2>4. CASE OpenItem
    BY <2>1, <2>4, OpenStep
  <2>5. CASE Eject
    BY <2>1, <2>5, EjectStep
  <2>6. CASE OtherScreen
    BY <2>1, <2>6, OtherStep
  <2>7. CASE Esc
    BY <2>1, <2>7, EscStep
  <2>8. CASE filebrowser_enter
    BY <2>1, <2>8, EnterStep
  <2>9. CASE ParentDir
    BY <2>1, <2>9, ParentStep
  <2>10. CASE FilesToMenu
    BY <2>1, <2>10, FilesStep
  <2>11. ASSUME NEW key \in BOOLEAN, osd_toggle(key) PROVE MenuInv'
    BY <2>1, <2>11, ToggleStep
  <2>12. ASSUME NEW i \in Hotkeys, on_global_hotkeys(i) PROVE MenuInv'
    BY <2>1, <2>12, HotkeyStep
  <2>13. CASE OtherKey
    BY <2>1, <2>13, KeyStep
  <2>14. CASE HideEnd
    BY <2>1, <2>14, HideStep
  <2>15. CASE PopupEnd
    BY <2>1, <2>15, PopupStep
  <2>16. CASE core_state_flush
    BY <2>1, <2>16, FlushStep
  <2>17. CASE do_reload
    BY <2>1, <2>17, ReloadStep
  <2>18. CASE UNCHANGED <<coreVars, menuVars>>
    <3>1. UNCHANGED <<osd, osd_len, cfile>> /\ m' = m /\ UNCHANGED <<screen, popup>>
      BY <2>18 DEF coreVars, menuVars
    <3>2. SameItems /\ WindowRight'
      BY <2>1, <2>18, WindowSame DEF SameItems, coreKept, coreVars, menuVars, window
    <3> QED
      BY <2>1, <3>1, <3>2, InvParts, InvSame
  <2> QED
    BY <2>1, <2>2, <2>3, <2>4, <2>5, <2>6, <2>7, <2>8, <2>9, <2>10, <2>11, <2>12, <2>13, <2>14, <2>15,
       <2>16, <2>17, <2>18 DEF MenuNext
<1> QED
  BY <1>1, <1>2, PTL DEF MenuSpec

\* The menu of a core of either format can be used whenever it is on the screen:
\* the cursor is on an item that takes it, the file list is of its slot and dir,
\* and the keys go to the menu while the core shows it.
THEOREM MenuIsUsable == ASSUME Coincidences = {} PROVE MenuSpec => []MenuUsable
<1>1. MenuInv => MenuUsable
  BY InvUsable
<1> QED
  BY <1>1, MenuInvariant, PTL

\* And a kgo2 core has the images the menu shows, with each physical drive in one
\* slot, and the card has every value and image once nothing waits to be saved.  A
\* kgo1 core saves only the item under the cursor: there KeptRight fails, a finding.
THEOREM CoreMenuIsRight ==
  ASSUME Coincidences = {}, \A f \in MenuFiles : f.format = "kgo2"
  PROVE  MenuSpec => []CoreMenuRight
<1>1. MenuInv => CoreMenuRight
  <2>1. SUFFICES ASSUME MenuInv PROVE CoreMenuRight
    OBVIOUS
  <2>2. Kgo2
    BY <2>1, InvParts DEF ItemsRight, Kgo2
  <2> QED
    BY <2>1, <2>2, InvUsable, InvImages, InvKept DEF CoreMenuRight
<1> QED
  BY <1>1, MenuInvariant, PTL
===============================================================================
