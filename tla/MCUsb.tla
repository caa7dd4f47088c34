------------------------------- MODULE MCUsb -------------------------------
(***************************************************************************)
(* The USB pads in one run: side picks their drivers and ports, what their *)
(* reports mean, or the learning of a pad on its screens.                  *)
(***************************************************************************)
EXTENDS UsbPads, PadMaps

VARIABLE side  \* "ports", "maps" or "learn"

TwoPads == [p \in {"p", "q"} |-> IF p = "p" THEN 2 ELSE 3]

-----------------------------------------------------------------------------
(* Report descriptors: chunks of items, the bits they take in the report   *)
(* and the fields they give.                                               *)

Chunk(id, items, bits, gives) == [id |-> id, items |-> items, bits |-> bits, gives |-> gives]
It(t, v) == [tag |-> t, val |-> v, size |-> 1]
Field(id, kind, b, bits, off) == [id |-> id, kind |-> kind, btn |-> b, bits |-> bits, offset |-> off]

TwoAxes(id) ==
  Chunk(id, <<It("page", "Desktop"), It("min", 0), It("max", 255), It("bits", 8), It("count", 2),
              It("usage", "X"), It("usage", "Y"), It("input", "data")>>, 16,
        {Field(id, "X", "none", 8, 0), Field(id, "Y", "none", 8, 8)})
Padding(id) == Chunk(id, <<It("bits", 1), It("count", 3), It("input", "const")>>, 3, {})
FourButtons(id) ==
  Chunk(id, <<It("page", "Button"), It("min", 0), It("max", 1), It("bits", 1), It("count", 4),
              [tag |-> "usages", val |-> 8, size |-> 4], It("input", "data")>>, 4,
        {Field(id, "button", "Z", 1, 0), Field(id, "button", "MODE", 1, 1), Field(id, "button", "START", 1, 2)})
HatPushed(id) ==
  Chunk(id, <<It("push", 0), It("page", "Desktop"), It("max", 7), It("bits", 4), It("count", 1),
              It("usage", "Hat"), It("input", "data"), It("pop", 0)>>, 4, {Field(id, "Hat", "none", 4, 0)})
Vendor(id) ==
  Chunk(id, <<It("collection", "physical"), It("page", "Vendor"), It("bits", 8), It("count", 1),
              It("usage", "X"), It("input", "data"), It("end", 0)>>, 8, {})
TwoStarts(id) ==
  Chunk(id, <<It("page", "Desktop"), It("bits", 1), It("count", 2), It("usage", "Start"), It("input", "data")>>, 2,
        {Field(id, "button", "START", 1, 0), Field(id, "button", "START", 1, 1)})
Chunks == UNION {{TwoAxes(i), Padding(i), FourButtons(i), HatPushed(i), Vendor(i), TwoStarts(i)} : i \in {0, 1}}
Descriptors == [app : {"Gamepad", "Mouse"}, chunks : UNION {[1 .. n -> Chunks] : n \in 1 .. 3}]

\* Bytes at the borders of the nibbles, the sign and the margins.
SomeBytes == {0, 8, 15, 16, 96, 127, 128, 200, 255}
FewBytes  == {0, 8, 128, 207, 255}
LearnOne == {[rests |-> r, press |-> p] : r \in UNION {[1 .. n -> [1 .. 1 -> SomeBytes]] : n \in {1, 2}},
                                          p \in [1 .. 1 -> SomeBytes \cup {1, 7, 9, 60, 190}]}
LearnTwo == {[rests |-> r, press |-> p] : r \in UNION {[1 .. n -> [1 .. 2 -> FewBytes]] : n \in {1, 2}},
                                          p \in [1 .. 2 -> FewBytes]}
Learnings == LearnOne \cup LearnTwo

Axis(mn, mx, b) == [kind |-> "X", min |-> mn, max |-> mx, bits |-> b, id |-> 0, offset |-> 0, btn |-> "none"]
AxisReadings ==
  {[field |-> f, raw |-> v] : f \in {Axis(0, 255, 8), Axis(-127, 127, 8), Axis(-128, 127, 8), Axis(0, 254, 8)}, v \in 0 .. 255}
  \cup {[field |-> f, raw |-> v] : f \in {Axis(0, 2, 2), Axis(-1, 1, 2), Axis(0, 3, 2)}, v \in 0 .. 3}
SegaReadings ==
  {[pad |-> [type |-> t, held |-> h], six |-> s] :
     t \in {"none", "three", "six"}, h \in SUBSET {"UP", "A", "C", "Z", "MODE", "START", "LEFT"}, s \in BOOLEAN}

-----------------------------------------------------------------------------
Init ==
  /\ side \in {"ports", "maps", "learn"}
  /\ PadsInit /\ (side # "ports" => drv_card = [f \in DriverFiles |-> NoPad])
  /\ MapInit
  /\ LearnInit /\ (side # "learn" => page.kind = "text" /\ padAt[1] = "p")

Next ==
  /\ UNCHANGED side
  /\ \/ side = "ports" /\ PadsNext /\ UNCHANGED <<mapVars, learnVars>>
     \/ side = "maps" /\ Look /\ UNCHANGED <<padVars, learnVars>>
     \/ side = "learn" /\ LearnNext /\ UNCHANGED <<padVars, mapVars>>

Spec == Init /\ [][Next]_<<side, padVars, mapVars, learnVars>>
=============================================================================
