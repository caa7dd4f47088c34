---------------------------- MODULE SpiLinkProofs ----------------------------
(***************************************************************************)
(* Theorems about SpiLink, for every number of tasks, size of the queue    *)
(* and number of frames and core loads: the bus is one task's at a time    *)
(* and is given back exactly when its outermost call ends, frames are      *)
(* handled in the order the core sent them, none of an old core is handled *)
(* on the next, and the frames of one value are not torn apart.            *)
(*                                                                         *)
(* The invariant has two halves.  TodoRight is about the call stacks       *)
(* alone: which step may follow which, and at which level.  LockRight,     *)
(* GotRight and QueueRight tie them to the lock, the replies under way and *)
(* the queue.                                                              *)
(***************************************************************************)
EXTENDS SpiLink, SequenceTheorems, TLAPS

StepType == [op : Ops, level : Nat, what : {"-", "frame", "first", "second"}]

\* The level after a step: a lock goes in, an unlock comes out.
After(s) ==
  CASE s.op \in {"lock", "own"} -> s.level + 1
    [] s.op \in {"unlock", "disown", "give"} -> s.level - 1
    [] OTHER -> s.level

Plain == Ops \ {"own", "disown", "give"}

AppOnly == {"dispatch", "disable", "drain", "load", "enable"}

\* The steps of a task: only APP dispatches and loads cores.
StepOf(t) == {s \in StepType : s.op \in AppOnly => t = App}

-----------------------------------------------------------------------------
(* What is left of a call stack.                                            *)

\* The levels of neighbours fit.
Linked(s) == \A i \in 1 .. Len(s) - 1 : s[i + 1].level = After(s[i])

\* The last step leaves the outermost lock, if it is in one.
Ends(s) == s # <<>> => After(s[Len(s)]) = 0

\* What is inside the lock.
Locked(s) ==
  \A i \in 1 .. Len(s) :
    s[i].op \in {"unlock", "xfer", "publish", "disown", "give", "load"} => s[i].level >= 1

\* Only the step that is being made can be half of a lock or an unlock.
HalfFirst(s) == \A i \in 2 .. Len(s) : s[i].op \in Plain

\* A transfer is inside two locks; the inner unlock and the publication follow.
Published(s) ==
  \A i \in 1 .. Len(s) :
    s[i].op = "xfer" =>
      /\ i + 2 <= Len(s) /\ s[i].level >= 2
      /\ s[i + 1].op = "unlock" /\ s[i + 2].op = "publish"

\* A core is loaded right after the reception was shut off and drained.
Drained(s) ==
  \A i \in 1 .. Len(s) :
    /\ s[i].op = "disable" => i + 1 <= Len(s) /\ s[i + 1].op = "drain"
    /\ s[i].op = "drain" => i + 1 <= Len(s) /\ s[i + 1].op = "load"
    /\ i >= 2 /\ s[i].op = "load" => s[i - 1].op = "drain"
    /\ i >= 2 /\ s[i].op = "drain" => s[i - 1].op = "disable"

\* Between the two halves of a value the bus is never left.
Kept(s) ==
  \A i \in 1 .. Len(s) : s[i].what = "second" =>
    \A k \in 1 .. i : s[k].level = 0 => \E j \in k + 1 .. i - 1 : s[j].what = "first"

StackRight(s) ==
  /\ s \in Seq(StepType)
  /\ Linked(s) /\ Ends(s) /\ Locked(s) /\ Published(s) /\ Drained(s) /\ Kept(s)

TodoRight ==
  /\ todo \in [Task -> Seq(StepType)]
  /\ \A t \in Task : /\ StackRight(todo[t]) /\ HalfFirst(todo[t])
                     /\ todo[t] \in Seq(StepOf(t))

\* The task that is between taking and giving back the mutex.
Inside(t) ==
  /\ todo[t] # <<>>
  /\ Head(todo[t]).op \in {"own", "disown", "give"} \/ Level(t) >= 1

\* The lock as a task sees it.
TaskLock(t) ==
  /\ Inside(t) <=> mutex = t
  /\ spi_bus_owner = t <=> Inside(t) /\ Head(todo[t]).op \notin {"own", "give"}
  /\ spi_bus_owner = t => IF At(t, "disown") THEN spi_bus_depth = 0
                          ELSE spi_bus_depth = Level(t)
  /\ At(t, "own") => Level(t) = 0
  /\ At(t, "disown") \/ At(t, "give") => Level(t) = 1

LockRight ==
  /\ mutex \in Task \cup {None} /\ spi_bus_owner \in Task \cup {None}
  /\ spi_bus_depth \in Nat
  /\ \A t \in Task : TaskLock(t)

\* The reply of a transfer is there only until it is published.
Publishing(t) ==
  \/ At(t, "publish")
  \/ At(t, "unlock") /\ Level(t) >= 2 /\ Len(todo[t]) >= 2 /\ todo[t][2].op = "publish"

GotRight ==
  /\ got \in [Task -> Seq(Frame)]
  /\ \A t \in Task :
       /\ Len(got[t]) <= 1
       /\ got[t] # <<>> => Publishing(t) /\ got[t][1].id = frames /\ got[t][1].core = core

Arrived == handled \o link_rx_queue

\* The queue continues what was handled, and both are older than a reply that
\* is not published yet.
QueueRight ==
  /\ link_rx_enabled \in BOOLEAN /\ link_rx_dropped \in Nat
  /\ link_rx_queue \in Seq(Frame) /\ Len(link_rx_queue) <= QueueSize
  /\ handled \in Seq(Frame)
  /\ core \in Nat /\ frames \in 0 .. MaxFrames
  /\ InWireOrder
  /\ \A i \in 1 .. Len(Arrived) : Arrived[i].id <= frames
  /\ \A t \in Task : got[t] # <<>> => \A i \in 1 .. Len(Arrived) : Arrived[i].id < frames
  /\ \A i \in 1 .. Len(link_rx_queue) : link_rx_queue[i].core = core
  /\ At(App, "drain") => ~link_rx_enabled
  /\ At(App, "load") => ~link_rx_enabled /\ link_rx_queue = <<>>

LinkInv == TodoRight /\ LockRight /\ GotRight /\ QueueRight

-----------------------------------------------------------------------------
(* Lemmas about call stacks.                                                *)

\* A part of a call stack that goes from level a to level b.
Segment(s, a, b) ==
  /\ s \in Seq(StepType) /\ s # <<>>
  /\ s[1].level = a /\ After(s[Len(s)]) = b
  /\ s[1].op \notin {"drain", "load"}
  /\ \A i \in 1 .. Len(s) : s[i].op \in Plain
  /\ Linked(s) /\ Locked(s) /\ Published(s) /\ Drained(s)

\* Elements of a concatenation.
LEMMA JoinElements ==
  ASSUME NEW S, NEW s \in Seq(S), NEW u \in Seq(S)
  PROVE  /\ s \o u \in Seq(S)
         /\ Len(s) \in Nat /\ Len(u) \in Nat
         /\ Len(s \o u) = Len(s) + Len(u)
         /\ \A i \in 1 .. Len(s) : (s \o u)[i] = s[i]
         /\ \A i \in 1 .. Len(u) : (s \o u)[Len(s) + i] = u[i]
         /\ \A i \in Len(s) + 1 .. Len(s) + Len(u) : (s \o u)[i] = u[i - Len(s)]
<1>1. Len(s) \in Nat /\ Len(u) \in Nat
  BY LenProperties
<1> QED
  BY <1>1, ConcatProperties

\* A sequence is one over any set that its elements are in.
LEMMA InSeq ==
  ASSUME NEW S, NEW T, NEW s \in Seq(S), \A i \in 1 .. Len(s) : s[i] \in T
  PROVE  s \in Seq(T)
<1>1. Len(s) \in Nat /\ s = [i \in 1 .. Len(s) |-> s[i]]
  BY LenProperties
<1>2. [i \in 1 .. Len(s) |-> s[i]] \in Seq(T)
  BY <1>1, IsASeq
<1> QED
  BY <1>1, <1>2

\* Two parts that meet at a level make one.
LEMMA Join ==
  ASSUME NEW a \in Nat, NEW b \in Nat, NEW d \in Nat, NEW s, NEW u,
         Segment(s, a, b), Segment(u, b, d)
  PROVE  Segment(s \o u, a, d)
<1> DEFINE c == s \o u
           n == Len(s)
           m == Len(u)
<1>1. s \in Seq(StepType) /\ u \in Seq(StepType) /\ s # <<>> /\ u # <<>>
  BY DEF Segment
<1>2. /\ c \in Seq(StepType)
      /\ n \in Nat \ {0} /\ m \in Nat \ {0} /\ Len(c) = n + m
      /\ \A i \in 1 .. n : c[i] = s[i]
      /\ \A i \in 1 .. m : c[n + i] = u[i]
      /\ \A i \in n + 1 .. n + m : c[i] = u[i - n]
  BY <1>1, JoinElements, EmptySeq
<1> HIDE DEF c
<1>3. c # <<>>
  BY <1>2, EmptySeq
<1>4. c[1] = s[1] /\ c[Len(c)] = u[m]
  BY <1>2
<1>5. /\ c[1].level = a /\ After(c[Len(c)]) = d
      /\ c[1].op \notin {"drain", "load"}
  BY <1>4 DEF Segment
<1>6. \A i \in 1 .. Len(c) : c[i].op \in Plain
  <2> SUFFICES ASSUME NEW i \in 1 .. Len(c)
               PROVE  c[i].op \in Plain
    OBVIOUS
  <2>1. CASE i <= n
    BY <1>2, <2>1 DEF Segment
  <2>2. CASE i > n
    <3>1. i - n \in 1 .. m /\ c[i] = u[i - n]
      BY <1>2, <2>2
    <3> QED
      BY <3>1 DEF Segment
  <2> QED
    BY <1>2, <2>1, <2>2
<1>7. Linked(c)
  <2> SUFFICES ASSUME NEW i \in 1 .. Len(c) - 1
               PROVE  c[i + 1].level = After(c[i])
    BY DEF Linked
  <2>1. CASE i < n
    <3>1. i \in 1 .. Len(s) - 1 /\ i \in 1 .. n /\ i + 1 \in 1 .. n
      BY <1>2, <2>1
    <3>2. c[i] = s[i] /\ c[i + 1] = s[i + 1]
      BY <1>2, <3>1
    <3> QED
      BY <3>1, <3>2 DEF Segment, Linked
  <2>2. CASE i = n
    <3>1. c[i] = s[n] /\ c[i + 1] = u[1]
      BY <1>2, <2>2
    <3> QED
      BY <3>1 DEF Segment
  <2>3. CASE i > n
    <3>1. /\ i - n \in 1 .. Len(u) - 1 /\ i \in n + 1 .. n + m
          /\ i + 1 \in n + 1 .. n + m /\ (i + 1) - n = (i - n) + 1
      BY <1>2, <2>3
    <3>2. c[i] = u[i - n] /\ c[i + 1] = u[(i - n) + 1]
      BY <1>2, <3>1
    <3> QED
      BY <3>1, <3>2 DEF Segment, Linked
  <2> QED
    BY <1>2, <2>1, <2>2, <2>3
<1>8. Locked(c)
  <2> SUFFICES ASSUME NEW i \in 1 .. Len(c),
                      c[i].op \in {"unlock", "xfer", "publish", "disown", "give", "load"}
               PROVE  c[i].level >= 1
    BY DEF Locked
  <2>1. CASE i <= n
    <3>1. i \in 1 .. Len(s) /\ c[i] = s[i]
      BY <1>2, <2>1
    <3> QED
      BY <3>1 DEF Segment, Locked
  <2>2. CASE i > n
    <3>1. i - n \in 1 .. Len(u) /\ c[i] = u[i - n]
      BY <1>2, <2>2
    <3> QED
      BY <3>1 DEF Segment, Locked
  <2> QED
    BY <1>2, <2>1, <2>2
<1>9. Published(c)
  <2> SUFFICES ASSUME NEW i \in 1 .. Len(c), c[i].op = "xfer"
               PROVE  /\ i + 2 <= Len(c) /\ c[i].level >= 2
                      /\ c[i + 1].op = "unlock" /\ c[i + 2].op = "publish"
    BY DEF Published
  <2>1. CASE i <= n
    <3>1. i \in 1 .. Len(s) /\ c[i] = s[i]
      BY <1>2, <2>1
    <3>2. /\ i + 2 <= Len(s) /\ s[i].level >= 2
          /\ s[i + 1].op = "unlock" /\ s[i + 2].op = "publish"
      BY <3>1 DEF Segment, Published
    <3>3. i + 1 \in 1 .. n /\ i + 2 \in 1 .. n
      BY <1>2, <3>2
    <3>4. c[i + 1] = s[i + 1] /\ c[i + 2] = s[i + 2]
      BY <1>2, <3>3
    <3> QED
      BY <1>2, <3>1, <3>2, <3>4
  <2>2. CASE i > n
    <3>1. i - n \in 1 .. Len(u) /\ c[i] = u[i - n]
      BY <1>2, <2>2
    <3>2. /\ (i - n) + 2 <= Len(u) /\ u[i - n].level >= 2
          /\ u[(i - n) + 1].op = "unlock" /\ u[(i - n) + 2].op = "publish"
      BY <3>1 DEF Segment, Published
    <3>5. i \in Nat /\ n \in Nat /\ m \in Nat /\ i > n /\ (i - n) + 2 <= m
      BY <1>2, <2>2, <3>2
    <3>3. /\ i + 1 \in n + 1 .. n + m /\ (i + 1) - n = (i - n) + 1
          /\ i + 2 \in n + 1 .. n + m /\ (i + 2) - n = (i - n) + 2
      BY <3>5
    <3>4. c[i + 1] = u[(i - n) + 1] /\ c[i + 2] = u[(i - n) + 2]
      BY <1>2, <3>3
    <3> QED
      BY <1>2, <3>1, <3>2, <3>3, <3>4
  <2> QED
    BY <1>2, <2>1, <2>2
<1>10. Drained(c)
  <2> SUFFICES ASSUME NEW i \in 1 .. Len(c)
               PROVE  /\ c[i].op = "disable" => i + 1 <= Len(c) /\ c[i + 1].op = "drain"
                      /\ c[i].op = "drain" => i + 1 <= Len(c) /\ c[i + 1].op = "load"
                      /\ i >= 2 /\ c[i].op = "load" => c[i - 1].op = "drain"
                      /\ i >= 2 /\ c[i].op = "drain" => c[i - 1].op = "disable"
    BY DEF Drained
  <2>1. CASE i <= n
    <3>1. i \in 1 .. Len(s) /\ c[i] = s[i]
      BY <1>2, <2>1
    <3>2. i + 1 <= n => c[i + 1] = s[i + 1]
      BY <1>2
    <3>3. i >= 2 => c[i - 1] = s[i - 1]
      BY <1>2, <2>1
    <3>4. n <= Len(c)
      BY <1>2
    <3>5. /\ s[i].op = "disable" => i + 1 <= n /\ s[i + 1].op = "drain"
          /\ s[i].op = "drain" => i + 1 <= n /\ s[i + 1].op = "load"
          /\ i >= 2 /\ s[i].op = "load" => s[i - 1].op = "drain"
          /\ i >= 2 /\ s[i].op = "drain" => s[i - 1].op = "disable"
      BY <3>1 DEF Segment, Drained
    <3> QED
      BY <1>2, <3>1, <3>2, <3>3, <3>4, <3>5
  <2>2. CASE i = n + 1
    <3>1. 1 \in 1 .. Len(u) /\ c[i] = u[1]
      BY <1>2, <2>2
    <3>2. 1 + 1 <= m => c[i + 1] = u[1 + 1] /\ i + 1 <= Len(c)
      BY <1>2, <2>2
    <3> QED
      BY <1>2, <3>1, <3>2 DEF Segment, Drained
  <2>3. CASE i > n + 1
    <3>1. i - n \in 1 .. Len(u) /\ c[i] = u[i - n] /\ i - n >= 2
      BY <1>2, <2>3
    <3>2. (i - n) + 1 <= m => c[i + 1] = u[(i - n) + 1] /\ i + 1 <= Len(c)
      BY <1>2, <2>3
    <3>3. c[i - 1] = u[(i - n) - 1]
      BY <1>2, <2>3
    <3>4. /\ u[i - n].op = "disable" => (i - n) + 1 <= m /\ u[(i - n) + 1].op = "drain"
          /\ u[i - n].op = "drain" => (i - n) + 1 <= m /\ u[(i - n) + 1].op = "load"
          /\ u[i - n].op = "load" => u[(i - n) - 1].op = "drain"
          /\ u[i - n].op = "drain" => u[(i - n) - 1].op = "disable"
      BY <3>1 DEF Segment, Drained
    <3> QED
      BY <1>2, <3>1, <3>2, <3>3, <3>4
  <2> QED
    BY <1>2, <2>1, <2>2, <2>3
<1> QED
  BY <1>2, <1>3, <1>5, <1>6, <1>7, <1>8, <1>9, <1>10 DEF Segment, c

\* One step makes a part of its own, if it takes no further step for granted.
LEMMA OneStep ==
  ASSUME NEW op \in {"lock", "unlock", "dispatch", "enable"}, NEW level \in Nat,
         op = "unlock" => level >= 1
  PROVE  Segment(<<Step(op, level, "-")>>, level,
                 IF op = "lock" THEN level + 1
                 ELSE IF op = "unlock" THEN level - 1 ELSE level)
<1> DEFINE s == <<Step(op, level, "-")>>
<1>1. Len(s) = 1 /\ s[1] = Step(op, level, "-") /\ s # <<>>
  OBVIOUS
<1>2. s \in Seq(StepType)
  BY DEF Step, StepType, Ops
<1> HIDE DEF s
<1>3. s[1].op = op /\ s[1].level = level
  BY <1>1 DEF Step
<1>4. Linked(s) /\ Published(s) /\ Drained(s)
  BY <1>1, <1>3 DEF Linked, Published, Drained
<1>5. Locked(s)
  BY <1>1, <1>3 DEF Locked
<1>6. \A i \in 1 .. Len(s) : s[i].op \in Plain
  BY <1>1, <1>3 DEF Plain, Ops
<1>7. After(s[Len(s)]) = IF op = "lock" THEN level + 1
                         ELSE IF op = "unlock" THEN level - 1 ELSE level
  BY <1>1, <1>3 DEF After
<1> QED
  BY <1>1, <1>2, <1>3, <1>4, <1>5, <1>6, <1>7 DEF Segment, s

\* The transfer of one frame: what spi_send() does on any task.
OneFrame(level, what) ==
  <<Step("lock", level, "-"),
    Step("lock", level + 1, "-"), Step("xfer", level + 2, what),
    Step("unlock", level + 2, "-"),
    Step("publish", level + 1, "-"), Step("unlock", level + 1, "-")>>

\* One spi_send() is a segment that opens and closes both levels of the lock.
LEMMA OneFrameSegment ==
  ASSUME NEW level \in Nat, NEW what \in {"frame", "first", "second"}
  PROVE  Segment(OneFrame(level, what), level, level)
<1> DEFINE s == OneFrame(level, what)
<1>1. Len(s) = 6 /\ s # <<>>
  BY DEF OneFrame
<1>2. s \in Seq(StepType)
  BY DEF OneFrame, Step, StepType, Ops
<1>3. /\ s[1].op = "lock" /\ s[1].level = level
      /\ s[2].op = "lock" /\ s[2].level = level + 1
      /\ s[3].op = "xfer" /\ s[3].level = level + 2
      /\ s[4].op = "unlock" /\ s[4].level = level + 2
      /\ s[5].op = "publish" /\ s[5].level = level + 1
      /\ s[6].op = "unlock" /\ s[6].level = level + 1
  BY DEF OneFrame, Step
<1> HIDE DEF s
<1>4. \A i \in 1 .. Len(s) : i \in {1, 2, 3, 4, 5, 6}
  BY <1>1
<1>5. Linked(s)
  <2>1. \A i \in 1 .. Len(s) - 1 : i \in {1, 2, 3, 4, 5}
    BY <1>1
  <2> QED
    BY <1>3, <2>1, SMTT(30) DEF Linked, After
<1>6. Locked(s) /\ \A i \in 1 .. Len(s) : s[i].op \in Plain
  <2>1. {"lock", "xfer", "unlock", "publish"} \subseteq Plain
    BY DEF Plain, Ops
  <2>2. \A i \in {1, 2, 3, 4, 5, 6} : s[i].op \in {"lock", "xfer", "unlock", "publish"}
    BY <1>3
  <2>3. \A i \in {3, 4, 5, 6} : s[i].level >= 1
    BY <1>3
  <2>4. \A i \in {1, 2} : s[i].op = "lock"
    BY <1>3
  <2> QED
    BY <1>4, <2>1, <2>2, <2>3, <2>4 DEF Locked
<1>7. Published(s)
  BY <1>1, <1>3, <1>4 DEF Published
<1>8. Drained(s)
  BY <1>3, <1>4 DEF Drained
<1>9. After(s[Len(s)]) = level
  BY <1>1, <1>3 DEF After
<1> QED
  BY <1>1, <1>2, <1>3, <1>5, <1>6, <1>7, <1>8, <1>9 DEF Segment, s

\* spi_send() comes back to the level it started at, on APP with the dispatch
\* behind it; every step of it is at that level or deeper.
LEMMA SendSegment ==
  ASSUME NEW t, NEW level \in Nat, NEW what \in {"frame", "first", "second"}
  PROVE  /\ Segment(spi_send(t, level, what), level, level)
         /\ Len(spi_send(t, level, what)) \in {6, 7}
         /\ spi_send(t, level, what)[3].what = what
         /\ \A i \in 1 .. Len(spi_send(t, level, what)) :
              /\ spi_send(t, level, what)[i].level >= level
              /\ i # 3 => spi_send(t, level, what)[i].what = "-"
              /\ spi_send(t, level, what)[i] \in StepOf(t)
<1> DEFINE six == OneFrame(level, what)
           s == spi_send(t, level, what)
           last == <<Step("dispatch", level, "-")>>
<1>1. /\ Len(six) = 6 /\ six[3].what = what
      /\ \A i \in 1 .. 6 : /\ six[i].level >= level
                           /\ i # 3 => six[i].what = "-"
                           /\ six[i] \in StepOf(t)
  <2>1. \A i \in 1 .. 6 : i \in {1, 2, 3, 4, 5, 6}
    OBVIOUS
  <2>2. /\ \A i \in 1 .. 6 : six[i].op \in {"lock", "xfer", "unlock", "publish"}
        /\ \A i \in 1 .. 6 : six[i] \in StepType
    BY <2>1 DEF OneFrame, Step, StepType, Ops
  <2>3. \A i \in 1 .. 6 : six[i] \in StepOf(t)
    BY <2>2 DEF StepOf, AppOnly
  <2>4. \A i \in 1 .. 6 : six[i].level >= level /\ (i # 3 => six[i].what = "-")
    BY <2>1 DEF OneFrame, Step
  <2>5. Len(six) = 6 /\ six[3].what = what
    BY DEF OneFrame, Step
  <2> QED
    BY <2>3, <2>4, <2>5
<1>2. Segment(six, level, level) /\ six \in Seq(StepType)
  BY OneFrameSegment DEF Segment
<1>3. CASE t = App
  <2>1. s = six \o last
    BY <1>3 DEF spi_send, OneFrame
  <2>2. Segment(last, level, level)
    BY OneStep
  <2>3. Segment(s, level, level)
    BY <1>2, <2>1, <2>2, Join
  <2>4. last \in Seq(StepType) /\ Len(last) = 1 /\ last[1] = Step("dispatch", level, "-")
    BY <2>2 DEF Segment
  <2>5. Len(s) = 7 /\ (\A i \in 1 .. 6 : s[i] = six[i]) /\ s[7] = last[1]
    <3> HIDE DEF six, last, s
    <3>1. /\ Len(six \o last) = Len(six) + Len(last)
          /\ \A i \in 1 .. Len(six) : (six \o last)[i] = six[i]
          /\ \A i \in 1 .. Len(last) : (six \o last)[Len(six) + i] = last[i]
      <4>1. six \in Seq(StepType)
        BY <1>2
      <4>2. last \in Seq(StepType)
        BY <2>4
      <4> QED
        BY <4>1, <4>2, JoinElements
    <3> QED
      BY <1>1, <2>1, <2>4, <3>1
  <2>6. s[7].level = level /\ s[7].what = "-" /\ s[7] \in StepOf(t)
    BY <1>3, <2>4, <2>5 DEF Step, StepOf, StepType, Ops
  <2>7. \A i \in 1 .. 7 : i \in 1 .. 6 \/ i = 7
    OBVIOUS
  <2> HIDE DEF six, last, s
  <2>8. \A i \in 1 .. Len(s) : /\ s[i].level >= level /\ (i # 3 => s[i].what = "-")
                              /\ s[i] \in StepOf(t)
    BY <1>1, <2>5, <2>6, <2>7
  <2> QED
    BY <1>1, <1>3, <2>3, <2>5, <2>8 DEF s
<1>4. CASE t # App
  <2>1. s = six \o <<>>
    BY <1>4 DEF spi_send, OneFrame
  <2>2. s = six
    BY <1>2, <2>1, ConcatEmptySeq
  <2> HIDE DEF six, s
  <2> QED
    BY <1>1, <1>2, <2>2 DEF s
<1> QED
  BY <1>3, <1>4

\* A whole call is a call stack.
LEMMA WholeCall ==
  ASSUME NEW s, Segment(s, 0, 0), Kept(s)
  PROVE  StackRight(s) /\ HalfFirst(s)
<1>1. s \in Seq(StepType) /\ Len(s) \in Nat
  BY LenProperties DEF Segment
<1> QED
  BY <1>1 DEF Segment, StackRight, HalfFirst, Ends

\* spi_send_le() as a call of its own.
LEMMA ValueCall ==
  ASSUME NEW t
  PROVE  /\ Segment(spi_send_le(t, 0), 0, 0) /\ Kept(spi_send_le(t, 0))
         /\ spi_send_le(t, 0) \in Seq(StepOf(t))
<1> DEFINE one  == <<Step("lock", 0, "-")>>
           f    == spi_send(t, 1, "first")
           g    == spi_send(t, 1, "second")
           last == <<Step("unlock", 1, "-")>>
           p    == one \o f
           q    == p \o g
           v    == q \o last
<1>1. v = spi_send_le(t, 0)
  BY DEF spi_send_le
<1>2. Segment(one, 0, 1) /\ Segment(last, 1, 0)
  BY OneStep
<1>3. Segment(f, 1, 1) /\ Segment(g, 1, 1)
  BY SendSegment
<1>4. /\ Len(f) \in {6, 7} /\ f[3].what = "first"
      /\ \A i \in 1 .. Len(f) : f[i].level >= 1 /\ (i # 3 => f[i].what = "-") /\ f[i] \in StepOf(t)
      /\ \A i \in 1 .. Len(g) : g[i].level >= 1 /\ g[i] \in StepOf(t)
  BY SendSegment
<1>5. /\ Len(one) = 1 /\ one[1] = Step("lock", 0, "-") /\ one[1].what = "-" /\ one[1] \in StepOf(t)
      /\ Len(last) = 1 /\ last[1].level = 1 /\ last[1].what = "-" /\ last[1] \in StepOf(t)
  BY DEF Step, StepOf, StepType, AppOnly, Ops
<1>6. /\ one \in Seq(StepType) /\ f \in Seq(StepType)
      /\ g \in Seq(StepType) /\ last \in Seq(StepType)
  BY <1>2, <1>3 DEF Segment
<1>7. one \in Seq(StepOf(t)) /\ f \in Seq(StepOf(t)) /\ g \in Seq(StepOf(t)) /\ last \in Seq(StepOf(t))
  <2> HIDE DEF one, f, g, last
  <2>1. f \in Seq(StepOf(t)) /\ g \in Seq(StepOf(t))
    BY <1>4, <1>6, InSeq
  <2>2. \A i \in 1 .. 1 : one[i] \in StepOf(t) /\ last[i] \in StepOf(t)
    BY <1>5
  <2>3. one \in Seq(StepOf(t)) /\ last \in Seq(StepOf(t))
    BY <1>5, <1>6, <2>2, InSeq
  <2> QED
    BY <2>1, <2>3
<1> HIDE DEF one, f, g, last
<1>8. Segment(v, 0, 0)
  <2>1. Segment(p, 0, 1)
    BY <1>2, <1>3, Join
  <2>2. Segment(q, 0, 1)
    BY <1>3, <2>1, Join
  <2> QED
    BY <1>2, <2>2, Join
<1>9. v \in Seq(StepOf(t))
  BY <1>7, ConcatProperties
<1>10. /\ p \in Seq(StepType) /\ Len(p) = Len(one) + Len(f) /\ Len(p) \in Nat
       /\ \A i \in 1 .. Len(one) : p[i] = one[i]
       /\ \A i \in Len(one) + 1 .. Len(one) + Len(f) : p[i] = f[i - Len(one)]
  <2>1. one \in Seq(StepType) /\ f \in Seq(StepType)
    BY <1>6
  <2> QED
    BY <2>1, JoinElements
<1> HIDE DEF p
<1>11. /\ q \in Seq(StepType) /\ Len(q) = Len(p) + Len(g) /\ Len(q) \in Nat /\ Len(g) \in Nat
       /\ \A i \in 1 .. Len(p) : q[i] = p[i]
       /\ \A i \in Len(p) + 1 .. Len(p) + Len(g) : q[i] = g[i - Len(p)]
  <2>1. p \in Seq(StepType) /\ g \in Seq(StepType)
    BY <1>6, <1>10
  <2>2. /\ p \o g \in Seq(StepType) /\ Len(p \o g) = Len(p) + Len(g)
        /\ Len(p) \in Nat /\ Len(g) \in Nat
        /\ \A i \in 1 .. Len(p) : (p \o g)[i] = p[i]
        /\ \A i \in Len(p) + 1 .. Len(p) + Len(g) : (p \o g)[i] = g[i - Len(p)]
    BY <2>1, JoinElements
  <2>3. Len(p) + Len(g) \in Nat
    BY <2>2
  <2> QED
    BY <2>2, <2>3
<1> HIDE DEF q
<1>12. /\ Len(v) = Len(q) + 1
       /\ \A i \in 1 .. Len(q) : v[i] = q[i]
       /\ v[Len(q) + 1] = last[1]
  <2>1. q \in Seq(StepType) /\ last \in Seq(StepType)
    BY <1>6, <1>11
  <2>2. /\ Len(q \o last) = Len(q) + Len(last)
        /\ \A i \in 1 .. Len(q) : (q \o last)[i] = q[i]
        /\ \A i \in 1 .. Len(last) : (q \o last)[Len(q) + i] = last[i]
    BY <2>1, JoinElements
  <2>3. v[Len(q) + 1] = last[1]
    BY <1>5, <2>2
  <2> QED
    BY <1>5, <2>2, <2>3
<1> HIDE DEF v
<1>13. /\ Len(p) \in {7, 8} /\ p[1].what = "-" /\ p[4].what = "first"
       /\ \A i \in 2 .. Len(p) : p[i].level >= 1 /\ p[i].what # "second"
  <2>1. /\ Len(p) = 1 + Len(f) /\ p[1] = one[1]
        /\ \A i \in 2 .. 1 + Len(f) : p[i] = f[i - 1] /\ i - 1 \in 1 .. Len(f)
    BY <1>4, <1>5, <1>10
  <2>2. p[4] = f[3]
    BY <1>4, <2>1
  <2>3. ASSUME NEW i \in 2 .. Len(p)
        PROVE  p[i].level >= 1 /\ p[i].what # "second"
    <3>1. p[i] = f[i - 1] /\ i - 1 \in 1 .. Len(f)
      BY <2>1, <2>3
    <3>2. f[i - 1].what \in {"-", "first"} /\ f[i - 1].level >= 1
      BY <1>4, <3>1
    <3> QED
      BY <3>1, <3>2
  <2>4. Len(p) \in {7, 8}
    <3>1. Len(f) = 6 \/ Len(f) = 7
      BY <1>4
    <3>2. 1 + 6 = 7 /\ 1 + 7 = 8
      OBVIOUS
    <3> QED
      BY <2>1, <3>1, <3>2
  <2> QED
    BY <1>4, <1>5, <2>1, <2>2, <2>3, <2>4
<1>14. /\ v[4].what = "first"
       /\ \A i \in 1 .. Len(p) : v[i].what # "second"
       /\ \A i \in 2 .. Len(v) : v[i].level >= 1
  <2>1. \A i \in 1 .. Len(p) : v[i] = p[i]
    BY <1>11, <1>12
  <2>2. ASSUME NEW i \in Len(p) + 1 .. Len(v)
        PROVE  v[i].level >= 1
    <3>1. CASE i = Len(q) + 1
      BY <1>5, <1>12, <3>1
    <3>2. CASE i <= Len(q)
      <4>1. v[i] = g[i - Len(p)] /\ i - Len(p) \in 1 .. Len(g)
        BY <1>11, <1>12, <1>13, <3>2
      <4> QED
        BY <1>4, <4>1
    <3>3. Len(v) = Len(q) + 1 /\ Len(q) \in Nat /\ Len(p) \in Nat
      BY <1>10, <1>11, <1>12
    <3> QED
      BY <3>1, <3>2, <3>3
  <2>3. ASSUME NEW i \in 1 .. Len(p)
        PROVE  v[i].what # "second" /\ (i # 1 => v[i].level >= 1)
    BY <1>13, <2>1
  <2>4. v[4] = p[4]
    BY <1>13, <2>1
  <2> QED
    BY <1>10, <1>12, <1>13, <2>2, <2>3, <2>4
<1>15. Kept(v)
  <2> SUFFICES ASSUME NEW i \in 1 .. Len(v), v[i].what = "second",
                      NEW k \in 1 .. i, v[k].level = 0
               PROVE  \E j \in k + 1 .. i - 1 : v[j].what = "first"
    BY DEF Kept
  <2>1. Len(v) \in Nat
    BY <1>11, <1>12
  <2>2. k = 1
    <3>1. k \in 2 .. Len(v) => v[k].level >= 1
      BY <1>14
    <3>2. k # 1 => k \in 2 .. Len(v)
      BY <2>1
    <3> QED
      BY <3>1, <3>2
  <2>3. i > 7
    <3>1. i \notin 1 .. Len(p)
      BY <1>14
    <3>2. i \in Nat /\ i >= 1
      BY <2>1
    <3>3. CASE Len(p) = 7
      BY <3>1, <3>2, <3>3
    <3>4. CASE Len(p) = 8
      BY <3>1, <3>2, <3>4
    <3> QED
      BY <1>13, <3>3, <3>4
  <2>4. 4 \in k + 1 .. i - 1
    BY <2>1, <2>2, <2>3
  <2> QED
    BY <1>14, <2>4
<1> QED
  BY <1>1, <1>8, <1>9, <1>15

\* configure() as a call of APP.
LEMMA LoadCall ==
  ASSUME NEW save \in BOOLEAN
  PROVE  /\ Segment(configure(save), 0, 0) /\ Kept(configure(save))
         /\ configure(save) \in Seq(StepOf(App))
<1> DEFINE Single == {x \in StepOf(App) : x.what # "second"}
           one  == <<Step("lock", 0, "-")>>
           f    == spi_send(App, 1, "frame")
           a    == IF save THEN f ELSE <<>>
           three == <<Step("disable", 1, "-"), Step("drain", 1, "-"), Step("load", 1, "-")>>
           last == <<Step("enable", 1, "-"), Step("unlock", 1, "-")>>
           p    == one \o a
           q    == p \o three
           r    == q \o f
           v    == r \o last
<1>1. v = configure(save)
  BY DEF configure
<1>2. Segment(one, 0, 1) /\ Segment(f, 1, 1)
  BY OneStep, SendSegment
<1>3. Segment(three, 1, 1)
  <2>1. three \in Seq(StepType) /\ three # <<>> /\ Len(three) = 3
    BY DEF Step, StepType, Ops
  <2>2. /\ three[1].op = "disable" /\ three[2].op = "drain" /\ three[3].op = "load"
        /\ three[1].level = 1 /\ three[2].level = 1 /\ three[3].level = 1
    BY DEF Step
  <2> HIDE DEF three
  <2>3. \A i \in 1 .. Len(three) : i \in {1, 2, 3}
    BY <2>1
  <2>4. \A i \in 1 .. Len(three) - 1 : i \in {1, 2}
    BY <2>1
  <2>5. Linked(three)
    BY <2>2, <2>4 DEF Linked, After
  <2>6. Locked(three) /\ Published(three)
    BY <2>2, <2>3 DEF Locked, Published
  <2>7. Drained(three)
    BY <2>1, <2>2, <2>3 DEF Drained
  <2>8. \A i \in 1 .. Len(three) : three[i].op \in Plain
    BY <2>2, <2>3 DEF Plain, Ops
  <2>9. After(three[Len(three)]) = 1
    BY <2>1, <2>2 DEF After
  <2> QED
    BY <2>1, <2>2, <2>5, <2>6, <2>7, <2>8, <2>9 DEF Segment
<1>4. Segment(last, 1, 0)
  <2>1. /\ Segment(<<Step("enable", 1, "-")>>, 1, 1)
        /\ Segment(<<Step("unlock", 1, "-")>>, 1, 0)
    BY OneStep
  <2>2. last = <<Step("enable", 1, "-")>> \o <<Step("unlock", 1, "-")>>
    OBVIOUS
  <2> QED
    BY <2>1, <2>2, Join
<1>5. /\ one \in Seq(Single) /\ three \in Seq(Single) /\ last \in Seq(Single)
  BY DEF Step, StepOf, StepType, AppOnly, Ops
<1>6. f \in Seq(Single)
  <2>1. f \in Seq(StepType) /\ \A i \in 1 .. Len(f) : f[i] \in StepOf(App)
    BY <1>2, SendSegment DEF Segment
  <2>2. \A i \in 1 .. Len(f) : f[i].what \in {"-", "frame"}
    BY SendSegment
  <2> HIDE DEF f
  <2>3. \A i \in 1 .. Len(f) : f[i] \in Single
    BY <2>1, <2>2
  <2> HIDE DEF Single
  <2> QED
    BY <2>1, <2>3, InSeq
<1> HIDE DEF Single, one, f, three, last
<1>7. v \in Seq(Single)
  <2>1. p \in Seq(Single)
    <3>1. CASE save
      BY <1>5, <1>6, <3>1, ConcatProperties
    <3>2. CASE ~save
      BY <1>5, <3>2, ConcatEmptySeq
    <3> QED
      BY <3>1, <3>2
  <2> HIDE DEF p
  <2> QED
    BY <1>5, <1>6, <2>1, ConcatProperties
<1>8. Segment(v, 0, 0)
  <2>1. Segment(p, 0, 1)
    <3>1. CASE save
      BY <1>2, <3>1, Join
    <3>2. CASE ~save
      BY <1>2, <1>5, <3>2, ConcatEmptySeq
    <3> QED
      BY <3>1, <3>2
  <2> HIDE DEF p
  <2>2. Segment(q, 0, 1)
    BY <1>3, <2>1, Join
  <2> HIDE DEF q
  <2>3. Segment(r, 0, 1)
    BY <1>2, <2>2, Join
  <2> HIDE DEF r
  <2> QED
    BY <1>4, <2>3, Join
<1> HIDE DEF v
<1>9. v \in Seq(StepOf(App)) /\ \A i \in 1 .. Len(v) : v[i].what # "second"
  BY <1>7, ElementOfSeq, SeqMonotonic DEF Single
<1>10. Kept(v)
  BY <1>9 DEF Kept
<1> QED
  BY <1>1, <1>8, <1>9, <1>10

\* APP's main loop.
LEMMA LoopCall ==
  LET s == <<Step("dispatch", 0, "-")>>
  IN  Segment(s, 0, 0) /\ Kept(s) /\ s \in Seq(StepOf(App))
<1> DEFINE s == <<Step("dispatch", 0, "-")>>
<1>1. Segment(s, 0, 0)
  BY OneStep
<1>2. Len(s) = 1 /\ s[1].what = "-" /\ s \in Seq(StepOf(App))
  BY DEF Step, StepOf, StepType, Ops
<1> HIDE DEF s
<1>3. Kept(s)
  BY <1>2 DEF Kept
<1> QED
  BY <1>1, <1>2, <1>3 DEF s

\* One frame as a call of its own.
LEMMA FrameCall ==
  ASSUME NEW t
  PROVE  LET s == spi_send(t, 0, "frame")
         IN  Segment(s, 0, 0) /\ Kept(s) /\ s \in Seq(StepOf(t))
<1> DEFINE s == spi_send(t, 0, "frame")
<1>1. /\ Segment(s, 0, 0) /\ \A i \in 1 .. Len(s) : s[i] \in StepOf(t)
      /\ \A i \in 1 .. Len(s) : s[i].what \in {"-", "frame"}
  BY SendSegment
<1> HIDE DEF s
<1>2. s \in Seq(StepOf(t))
  BY <1>1, InSeq DEF Segment
<1>3. Kept(s)
  BY <1>1 DEF Kept
<1> QED
  BY <1>1, <1>2, <1>3 DEF s

-----------------------------------------------------------------------------
(* Lemmas about the steps of a call stack.                                  *)

\* A step that is made leaves the rest, which starts where the step ends.
LEMMA StepMade ==
  ASSUME NEW t \in Task, NEW s, s # <<>>, s \in Seq(StepOf(t)), StackRight(s), HalfFirst(s)
  PROVE  /\ Tail(s) \in Seq(StepOf(t)) /\ StackRight(Tail(s)) /\ HalfFirst(Tail(s))
         /\ Tail(s) = <<>> => After(Head(s)) = 0 /\ Len(s) = 1
         /\ Tail(s) # <<>> => /\ Head(Tail(s)) = s[2] /\ Len(s) >= 2
                             /\ s[2].level = After(Head(s)) /\ s[2].op \in Plain
<1> DEFINE u == Tail(s)
           n == Len(s)
<1>1. s \in Seq(StepType) /\ Head(s) = s[1]
  BY DEF StackRight
<1>2. /\ u \in Seq(StepType) /\ n \in Nat \ {0} /\ Len(u) = n - 1
      /\ \A i \in 1 .. n - 1 : u[i] = s[i + 1]
  BY <1>1, HeadTailProperties, EmptySeq
<1>3. u \in Seq(StepOf(t))
  BY HeadTailProperties
<1>4. u = <<>> => n = 1
  <2>1. Len(<<>>) = 0
    OBVIOUS
  <2>2. SUFFICES ASSUME u = <<>> PROVE n = 1
    OBVIOUS
  <2>3. Len(u) = 0
    BY <2>1, <2>2
  <2> HIDE DEF u
  <2> QED
    BY <1>2, <2>3
<1>5. u # <<>> => n >= 2 /\ Head(u) = u[1]
  BY <1>2, EmptySeq
<1>6. /\ \A i \in 1 .. n - 1 : s[i + 1].level = After(s[i])
      /\ After(s[n]) = 0
  BY DEF StackRight, Linked, Ends
<1> HIDE DEF u
<1>7. Linked(u) /\ Ends(u)
  <2>1. ASSUME NEW i \in 1 .. Len(u) - 1
        PROVE  u[i + 1].level = After(u[i])
    <3>1. i \in 1 .. n - 1 /\ i + 1 \in 1 .. n - 1
      BY <1>2
    <3> QED
      BY <1>2, <1>6, <3>1
  <2>2. u # <<>> => u[Len(u)] = s[n]
    BY <1>2, <1>5
  <2> QED
    BY <1>6, <2>1, <2>2 DEF Linked, Ends
<1>8. Locked(u) /\ HalfFirst(u)
  <2>1. ASSUME NEW i \in 1 .. Len(u)
        PROVE  /\ i + 1 \in 2 .. Len(s) /\ i + 1 \in 1 .. Len(s) /\ u[i] = s[i + 1]
    BY <1>2
  <2>2. Len(u) \in Nat
    BY <1>2
  <2> QED
    BY <2>1, <2>2 DEF StackRight, Locked, HalfFirst
<1>9. Published(u)
  <2> SUFFICES ASSUME NEW i \in 1 .. Len(u), u[i].op = "xfer"
               PROVE  /\ i + 2 <= Len(u) /\ u[i].level >= 2
                      /\ u[i + 1].op = "unlock" /\ u[i + 2].op = "publish"
    BY DEF Published
  <2>1. i + 1 \in 1 .. Len(s) /\ u[i] = s[i + 1] /\ i \in Nat
    BY <1>2
  <2>2. /\ (i + 1) + 2 <= Len(s) /\ s[i + 1].level >= 2
        /\ s[(i + 1) + 1].op = "unlock" /\ s[(i + 1) + 2].op = "publish"
    BY <2>1 DEF StackRight, Published
  <2>3. i + 1 \in 1 .. n - 1 /\ i + 2 \in 1 .. n - 1 /\ (i + 2) + 1 = (i + 1) + 2
    BY <1>2, <2>1, <2>2
  <2>4. u[i + 1] = s[(i + 1) + 1] /\ u[i + 2] = s[(i + 1) + 2]
    BY <1>2, <2>3
  <2> QED
    BY <1>2, <2>1, <2>2, <2>3, <2>4
<1>10. Drained(u)
  <2> SUFFICES ASSUME NEW i \in 1 .. Len(u)
               PROVE  /\ u[i].op = "disable" => i + 1 <= Len(u) /\ u[i + 1].op = "drain"
                      /\ u[i].op = "drain" => i + 1 <= Len(u) /\ u[i + 1].op = "load"
                      /\ i >= 2 /\ u[i].op = "load" => u[i - 1].op = "drain"
                      /\ i >= 2 /\ u[i].op = "drain" => u[i - 1].op = "disable"
    BY DEF Drained
  <2>1. i + 1 \in 1 .. Len(s) /\ u[i] = s[i + 1] /\ i + 1 >= 2 /\ (i + 1) - 1 = i
    BY <1>2
  <2>2. /\ s[i + 1].op = "disable" => (i + 1) + 1 <= n /\ s[(i + 1) + 1].op = "drain"
        /\ s[i + 1].op = "drain" => (i + 1) + 1 <= n /\ s[(i + 1) + 1].op = "load"
        /\ s[i + 1].op = "load" => s[i].op = "drain"
        /\ s[i + 1].op = "drain" => s[i].op = "disable"
    BY <2>1 DEF StackRight, Drained
  <2>3. (i + 1) + 1 <= n => i + 1 <= Len(u) /\ u[i + 1] = s[(i + 1) + 1]
    BY <1>2
  <2>4. i >= 2 => u[i - 1] = s[i]
    BY <1>2
  <2> QED
    BY <2>1, <2>2, <2>3, <2>4
<1>11. Kept(u)
  <2> SUFFICES ASSUME NEW i \in 1 .. Len(u), u[i].what = "second",
                      NEW k \in 1 .. i, u[k].level = 0
               PROVE  \E j \in k + 1 .. i - 1 : u[j].what = "first"
    BY DEF Kept
  <2>1. /\ i + 1 \in 1 .. Len(s) /\ u[i] = s[i + 1]
        /\ k + 1 \in 1 .. i + 1 /\ u[k] = s[k + 1]
    BY <1>2
  <2>2. PICK j \in (k + 1) + 1 .. (i + 1) - 1 : s[j].what = "first"
    BY <2>1 DEF StackRight, Kept
  <2>3. j - 1 \in k + 1 .. i - 1 /\ j - 1 \in 1 .. n - 1 /\ (j - 1) + 1 = j
    BY <1>2
  <2>4. u[j - 1] = s[j]
    BY <1>2, <2>3
  <2> QED
    BY <2>2, <2>3, <2>4
<1>12. u # <<>> => s[2].level = After(s[1]) /\ s[2].op \in Plain /\ u[1] = s[2]
  <2>1. n >= 2 => 1 \in 1 .. n - 1 /\ 2 \in 2 .. Len(s) /\ 1 + 1 = 2
    BY <1>2
  <2> QED
    BY <1>2, <1>5, <1>6, <2>1 DEF HalfFirst
<1>13. u = <<>> => After(s[1]) = 0
  BY <1>4, <1>6
<1> QED
  BY <1>1, <1>2, <1>3, <1>4, <1>5, <1>7, <1>8, <1>9, <1>10, <1>11, <1>12, <1>13
     DEF StackRight, u

\* A lock or an unlock goes on: it has the same place and ends where it did.
LEMMA StepBecomes ==
  ASSUME NEW t \in Task, NEW s, s # <<>>, s \in Seq(StepOf(t)), StackRight(s), HalfFirst(s),
         NEW op, \/ Head(s).op = "lock" /\ op = "own"
                 \/ Head(s).op = "unlock" /\ op = "disown"
                 \/ Head(s).op = "disown" /\ op = "give"
  PROVE  LET u == [s EXCEPT ![1].op = op]
         IN  /\ u \in Seq(StepOf(t)) /\ StackRight(u) /\ HalfFirst(u)
             /\ u # <<>> /\ Head(u).op = op /\ Head(u).level = Head(s).level
<1> DEFINE u == [s EXCEPT ![1].op = op]
           n == Len(s)
<1>1. /\ s \in Seq(StepType) /\ Head(s) = s[1] /\ n \in Nat \ {0}
      /\ s \in [1 .. n -> StepOf(t)] /\ s \in [1 .. n -> StepType]
  BY EmptySeq, LenProperties DEF StackRight
<1>2. [s[1] EXCEPT !.op = op] \in StepOf(t) /\ StepOf(t) \subseteq StepType
  BY <1>1 DEF StepOf, StepType, Ops, AppOnly
<1>3. u = [s EXCEPT ![1] = [s[1] EXCEPT !.op = op]] /\ 1 \in 1 .. n
  BY <1>1
<1>4. /\ u \in Seq(StepOf(t)) /\ Len(u) = n
      /\ \A j \in 1 .. n : u[j] = IF j = 1 THEN [s[1] EXCEPT !.op = op] ELSE s[j]
  BY <1>2, <1>3, ExceptSeq
<1>5. u \in Seq(StepType)
  BY <1>2, <1>4, SeqMonotonic
<1> HIDE DEF u
<1>6. u # <<>> /\ Head(u) = u[1]
  BY <1>1, <1>4
<1>7. u[1].op = op /\ u[1].level = s[1].level /\ u[1].what = s[1].what
  BY <1>1, <1>3, <1>4 DEF StepType
<1>8. \A j \in 1 .. n : j # 1 => u[j] = s[j]
  BY <1>4
<1>9. \A j \in 1 .. n : /\ u[j].level = s[j].level /\ u[j].what = s[j].what
                        /\ After(u[j]) = After(s[j])
  <2>1. After(u[1]) = After(s[1])
    BY <1>1, <1>7 DEF After
  <2> QED
    BY <1>7, <1>8, <2>1
<1>10. Linked(u) /\ Ends(u)
  <2>1. ASSUME NEW i \in 1 .. n - 1
        PROVE  u[i + 1].level = After(u[i])
    <3>1. i \in 1 .. n /\ i + 1 \in 1 .. n /\ s[i + 1].level = After(s[i])
      BY <1>1 DEF StackRight, Linked
    <3> QED
      BY <1>9, <3>1
  <2>2. n \in 1 .. n /\ After(s[n]) = 0
    BY <1>1 DEF StackRight, Ends
  <2> QED
    BY <1>4, <1>9, <2>1, <2>2 DEF Linked, Ends
<1>11. Locked(u)
  <2>1. s[1].op \in {"unlock", "disown"} => s[1].level >= 1
    BY <1>1, <1>3 DEF StackRight, Locked
  <2> QED
    BY <1>1, <1>3, <1>4, <1>7, <1>8, <2>1 DEF StackRight, Locked
<1>12. HalfFirst(u)
  BY <1>1, <1>4, <1>8 DEF HalfFirst
<1>13. Published(u)
  <2> SUFFICES ASSUME NEW i \in 1 .. n, u[i].op = "xfer"
               PROVE  /\ i + 2 <= n /\ u[i].level >= 2
                      /\ u[i + 1].op = "unlock" /\ u[i + 2].op = "publish"
    BY <1>4 DEF Published
  <2>1. i # 1 /\ u[i] = s[i]
    BY <1>1, <1>7, <1>8
  <2>2. /\ i + 2 <= n /\ s[i].level >= 2
        /\ s[i + 1].op = "unlock" /\ s[i + 2].op = "publish"
    BY <2>1 DEF StackRight, Published
  <2>3. i + 1 \in 1 .. n /\ i + 2 \in 1 .. n /\ i + 1 # 1 /\ i + 2 # 1
    BY <1>1, <2>2
  <2> QED
    BY <1>8, <2>1, <2>2, <2>3
<1>14. Drained(u)
  <2> SUFFICES ASSUME NEW i \in 1 .. n
               PROVE  /\ u[i].op = "disable" => i + 1 <= n /\ u[i + 1].op = "drain"
                      /\ u[i].op = "drain" => i + 1 <= n /\ u[i + 1].op = "load"
                      /\ i >= 2 /\ u[i].op = "load" => u[i - 1].op = "drain"
                      /\ i >= 2 /\ u[i].op = "drain" => u[i - 1].op = "disable"
    BY <1>4 DEF Drained
  <2>1. CASE i = 1
    BY <1>1, <1>7, <2>1
  <2>2. CASE i > 1
    <3>1. u[i] = s[i] /\ (i + 1 <= n => u[i + 1] = s[i + 1])
      BY <1>1, <1>8, <2>2
    <3>2. /\ s[i].op = "disable" => i + 1 <= n /\ s[i + 1].op = "drain"
          /\ s[i].op = "drain" => i + 1 <= n /\ s[i + 1].op = "load"
          /\ s[i].op = "load" => s[i - 1].op = "drain"
          /\ s[i].op = "drain" => s[i - 1].op = "disable"
      BY <1>1, <2>2 DEF StackRight, Drained
    <3>3. CASE i = 2
      <4>1. s[i - 1] = s[1]
        BY <3>3
      <4> QED
        BY <1>1, <3>1, <3>2, <4>1
    <3>4. CASE i > 2
      <4>1. i - 1 \in 1 .. n /\ i - 1 # 1
        BY <1>1, <3>4
      <4>2. u[i - 1] = s[i - 1]
        BY <1>8, <4>1
      <4> QED
        BY <3>1, <3>2, <4>2
    <3> QED
      BY <1>1, <2>2, <3>3, <3>4
  <2> QED
    BY <1>1, <2>1, <2>2
<1>15. Kept(u)
  <2> SUFFICES ASSUME NEW i \in 1 .. n, u[i].what = "second",
                      NEW k \in 1 .. i, u[k].level = 0
               PROVE  \E j \in k + 1 .. i - 1 : u[j].what = "first"
    BY <1>4 DEF Kept
  <2>1. i \in 1 .. n /\ k \in 1 .. n
    BY <1>1
  <2>2. s[i].what = "second" /\ s[k].level = 0
    BY <1>9, <2>1
  <2>3. PICK j \in k + 1 .. i - 1 : s[j].what = "first"
    BY <2>2 DEF StackRight, Kept
  <2>4. j \in 1 .. n
    BY <1>1, <2>1
  <2> QED
    BY <1>9, <2>3, <2>4
<1> QED
  BY <1>1, <1>4, <1>5, <1>6, <1>7, <1>10, <1>11, <1>12, <1>13, <1>14, <1>15
     DEF StackRight, u

\* A handler that sends an answer puts its call in front of the dispatch.
LEMMA HandlerSends ==
  ASSUME NEW t \in Task, NEW s, s # <<>>, s \in Seq(StepOf(t)), StackRight(s), HalfFirst(s),
         Head(s).op = "dispatch"
  PROVE  LET w == spi_send(t, Head(s).level, "frame")
             u == w \o s
         IN  /\ u \in Seq(StepOf(t)) /\ StackRight(u) /\ HalfFirst(u)
             /\ u # <<>> /\ Head(u).level = Head(s).level /\ Head(u).op = "lock"
<1> DEFINE level == Head(s).level
           w == spi_send(t, level, "frame")
           u == w \o s
           n == Len(s)
           m == Len(w)
<1>1. /\ s \in Seq(StepType) /\ Head(s) = s[1] /\ n \in Nat \ {0}
      /\ level \in Nat
  <2>1. /\ s \in Seq(StepType) /\ Head(s) = s[1] /\ n \in Nat \ {0}
    BY EmptySeq, LenProperties DEF StackRight
  <2>2. s[1] \in StepType
    BY <2>1, ElementOfSeq
  <2> QED
    BY <2>1, <2>2 DEF StepType
<1>2. /\ Segment(w, level, level) /\ m \in {6, 7}
      /\ \A i \in 1 .. m : w[i].level >= level /\ w[i] \in StepOf(t)
      /\ \A i \in 1 .. m : w[i].what # "second"
  BY <1>1, SendSegment
<1>3. w[1].op = "lock"
  <2>1. CASE t = App
    BY <2>1 DEF spi_send, Step
  <2>2. CASE t # App
    BY <2>2 DEF spi_send, Step
  <2> QED
    BY <2>1, <2>2
<1>4. Segment(s, level, 0)
  <2>1. \A i \in 1 .. n : s[i].op \in Plain
    <3>1. s[1].op \in Plain
      BY <1>1 DEF Plain, Ops
    <3>2. \A i \in 2 .. n : s[i].op \in Plain
      BY DEF HalfFirst
    <3> QED
      BY <1>1, <3>1, <3>2
  <2> QED
    BY <1>1, <2>1 DEF Segment, StackRight, Ends
<1> HIDE DEF level, w
<1>5. Segment(u, level, 0)
  BY <1>1, <1>2, <1>4, Join
<1>6. w \in Seq(StepOf(t)) /\ w \in Seq(StepType)
  BY <1>2, InSeq DEF Segment
<1>7. u \in Seq(StepOf(t))
  BY <1>6, ConcatProperties
<1>8. /\ Len(u) = m + n /\ m \in Nat
      /\ \A i \in 1 .. m : u[i] = w[i]
      /\ \A i \in m + 1 .. m + n : u[i] = s[i - m]
  BY <1>1, <1>6, JoinElements
<1> HIDE DEF u
<1>9. Kept(u)
  <2> SUFFICES ASSUME NEW i \in 1 .. m + n, u[i].what = "second",
                      NEW k \in 1 .. i, u[k].level = 0
               PROVE  \E j \in k + 1 .. i - 1 : u[j].what = "first"
    BY <1>8 DEF Kept
  <2>1. i \in m + 1 .. m + n
    BY <1>1, <1>2, <1>8
  <2>2. i - m \in 1 .. n /\ s[i - m].what = "second"
    BY <1>1, <1>8, <2>1
  <2>3. \E l \in 1 .. i - m : s[l].level = 0 /\ (k <= m => l = 1) /\ (k > m => l = k - m)
    <3>1. CASE k > m
      <4>1. k - m \in 1 .. i - m /\ k \in m + 1 .. m + n
        BY <1>1, <1>8, <2>1, <3>1
      <4> QED
        BY <1>8, <3>1, <4>1
    <3>2. CASE k <= m
      <4>1. k \in 1 .. m /\ u[k] = w[k]
        BY <1>8, <3>2
      <4>2. level = 0
        BY <1>1, <1>2, <4>1
      <4>3. s[1].level = 0 /\ 1 \in 1 .. i - m
        BY <1>1, <2>2, <4>2 DEF level
      <4> QED
        BY <1>8, <3>2, <4>3
    <3> QED
      BY <1>8, <3>1, <3>2
  <2>4. PICK l \in 1 .. i - m : s[l].level = 0 /\ (k <= m => l = 1) /\ (k > m => l = k - m)
    BY <2>3
  <2>5. PICK j \in l + 1 .. (i - m) - 1 : s[j].what = "first"
    BY <2>2, <2>4 DEF StackRight, Kept
  <2>6. j \in Nat /\ l \in Nat /\ l >= 1 /\ j > l /\ j < i - m /\ k \in Nat
    BY <1>1, <1>8, <2>2
  <2>7. j + m \in m + 1 .. m + n /\ (j + m) - m = j
    BY <1>1, <1>8, <2>2, <2>6
  <2>8. j + m \in k + 1 .. i - 1
    BY <1>8, <2>4, <2>6
  <2>9. u[j + m] = s[j]
    BY <1>8, <2>7
  <2> QED
    BY <2>5, <2>8, <2>9
<1>10. StackRight(u) /\ HalfFirst(u)
  <2>1. u \in Seq(StepType) /\ Len(u) \in Nat
    BY <1>5, LenProperties DEF Segment
  <2> QED
    BY <1>5, <1>9, <2>1 DEF Segment, StackRight, HalfFirst, Ends
<1>11. u # <<>> /\ Head(u) = u[1] /\ u[1] = w[1]
  BY <1>2, <1>5, <1>8 DEF Segment
<1>12. u[1].level = level
  BY <1>5 DEF Segment
<1> QED
  BY <1>3, <1>7, <1>10, <1>11, <1>12 DEF u, w, level

-----------------------------------------------------------------------------
(* What a step of the specification does to the call stacks.                *)

\* The stack of a task.
LEMMA Stacks ==
  ASSUME TodoRight, NEW t \in Task
  PROVE  todo[t] \in Seq(StepOf(t)) /\ StackRight(todo[t]) /\ HalfFirst(todo[t])
BY DEF TodoRight

\* The step that is to be made next.
LEMMA Top ==
  ASSUME TodoRight, NEW t \in Task, todo[t] # <<>>
  PROVE  /\ Head(todo[t]) = todo[t][1] /\ Len(todo[t]) \in Nat \ {0}
         /\ Head(todo[t]) \in StepType /\ Level(t) \in Nat /\ Head(todo[t]).op \in Ops
         /\ Head(todo[t]).op \in AppOnly => t = App
<1>1. todo[t] \in Seq(StepOf(t))
  BY Stacks
<1>2. /\ Head(todo[t]) = todo[t][1] /\ Head(todo[t]) \in StepOf(t)
      /\ Len(todo[t]) \in Nat \ {0}
  BY <1>1, HeadTailProperties, EmptySeq, LenProperties
<1> QED
  BY <1>2 DEF StepOf, StepType, Level

\* One stack is replaced by a right one.
LEMMA Replaced ==
  ASSUME TodoRight, NEW t \in Task,
         NEW s \in Seq(StepOf(t)), StackRight(s), HalfFirst(s), todo' = [todo EXCEPT ![t] = s]
  PROVE  TodoRight' /\ todo'[t] = s /\ \A u \in Task : u # t => todo'[u] = todo[u]
<1>1. s \in Seq(StepType)
  BY DEF StackRight
<1>2. todo' \in [Task -> Seq(StepType)] /\ todo'[t] = s
  BY <1>1 DEF TodoRight
<1>3. \A u \in Task : u # t => todo'[u] = todo[u]
  BY DEF TodoRight
<1>4. ASSUME NEW u \in Task
      PROVE  StackRight(todo'[u]) /\ HalfFirst(todo'[u]) /\ todo'[u] \in Seq(StepOf(u))
  <2>1. CASE u = t
    BY <1>2, <2>1
  <2>2. CASE u # t
    BY <1>3, <2>2 DEF TodoRight
  <2> QED
    BY <2>1, <2>2
<1> QED
  BY <1>2, <1>3, <1>4 DEF TodoRight, StackRight, Linked, Ends, Locked, HalfFirst, Published,
     Drained, Kept

\* A step that is done leaves the stack of its task right and the others alone.
LEMMA DoneStep ==
  ASSUME TodoRight, NEW t \in Task, todo[t] # <<>>, Done(t)
  PROVE  /\ TodoRight' /\ \A u \in Task : u # t => todo'[u] = todo[u]
         /\ todo'[t] = Tail(todo[t])
         /\ todo'[t] = <<>> => After(Head(todo[t])) = 0
         /\ todo'[t] # <<>> => /\ Head(todo'[t]) = todo[t][2] /\ Len(todo[t]) >= 2
                              /\ Head(todo'[t]).level = After(Head(todo[t]))
                              /\ Head(todo'[t]).op \in Plain
<1> DEFINE s == todo[t]
<1>1. s # <<>> /\ s \in Seq(StepOf(t)) /\ StackRight(s) /\ HalfFirst(s)
  BY Stacks
<1>2. todo' = [todo EXCEPT ![t] = Tail(s)]
  BY DEF Done
<1> HIDE DEF s
<1>3. /\ Tail(s) \in Seq(StepOf(t)) /\ StackRight(Tail(s)) /\ HalfFirst(Tail(s))
      /\ Tail(s) = <<>> => After(Head(s)) = 0
      /\ Tail(s) # <<>> => /\ Head(Tail(s)) = s[2] /\ Len(s) >= 2
                          /\ s[2].level = After(Head(s)) /\ s[2].op \in Plain
  BY <1>1, StepMade
<1>4. TodoRight' /\ todo'[t] = Tail(s) /\ \A u \in Task : u # t => todo'[u] = todo[u]
  BY <1>2, <1>3, Replaced
<1> QED
  BY <1>3, <1>4 DEF s

\* A step of the lock that goes on as its next half leaves the stacks right.
LEMMA BecomesStep ==
  ASSUME TodoRight, NEW t \in Task, todo[t] # <<>>, NEW op, Becomes(t, op),
         \/ Head(todo[t]).op = "lock" /\ op = "own"
         \/ Head(todo[t]).op = "unlock" /\ op = "disown"
         \/ Head(todo[t]).op = "disown" /\ op = "give"
  PROVE  /\ TodoRight' /\ \A u \in Task : u # t => todo'[u] = todo[u]
         /\ todo'[t] # <<>> /\ Head(todo'[t]).op = op
         /\ Head(todo'[t]).level = Head(todo[t]).level
<1> DEFINE s == todo[t]
           u == [s EXCEPT ![1].op = op]
<1>1. s # <<>> /\ s \in Seq(StepOf(t)) /\ StackRight(s) /\ HalfFirst(s)
  BY Stacks
<1>2. todo' = [todo EXCEPT ![t] = u]
  BY DEF Becomes, TodoRight
<1>3. /\ u \in Seq(StepOf(t)) /\ StackRight(u) /\ HalfFirst(u)
      /\ u # <<>> /\ Head(u).op = op /\ Head(u).level = Head(s).level
  BY <1>1, StepBecomes, ZenonT(60)
<1> HIDE DEF u
<1>4. TodoRight' /\ todo'[t] = u /\ \A v \in Task : v # t => todo'[v] = todo[v]
  BY <1>2, <1>3, Replaced
<1> QED
  BY <1>3, <1>4

\* A call from the task's loop puts a whole segment on its empty stack.
LEMMA CallStep ==
  ASSUME TodoRight, NEW t \in Task, NEW s, Segment(s, 0, 0), Kept(s), s \in Seq(StepOf(t)),
         todo' = [todo EXCEPT ![t] = s]
  PROVE  /\ TodoRight' /\ \A u \in Task : u # t => todo'[u] = todo[u]
         /\ todo'[t] # <<>> /\ Head(todo'[t]).level = 0
         /\ Head(todo'[t]).op \in Plain \ {"drain", "load", "unlock", "xfer", "publish"}
<1>1. StackRight(s) /\ HalfFirst(s)
  BY WholeCall
<1>2. TodoRight' /\ todo'[t] = s /\ \A u \in Task : u # t => todo'[u] = todo[u]
  BY <1>1, Replaced
<1>3. s # <<>> /\ s \in Seq(StepType) /\ Len(s) \in Nat \ {0} /\ Head(s) = s[1]
  BY EmptySeq DEF Segment
<1>4. s[1].level = 0 /\ s[1].op \in Plain \ {"drain", "load", "unlock", "xfer", "publish"}
  BY <1>3 DEF Segment, Locked
<1> QED
  BY <1>2, <1>3, <1>4

\* A frame's handler that sends nests its call in the one it interrupts.
LEMMA HandlerStep ==
  ASSUME TodoRight, NEW t \in Task, At(t, "dispatch"),
         todo' = [todo EXCEPT ![t] = spi_send(t, Level(t), "frame") \o @]
  PROVE  /\ TodoRight' /\ \A u \in Task : u # t => todo'[u] = todo[u]
         /\ todo'[t] # <<>> /\ Head(todo'[t]).level = Level(t)
         /\ Head(todo'[t]).op = "lock"
<1> DEFINE s == todo[t]
           u == spi_send(t, Head(s).level, "frame") \o s
<1>1. s # <<>> /\ s \in Seq(StepOf(t)) /\ StackRight(s) /\ HalfFirst(s)
  BY Stacks DEF At
<1>2. todo' = [todo EXCEPT ![t] = u] /\ Head(s).op = "dispatch"
  BY DEF At, Level
<1>3. /\ u \in Seq(StepOf(t)) /\ StackRight(u) /\ HalfFirst(u)
      /\ u # <<>> /\ Head(u).level = Head(s).level /\ Head(u).op = "lock"
  BY <1>1, <1>2, HandlerSends
<1> HIDE DEF u
<1>4. TodoRight' /\ todo'[t] = u /\ \A v \in Task : v # t => todo'[v] = todo[v]
  BY <1>2, <1>3, Replaced
<1> QED
  BY <1>3, <1>4 DEF Level

-----------------------------------------------------------------------------
(* The lock.                                                                *)

Neutral == {"xfer", "publish", "dispatch", "disable", "drain", "load", "enable"}

\* A task whose stack stays sees the same lock as long as it is another's.
LEMMA OtherLock ==
  ASSUME NEW u, TaskLock(u), todo'[u] = todo[u],
         mutex' = u <=> mutex = u, spi_bus_owner' = u <=> spi_bus_owner = u,
         spi_bus_owner = u => spi_bus_depth' = spi_bus_depth
  PROVE  TaskLock(u)'
  BY DEF TaskLock, Inside, At, Level

\* A step that is neither a lock nor an unlock.
LEMMA NeutralLock ==
  ASSUME TodoRight, LockRight, NEW t \in Task, todo[t] # <<>>,
         Head(todo[t]).op \in Neutral, Done(t), UNCHANGED lock
  PROVE  LockRight'
<1>1. /\ TodoRight' /\ \A u \in Task : u # t => todo'[u] = todo[u]
      /\ todo'[t] = <<>> => After(Head(todo[t])) = 0
      /\ todo'[t] # <<>> => /\ Head(todo'[t]).level = After(Head(todo[t]))
                           /\ Head(todo'[t]).op \in Plain
  BY DoneStep
<1>2. After(Head(todo[t])) = Level(t) /\ Level(t) \in Nat
  <2>1. Level(t) \in Nat
    BY Top
  <2>2. Head(todo[t]).op \notin {"lock", "own", "unlock", "disown", "give"}
    BY DEF Neutral
  <2>3. After(Head(todo[t])) = Head(todo[t]).level
    BY <2>2 DEF After
  <2> QED
    BY <2>1, <2>3 DEF Level
<1>3. TaskLock(t)
  BY DEF LockRight
<1>4. /\ mutex' = mutex /\ spi_bus_owner' = spi_bus_owner /\ spi_bus_depth' = spi_bus_depth
  BY DEF lock
<1>5. TaskLock(t)'
  <2>1. CASE todo'[t] = <<>>
    <3>1. ~ Inside(t) /\ ~ Inside(t)'
      BY <1>1, <1>2, <2>1 DEF Inside, Level, Neutral
    <3> QED
      BY <1>3, <1>4, <2>1, <3>1 DEF TaskLock, At
  <2>2. CASE todo'[t] # <<>>
    <3>1. Level(t)' = Level(t)
      BY <1>1, <1>2, <2>2 DEF Level
    <3>2. Head(todo'[t]).op \notin {"own", "disown", "give"}
      BY <1>1, <2>2 DEF Plain
    <3>3. (Inside(t)' <=> Level(t) >= 1) /\ (Inside(t) <=> Level(t) >= 1)
      BY <2>2, <3>1, <3>2 DEF Inside, Neutral
    <3> QED
      BY <1>3, <1>4, <2>2, <3>1, <3>2, <3>3 DEF TaskLock, At, Neutral
  <2> QED
    BY <2>1, <2>2
<1>6. \A u \in Task : u # t => TaskLock(u)'
  BY <1>1, <1>4, OtherLock DEF LockRight
<1> QED
  BY <1>4, <1>5, <1>6 DEF LockRight

\* A call begins outside of every lock.
LEMMA CallLock ==
  ASSUME TodoRight, LockRight, NEW t \in Task,
         \/ todo[t] = <<>>
         \/ At(t, "dispatch"),
         \A u \in Task : u # t => todo'[u] = todo[u],
         todo'[t] # <<>>,
         Head(todo'[t]).level = IF todo[t] = <<>> THEN 0 ELSE Level(t),
         Head(todo'[t]).op \in Plain, UNCHANGED lock
  PROVE  LockRight'
<1>1. TaskLock(t)
  BY DEF LockRight
<1>2. /\ mutex' = mutex /\ spi_bus_owner' = spi_bus_owner /\ spi_bus_depth' = spi_bus_depth
  BY DEF lock
<1>3. Head(todo'[t]).op \notin {"own", "disown", "give"}
  BY DEF Plain
<1>4. TaskLock(t)'
  <2>1. CASE todo[t] = <<>>
    <3>1. ~ Inside(t) /\ ~ Inside(t)'
      BY <1>3, <2>1 DEF Inside, Level
    <3> QED
      BY <1>1, <1>2, <1>3, <3>1 DEF TaskLock, At
  <2>2. CASE At(t, "dispatch") /\ todo[t] # <<>>
    <3>1. Level(t)' = Level(t) /\ (Inside(t)' <=> Inside(t))
      BY <1>3, <2>2 DEF Inside, Level, At
    <3> QED
      BY <1>1, <1>2, <1>3, <2>2, <3>1 DEF TaskLock, At
  <2> QED
    BY <2>1, <2>2
<1>5. \A u \in Task : u # t => TaskLock(u)'
  BY <1>2, OtherLock DEF LockRight
<1> QED
  BY <1>2, <1>4, <1>5 DEF LockRight

\* The three ways to come by the bus (link.c:80): nested, the mutex, the owner.
LEMMA LockByLock ==
  ASSUME TodoRight, LockRight, NEW t \in Task, LockNested(t) \/ Take(t) \/ Own(t)
  PROVE  TodoRight' /\ LockRight'
<1>1. TaskLock(t) /\ spi_bus_depth \in Nat
  BY DEF LockRight
<1>2. CASE LockNested(t)
  <2>1. At(t, "lock") /\ todo[t] # <<>> /\ Head(todo[t]).op = "lock" /\ spi_bus_owner = t
    BY <1>2 DEF LockNested, At
  <2>2. mutex = t /\ spi_bus_depth = Level(t) /\ Level(t) >= 1 /\ Level(t) \in Nat
    BY <1>1, <2>1, Top DEF TaskLock, At, Inside
  <2>3. /\ TodoRight' /\ \A u \in Task : u # t => todo'[u] = todo[u]
        /\ todo'[t] = <<>> => After(Head(todo[t])) = 0
        /\ todo'[t] # <<>> => /\ Head(todo'[t]).level = After(Head(todo[t]))
                             /\ Head(todo'[t]).op \in Plain
    BY <1>2, <2>1, DoneStep DEF LockNested
  <2>4. After(Head(todo[t])) = Level(t) + 1
    BY <2>1 DEF After, Level
  <2>5. todo'[t] # <<>> /\ Level(t)' = spi_bus_depth + 1
    BY <2>2, <2>3, <2>4 DEF Level
  <2>6. mutex' = mutex /\ spi_bus_owner' = spi_bus_owner /\ spi_bus_depth' = spi_bus_depth + 1
    BY <1>2 DEF LockNested
  <2>7. Head(todo'[t]).op \notin {"own", "disown", "give"}
    BY <2>3, <2>5 DEF Plain
  <2>8. Inside(t)'
    BY <2>2, <2>5 DEF Inside
  <2>9. TaskLock(t)'
    BY <2>1, <2>2, <2>5, <2>6, <2>7, <2>8 DEF TaskLock, At
  <2>10. \A u \in Task : u # t => TaskLock(u)'
    BY <2>1, <2>3, <2>6, OtherLock DEF LockRight
  <2> QED
    BY <1>1, <2>3, <2>6, <2>9, <2>10 DEF LockRight
<1>3. CASE Take(t)
  <2>1. At(t, "lock") /\ todo[t] # <<>> /\ Head(todo[t]).op = "lock" /\ spi_bus_owner # t /\ mutex = None
    BY <1>3 DEF Take, At
  <2>2. ~ Inside(t) /\ Level(t) \in Nat
    <3>1. mutex # t
      BY <2>1, LinkAssumption
    <3>2. ~ Inside(t)
      BY <1>1, <3>1 DEF TaskLock
    <3> QED
      BY <2>1, <3>2, Top
  <2>3. Level(t) = 0
    BY <2>1, <2>2 DEF Inside
  <2>4. /\ TodoRight' /\ \A u \in Task : u # t => todo'[u] = todo[u]
        /\ todo'[t] # <<>> /\ Head(todo'[t]).op = "own"
        /\ Head(todo'[t]).level = Head(todo[t]).level
    BY <1>3, <2>1, BecomesStep DEF Take
  <2>5. mutex' = t /\ spi_bus_owner' = spi_bus_owner /\ spi_bus_depth' = spi_bus_depth
    BY <1>3 DEF Take
  <2>6. TaskLock(t)'
    BY <2>1, <2>3, <2>4, <2>5 DEF TaskLock, Inside, At, Level
  <2>7. \A u \in Task : u # t => TaskLock(u)'
    BY <2>1, <2>4, <2>5, OtherLock, LinkAssumption DEF LockRight
  <2> QED
    BY <2>4, <2>5, <2>6, <2>7 DEF LockRight
<1>4. CASE Own(t)
  <2>1. At(t, "own") /\ todo[t] # <<>> /\ Head(todo[t]).op = "own"
    BY <1>4 DEF Own, At
  <2>2. mutex = t /\ spi_bus_owner # t /\ Level(t) = 0
    BY <1>1, <2>1 DEF TaskLock, Inside
  <2>3. /\ TodoRight' /\ \A u \in Task : u # t => todo'[u] = todo[u]
        /\ todo'[t] = <<>> => After(Head(todo[t])) = 0
        /\ todo'[t] # <<>> => /\ Head(todo'[t]).level = After(Head(todo[t]))
                             /\ Head(todo'[t]).op \in Plain
    BY <1>4, <2>1, DoneStep DEF Own
  <2>4. After(Head(todo[t])) = 1
    BY <2>1, <2>2 DEF After, Level
  <2>5. todo'[t] # <<>> /\ Level(t)' = 1
    BY <2>3, <2>4 DEF Level
  <2>6. Head(todo'[t]).op \notin {"own", "disown", "give"}
    BY <2>3, <2>5 DEF Plain
  <2>7. mutex' = mutex /\ spi_bus_owner' = t /\ spi_bus_depth' = 1
    BY <1>4 DEF Own
  <2>8. TaskLock(t)'
    BY <2>2, <2>5, <2>6, <2>7 DEF TaskLock, Inside, At
  <2>9. \A u \in Task : u # t => spi_bus_owner # u
    BY <2>2 DEF LockRight, TaskLock
  <2>10. \A u \in Task : u # t => TaskLock(u)'
    BY <2>3, <2>7, <2>9, OtherLock DEF LockRight
  <2> QED
    BY <2>3, <2>7, <2>8, <2>10 DEF LockRight
<1> QED
  BY <1>2, <1>3, <1>4

\* The three steps of giving the bus up: count down, clear the owner, the mutex.
LEMMA LockByUnlock ==
  ASSUME TodoRight, LockRight, NEW t \in Task, Unlock(t) \/ Disown(t) \/ Give(t)
  PROVE  TodoRight' /\ LockRight'
<1>1. TaskLock(t) /\ spi_bus_depth \in Nat
  BY DEF LockRight
<1>2. CASE Unlock(t)
  <2>1. At(t, "unlock") /\ todo[t] # <<>> /\ Head(todo[t]).op = "unlock"
    BY <1>2 DEF Unlock, At
  <2>2. Level(t) \in Nat /\ Level(t) >= 1
    <3>1. Len(todo[t]) \in Nat \ {0} /\ Head(todo[t]) = todo[t][1] /\ Level(t) \in Nat
      BY <2>1, Top
    <3>2. 1 \in 1 .. Len(todo[t]) /\ Locked(todo[t])
      BY <3>1, Stacks DEF StackRight
    <3>3. todo[t][1].level >= 1
      BY <2>1, <3>1, <3>2 DEF Locked
    <3> QED
      BY <3>1, <3>3 DEF Level
  <2>3. mutex = t /\ spi_bus_owner = t /\ spi_bus_depth = Level(t)
    BY <1>1, <2>1, <2>2 DEF TaskLock, Inside, At
  <2>4. mutex' = mutex /\ spi_bus_owner' = spi_bus_owner /\ spi_bus_depth' = Level(t) - 1
    BY <1>2, <2>3 DEF Unlock
  <2>5. CASE Level(t) = 1
    <3>1. Becomes(t, "disown")
      <4>1. ~ (spi_bus_depth' # 0)
        BY <2>4, <2>5
      <4> QED
        BY <1>2, <4>1 DEF Unlock
    <3>2. /\ TodoRight' /\ \A u \in Task : u # t => todo'[u] = todo[u]
          /\ todo'[t] # <<>> /\ Head(todo'[t]).op = "disown"
          /\ Head(todo'[t]).level = Head(todo[t]).level
      BY <2>1, <3>1, BecomesStep
    <3>3. TaskLock(t)'
      BY <2>3, <2>4, <2>5, <3>2 DEF TaskLock, Inside, At, Level
    <3>4. \A u \in Task : u # t => TaskLock(u)'
      BY <2>3, <2>4, <3>2, OtherLock DEF LockRight
    <3> QED
      BY <2>3, <2>4, <2>5, <3>2, <3>3, <3>4 DEF LockRight
  <2>6. CASE Level(t) # 1
    <3>1. Done(t)
      BY <1>2, <2>2, <2>4, <2>6 DEF Unlock
    <3>2. /\ TodoRight' /\ \A u \in Task : u # t => todo'[u] = todo[u]
          /\ todo'[t] = <<>> => After(Head(todo[t])) = 0
          /\ todo'[t] # <<>> => /\ Head(todo'[t]).level = After(Head(todo[t]))
                               /\ Head(todo'[t]).op \in Plain
      BY <2>1, <3>1, DoneStep
    <3>3. After(Head(todo[t])) = Level(t) - 1
      BY <2>1 DEF After, Level
    <3>4. todo'[t] # <<>> /\ Level(t)' = Level(t) - 1 /\ Level(t) - 1 >= 1
      BY <2>2, <2>6, <3>2, <3>3 DEF Level
    <3>5. Head(todo'[t]).op \notin {"own", "disown", "give"}
      BY <3>2, <3>4 DEF Plain
    <3>6. TaskLock(t)'
      BY <2>2, <2>3, <2>4, <3>4, <3>5 DEF TaskLock, Inside, At
    <3>7. \A u \in Task : u # t => TaskLock(u)'
      BY <2>3, <2>4, <3>2, OtherLock DEF LockRight
    <3> QED
      BY <2>2, <2>3, <2>4, <3>2, <3>6, <3>7 DEF LockRight
  <2> QED
    BY <2>5, <2>6
<1>3. CASE Disown(t)
  <2>1. At(t, "disown") /\ todo[t] # <<>> /\ Head(todo[t]).op = "disown"
    BY <1>3 DEF Disown, At
  <2>2. mutex = t /\ spi_bus_owner = t /\ Level(t) = 1
    BY <1>1, <2>1 DEF TaskLock, Inside
  <2>3. /\ TodoRight' /\ \A u \in Task : u # t => todo'[u] = todo[u]
        /\ todo'[t] # <<>> /\ Head(todo'[t]).op = "give"
        /\ Head(todo'[t]).level = Head(todo[t]).level
    BY <1>3, <2>1, BecomesStep DEF Disown
  <2>4. mutex' = mutex /\ spi_bus_owner' = None /\ spi_bus_depth' = spi_bus_depth
    BY <1>3 DEF Disown
  <2>5. TaskLock(t)'
    BY <2>2, <2>3, <2>4, LinkAssumption DEF TaskLock, Inside, At, Level
  <2>6. \A u \in Task : u # t => TaskLock(u)'
    BY <2>2, <2>3, <2>4, OtherLock, LinkAssumption DEF LockRight
  <2> QED
    BY <1>1, <2>2, <2>3, <2>4, <2>5, <2>6 DEF LockRight
<1>4. CASE Give(t)
  <2>1. At(t, "give") /\ todo[t] # <<>> /\ Head(todo[t]).op = "give"
    BY <1>4 DEF Give, At
  <2>2. mutex = t /\ spi_bus_owner # t /\ Level(t) = 1
    BY <1>1, <2>1 DEF TaskLock, Inside
  <2>3. /\ TodoRight' /\ \A u \in Task : u # t => todo'[u] = todo[u]
        /\ todo'[t] # <<>> => /\ Head(todo'[t]).level = After(Head(todo[t]))
                             /\ Head(todo'[t]).op \in Plain
    BY <1>4, <2>1, DoneStep DEF Give
  <2>4. After(Head(todo[t])) = 0
    BY <2>1, <2>2 DEF After, Level
  <2>5. mutex' = None /\ spi_bus_owner' = spi_bus_owner /\ spi_bus_depth' = spi_bus_depth
    BY <1>4 DEF Give
  <2>6. ~ Inside(t)' /\ ~ At(t, "own")' /\ ~ At(t, "disown")' /\ ~ At(t, "give")'
    BY <2>3, <2>4 DEF Inside, Level, At, Plain
  <2>7. TaskLock(t)'
    BY <2>2, <2>5, <2>6, LinkAssumption DEF TaskLock
  <2>8. \A u \in Task : u # t => TaskLock(u)'
    BY <2>2, <2>3, <2>5, OtherLock, LinkAssumption DEF LockRight
  <2> QED
    BY <1>1, <2>3, <2>5, <2>7, <2>8 DEF LockRight
<1> QED
  BY <1>2, <1>3, <1>4

-----------------------------------------------------------------------------
(* The replies under way.                                                   *)

\* Whoever publishes, transfers or loads a core holds the mutex.
LEMMA OnlyInside ==
  ASSUME TodoRight, LockRight, NEW t \in Task,
         \/ Publishing(t)
         \/ todo[t] # <<>> /\ Head(todo[t]).op \in {"unlock", "xfer", "publish", "load"}
  PROVE  mutex = t /\ Level(t) >= 1
<1>1. todo[t] # <<>> /\ Head(todo[t]).op \in {"unlock", "xfer", "publish", "load"}
  BY DEF Publishing, At
<1>2. Len(todo[t]) \in Nat \ {0} /\ Head(todo[t]) = todo[t][1] /\ Level(t) \in Nat
  BY <1>1, Top
<1>3. 1 \in 1 .. Len(todo[t]) /\ Locked(todo[t])
  BY <1>2, Stacks DEF StackRight
<1>4. todo[t][1].level >= 1
  BY <1>1, <1>2, <1>3 DEF Locked
<1>5. Level(t) >= 1 /\ Inside(t)
  BY <1>1, <1>2, <1>4 DEF Level, Inside
<1> QED
  BY <1>5 DEF LockRight, TaskLock

\* What the step behind one that is made may be.
LEMMA NextStep ==
  ASSUME TodoRight, NEW t \in Task, todo[t] # <<>>, Done(t), todo'[t] # <<>>
  PROVE  /\ Head(todo'[t]).op = "drain" => Head(todo[t]).op = "disable"
         /\ Head(todo'[t]).op = "load" => Head(todo[t]).op = "drain"
<1>1. Head(todo'[t]) = todo[t][2] /\ Len(todo[t]) >= 2
  BY DoneStep
<1>2. Head(todo[t]) = todo[t][1] /\ Len(todo[t]) \in Nat
  BY Top
<1>3. 2 \in 1 .. Len(todo[t]) /\ 2 - 1 = 1 /\ 2 >= 2 /\ Drained(todo[t])
  BY <1>1, <1>2, Stacks DEF StackRight
<1>4. /\ todo[t][2].op = "load" => todo[t][2 - 1].op = "drain"
      /\ todo[t][2].op = "drain" => todo[t][2 - 1].op = "disable"
  BY <1>3 DEF Drained
<1> QED
  BY <1>1, <1>2, <1>3, <1>4

\* A task that waits to publish goes on waiting while others make steps.
LEMMA GotStays ==
  ASSUME GotRight, NEW t \in Task, \A u \in Task : u # t => todo'[u] = todo[u],
         UNCHANGED <<got, core, frames>>, Publishing(t) => Publishing(t)'
  PROVE  GotRight'
<1>1. \A u \in Task : Publishing(u) => Publishing(u)'
  BY DEF Publishing, At, Level
<1> QED
  BY <1>1 DEF GotRight

\* The inner unlock of spi_send() leads to the publication.
LEMMA GotByUnlock ==
  ASSUME TodoRight, LockRight, GotRight, NEW t \in Task, Unlock(t)
  PROVE  GotRight'
<1>1. At(t, "unlock") /\ todo[t] # <<>> /\ Head(todo[t]).op = "unlock"
  BY DEF Unlock, At
<1>2. \A u \in Task : u # t => todo'[u] = todo[u]
  <2>1. Done(t) \/ Becomes(t, "disown")
    BY DEF Unlock
  <2> QED
    BY <1>1, <2>1, DoneStep, BecomesStep
<1>3. Publishing(t) => Publishing(t)'
  <2> SUFFICES ASSUME Publishing(t) PROVE Publishing(t)'
    OBVIOUS
  <2>1. Level(t) >= 2 /\ Len(todo[t]) >= 2 /\ todo[t][2].op = "publish"
    BY <1>1 DEF Publishing, At
  <2>2. Level(t) \in Nat /\ mutex = t
    BY <1>1, OnlyInside, Top
  <2>3. spi_bus_depth = Level(t)
    BY <1>1, <2>2 DEF LockRight, TaskLock, At
  <2>4. Done(t)
    <3>1. spi_bus_depth' # 0
      BY <2>1, <2>2, <2>3 DEF Unlock
    <3> QED
      BY <3>1 DEF Unlock
  <2>5. todo'[t] = <<>> => After(Head(todo[t])) = 0
    BY <1>1, <2>4, DoneStep
  <2>6. After(Head(todo[t])) = Level(t) - 1
    BY <1>1 DEF After, Level
  <2>7. todo'[t] # <<>>
    BY <2>1, <2>2, <2>5, <2>6
  <2>8. Head(todo'[t]) = todo[t][2]
    BY <1>1, <2>4, <2>7, DoneStep
  <2> QED
    BY <2>1, <2>7, <2>8 DEF Publishing, At
<1>4. UNCHANGED <<got, core, frames>>
  BY DEF Unlock
<1> QED
  BY <1>2, <1>3, <1>4, GotStays

\* The transfer takes place while nobody else has a reply.
LEMMA GotByXfer ==
  ASSUME TodoRight, LockRight, GotRight, QueueRight, NEW t \in Task, Xfer(t)
  PROVE  GotRight'
<1>1. At(t, "xfer") /\ todo[t] # <<>> /\ Head(todo[t]).op = "xfer" /\ Done(t)
  BY DEF Xfer, At
<1>2. mutex = t /\ Level(t) \in Nat
  BY <1>1, OnlyInside, Top
<1>3. \A u \in Task : u # t => got[u] = <<>>
  <2> SUFFICES ASSUME NEW u \in Task, u # t, got[u] # <<>> PROVE FALSE
    OBVIOUS
  <2>1. Publishing(u)
    BY DEF GotRight
  <2> QED
    BY <1>2, <2>1, OnlyInside
<1>4. Publishing(t)'
  <2>1. /\ 1 \in 1 .. Len(todo[t]) /\ Published(todo[t]) /\ Head(todo[t]) = todo[t][1]
        /\ Len(todo[t]) \in Nat /\ todo[t] \in Seq(StepType)
    BY <1>1, Top, Stacks DEF StackRight
  <2>2. /\ 1 + 2 <= Len(todo[t]) /\ todo[t][1].level >= 2
        /\ todo[t][1 + 1].op = "unlock" /\ todo[t][1 + 2].op = "publish"
    BY <1>1, <2>1 DEF Published
  <2>3. /\ todo'[t] = Tail(todo[t])
        /\ todo'[t] # <<>> => /\ Head(todo'[t]) = todo[t][2]
                             /\ Head(todo'[t]).level = After(Head(todo[t]))
    BY <1>1, DoneStep
  <2>4. Len(Tail(todo[t])) = Len(todo[t]) - 1 /\ Tail(todo[t])[2] = todo[t][2 + 1]
    BY <1>1, <2>1, <2>2, HeadTailProperties
  <2>5. Len(todo'[t]) >= 2 /\ todo'[t][2].op = "publish" /\ todo'[t] # <<>>
    <3>1. 1 + 2 = 3 /\ 2 + 1 = 3
      OBVIOUS
    <3>2. todo'[t][2].op = "publish"
      BY <2>2, <2>3, <2>4, <3>1
    <3>3. Len(todo'[t]) >= 2
      BY <2>1, <2>2, <2>3, <2>4
    <3>4. todo'[t] # <<>>
      BY <3>3
    <3> QED
      BY <3>2, <3>3, <3>4
  <2>6. After(Head(todo[t])) = Head(todo[t]).level
    BY <1>1 DEF After
  <2>7. Level(t)' >= 2 /\ Head(todo'[t]).op = "unlock"
    <3>1. 1 + 1 = 2
      OBVIOUS
    <3> QED
      BY <2>1, <2>2, <2>3, <2>5, <2>6, <3>1 DEF Level
  <2> QED
    BY <2>5, <2>7 DEF Publishing, At
<1>5. CASE /\ frames < MaxFrames /\ frames' = frames + 1
           /\ got' = [got EXCEPT ![t] = <<[id |-> frames + 1, core |-> core]>>]
  <2> DEFINE f == [id |-> frames + 1, core |-> core]
  <2>1. f \in Frame /\ f.id = frames' /\ f.core = core
    BY <1>5, LinkAssumption DEF QueueRight, Frame
  <2> HIDE DEF f
  <2>2. <<f>> \in Seq(Frame) /\ Len(<<f>>) = 1 /\ <<f>>[1] = f
    BY <2>1
  <2>3. got' = [got EXCEPT ![t] = <<f>>]
    BY <1>5 DEF f
  <2>4. got' \in [Task -> Seq(Frame)] /\ got'[t] = <<f>>
    BY <2>2, <2>3 DEF GotRight
  <2>5. \A u \in Task : u # t => got'[u] = <<>>
    BY <1>3, <2>3 DEF GotRight
  <2>6. core' = core
    BY DEF Xfer
  <2>7. Len(<<>>) = 0
    OBVIOUS
  <2>8. \A u \in Task :
          /\ Len(got'[u]) <= 1
          /\ got'[u] # <<>> => Publishing(u)' /\ got'[u][1].id = frames' /\ got'[u][1].core = core'
    <3> TAKE u \in Task
    <3>1. CASE u = t
      <4>1. Len(got'[t]) <= 1 /\ got'[t][1] = f
        BY <2>2, <2>4
      <4>2. got'[t][1].id = frames' /\ got'[t][1].core = core'
        BY <2>1, <2>6, <4>1
      <4> QED
        BY <1>4, <3>1, <4>1, <4>2
    <3>2. CASE u # t
      BY <2>5, <2>7, <3>2
    <3> QED
      BY <3>1, <3>2
  <2> QED
    BY <2>4, <2>8 DEF GotRight
<1>6. CASE got' = [got EXCEPT ![t] = <<>>] /\ UNCHANGED frames
  <2>1. got' \in [Task -> Seq(Frame)]
    BY <1>6 DEF GotRight
  <2>2. \A u \in Task : got'[u] = <<>>
    BY <1>3, <1>6 DEF GotRight
  <2> QED
    BY <2>1, <2>2 DEF GotRight
<1> QED
  BY <1>5, <1>6 DEF Xfer

\* The publication takes the reply away.
LEMMA GotByPublish ==
  ASSUME TodoRight, GotRight, NEW t \in Task, Publish(t)
  PROVE  GotRight'
<1>1. todo[t] # <<>> /\ Done(t) /\ got' = [got EXCEPT ![t] = <<>>] /\ UNCHANGED <<core, frames>>
  BY DEF Publish, At
<1>2. \A u \in Task : u # t => todo'[u] = todo[u]
  BY <1>1, DoneStep
<1>3. got' \in [Task -> Seq(Frame)] /\ got'[t] = <<>> /\ \A u \in Task : u # t => got'[u] = got[u]
  BY <1>1 DEF GotRight
<1>4. \A u \in Task : u # t => (Publishing(u)' <=> Publishing(u))
  BY <1>2 DEF Publishing, At, Level
<1>5. Len(<<>>) = 0
  OBVIOUS
<1>6. \A u \in Task :
        /\ Len(got'[u]) <= 1
        /\ got'[u] # <<>> => Publishing(u)' /\ got'[u][1].id = frames' /\ got'[u][1].core = core'
  BY <1>1, <1>3, <1>4, <1>5 DEF GotRight
<1> QED
  BY <1>3, <1>6 DEF GotRight

\* A core is loaded while no reply is under way.
LEMMA GotByLoad ==
  ASSUME TodoRight, LockRight, GotRight, NEW t \in Task, Load(t)
  PROVE  GotRight'
<1>1. At(t, "load") /\ todo[t] # <<>> /\ Head(todo[t]).op = "load"
  BY DEF Load, At
<1>2. mutex = t /\ ~ Publishing(t)
  BY <1>1, OnlyInside DEF Publishing, At
<1>3. \A u \in Task : got[u] = <<>>
  <2> SUFFICES ASSUME NEW u \in Task, got[u] # <<>> PROVE FALSE
    OBVIOUS
  <2>1. Publishing(u)
    BY DEF GotRight
  <2> QED
    BY <1>2, <2>1, OnlyInside
<1>4. got' = got
  BY DEF Load
<1> QED
  BY <1>3, <1>4 DEF GotRight

-----------------------------------------------------------------------------
(* The queue.                                                               *)

\* What the queue holds for a reply or a core load that is to come.
ForReplies ==
  \A t \in Task : got[t] # <<>> => \A i \in 1 .. Len(Arrived) : Arrived[i].id < frames
Shut ==
  /\ At(App, "drain") => ~link_rx_enabled
  /\ At(App, "load") => ~link_rx_enabled /\ link_rx_queue = <<>>

\* A step that leaves the queue alone, and the reception as long as a core load
\* is under way.
LEMMA QueueStays ==
  ASSUME QueueRight, link_rx_enabled' \in BOOLEAN,
         UNCHANGED <<link_rx_queue, link_rx_dropped, handled, core, frames>>,
         \A u \in Task : got'[u] # <<>> => got[u] # <<>>,
         At(App, "drain")' => ~ link_rx_enabled',
         At(App, "load")' => ~ link_rx_enabled' /\ link_rx_queue = <<>>
  PROVE  QueueRight'
<1>1. Arrived' = Arrived
  BY DEF Arrived
<1>2. InWireOrder'
  BY DEF QueueRight, InWireOrder
<1>3. ForReplies'
  BY <1>1 DEF QueueRight, ForReplies
<1> QED
  BY <1>1, <1>2, <1>3 DEF QueueRight, ForReplies

\* A step that is made brings APP to the draining or the loading only from the
\* step before.
LEMMA ShutByDone ==
  ASSUME TodoRight, NEW t \in Task, todo[t] # <<>>, Done(t),
         Head(todo[t]).op \notin {"disable", "drain"}
  PROVE  \A op \in {"drain", "load"} : At(App, op)' => At(App, op)
<1>1. \A u \in Task : u # t => todo'[u] = todo[u]
  BY DoneStep
<1>2. todo'[t] # <<>> => Head(todo'[t]).op \notin {"drain", "load"}
  BY NextStep
<1>3. CASE t = App
  BY <1>2, <1>3 DEF At
<1>4. CASE t # App
  BY <1>1, <1>4, LinkAssumption DEF At
<1> QED
  BY <1>3, <1>4

\* Most steps leave the queue alone.
LEMMA QueueByDone ==
  ASSUME TodoRight, QueueRight, NEW t \in Task, todo[t] # <<>>, Done(t),
         Head(todo[t]).op \notin {"disable", "drain"},
         UNCHANGED <<link_rx_enabled, link_rx_queue, link_rx_dropped, handled, core, frames>>,
         \A u \in Task : got'[u] # <<>> => got[u] # <<>>
  PROVE  QueueRight'
<1>1. /\ At(App, "drain")' => At(App, "drain")
      /\ At(App, "load")' => At(App, "load")
  BY ShutByDone
<1> QED
  BY <1>1, QueueStays DEF QueueRight

\* So do those that put something else on top of a stack.
LEMMA QueueByOther ==
  ASSUME QueueRight, NEW t \in Task, \A u \in Task : u # t => todo'[u] = todo[u],
         todo'[t] # <<>>, Head(todo'[t]).op \notin {"drain", "load"},
         UNCHANGED <<link_rx_enabled, link_rx_queue, link_rx_dropped, handled, core, frames, got>>
  PROVE  QueueRight'
<1>1. /\ At(App, "drain")' => At(App, "drain")
      /\ At(App, "load")' => At(App, "load")
  <2>1. CASE t = App
    BY <2>1 DEF At
  <2>2. CASE t # App
    BY <2>2, LinkAssumption DEF At
  <2> QED
    BY <2>1, <2>2
<1> QED
  BY <1>1, QueueStays DEF QueueRight

\* The transfer makes a frame that is newer than every other.
LEMMA QueueByXfer ==
  ASSUME TodoRight, LockRight, GotRight, QueueRight, NEW t \in Task, Xfer(t)
  PROVE  QueueRight'
<1>1. todo[t] # <<>> /\ Head(todo[t]).op = "xfer" /\ Done(t)
  BY DEF Xfer, At
<1>2. /\ UNCHANGED <<link_rx_enabled, link_rx_queue, link_rx_dropped, handled, core>>
  BY DEF Xfer, rx
<1>3. CASE frames < MaxFrames /\ frames' = frames + 1
  <2>1. frames' \in 0 .. MaxFrames
    BY <1>3, LinkAssumption DEF QueueRight
  <2>2. Arrived' = Arrived
    BY <1>2 DEF Arrived
  <2>3. InWireOrder'
    BY <1>2 DEF QueueRight, InWireOrder
  <2>4. handled \in Seq(Frame) /\ link_rx_queue \in Seq(Frame)
    BY DEF QueueRight
  <2>5. Arrived \in Seq(Frame)
    BY <2>4, ConcatProperties DEF Arrived
  <2>6. \A i \in 1 .. Len(Arrived) : Arrived[i].id < frames'
    <3> TAKE i \in 1 .. Len(Arrived)
    <3>1. Arrived[i] \in Frame /\ Arrived[i].id <= frames
      BY <2>5, ElementOfSeq DEF QueueRight
    <3> QED
      BY <1>3, <3>1, LinkAssumption DEF Frame, QueueRight
  <2>7. \A i \in 1 .. Len(Arrived) : Arrived[i].id <= frames'
    <3> TAKE i \in 1 .. Len(Arrived)
    <3>1. Arrived[i] \in Frame /\ Arrived[i].id < frames'
      BY <2>5, <2>6, ElementOfSeq
    <3> QED
      BY <2>1, <3>1, LinkAssumption DEF Frame
  <2>8. Shut'
    BY <1>1, <1>2, ShutByDone DEF QueueRight, Shut
  <2> QED
    BY <1>2, <2>1, <2>2, <2>3, <2>6, <2>7, <2>8 DEF QueueRight, Shut
<1>4. CASE got' = [got EXCEPT ![t] = <<>>] /\ UNCHANGED frames
  <2>1. \A u \in Task : got'[u] # <<>> => got[u] # <<>>
    BY <1>4 DEF GotRight
  <2> QED
    BY <1>1, <1>2, <1>4, <2>1, QueueByDone
<1> QED
  BY <1>3, <1>4 DEF Xfer

\* A reply that is published is the newest in the queue.
LEMMA QueueByPublish ==
  ASSUME TodoRight, LockRight, GotRight, QueueRight, NEW t \in Task, Publish(t)
  PROVE  QueueRight'
<1>1. todo[t] # <<>> /\ Head(todo[t]).op = "publish" /\ Done(t)
  BY DEF Publish, At
<1>2. UNCHANGED <<link_rx_enabled, handled, core, frames>>
  BY DEF Publish
<1>3. got'[t] = <<>> /\ \A u \in Task : u # t => got'[u] = got[u]
  BY DEF Publish, GotRight
<1>4. \A u \in Task : got'[u] = <<>>
  <2> SUFFICES ASSUME NEW u \in Task, u # t, got[u] # <<>> PROVE FALSE
    BY <1>3
  <2>1. Publishing(u)
    BY DEF GotRight
  <2> QED
    BY <1>1, <2>1, OnlyInside
<1>5. CASE UNCHANGED <<link_rx_queue, link_rx_dropped>>
  BY <1>1, <1>2, <1>4, <1>5, QueueByDone
<1>6. CASE UNCHANGED link_rx_queue /\ link_rx_dropped' = link_rx_dropped + 1
  <2>1. Arrived' = Arrived /\ InWireOrder' /\ link_rx_dropped' \in Nat
    BY <1>2, <1>6 DEF Arrived, QueueRight, InWireOrder
  <2>2. Shut'
    BY <1>1, <1>2, <1>6, ShutByDone DEF QueueRight, Shut
  <2> QED
    BY <1>2, <1>4, <1>6, <2>1, <2>2 DEF QueueRight, Shut
<1>7. CASE /\ got[t] # <<>> /\ link_rx_enabled /\ Len(link_rx_queue) < QueueSize
           /\ link_rx_queue' = link_rx_queue \o got[t] /\ UNCHANGED link_rx_dropped
  <2> DEFINE g == got[t]
             q == link_rx_queue
             a == handled \o link_rx_queue
             m == Len(a)
  <2>1. /\ g \in Seq(Frame) /\ g # <<>> /\ Len(g) <= 1 /\ g[1].id = frames /\ g[1].core = core
    BY <1>7 DEF GotRight
  <2>2. Len(g) = 1 /\ g[1] \in Frame
    <3> HIDE DEF g
    <3>1. Len(g) \in Nat \ {0}
      BY <2>1, EmptySeq, LenProperties
    <3>4. \A n \in Nat \ {0} : n <= 1 => n = 1
      OBVIOUS
    <3>2. Len(g) = 1
      <4>1. Len(g) <= 1
        BY <2>1
      <4> QED
        BY <3>1, <3>4, <4>1
    <3>3. 1 \in 1 .. Len(g)
      BY <3>2
    <3> QED
      BY <2>1, <3>2, <3>3, ElementOfSeq
  <2>3. handled \in Seq(Frame) /\ q \in Seq(Frame)
    BY DEF QueueRight
  <2>4. a \in Seq(Frame) /\ m \in Nat /\ Len(q) \in Nat
    BY <2>3, ConcatProperties, LenProperties
  <2>5. handled \o (q \o g) = a \o g
    <3> HIDE DEF g, q
    <3>1. (handled \o q) \o g = handled \o (q \o g)
      BY <2>1, <2>3, ConcatAssociative
    <3> QED
      BY <3>1 DEF q
  <2>6. /\ \A i \in 1 .. m : a[i] \in Frame /\ a[i].id < frames
    BY <1>7, <2>4, ElementOfSeq DEF QueueRight, Arrived
  <2>7. \A i, j \in 1 .. m : i < j => a[i].id < a[j].id
    BY DEF QueueRight, InWireOrder
  <2>8. /\ \A i \in 1 .. Len(q) : q[i].core = core
    BY DEF QueueRight
  <2> HIDE DEF g, q, a
  <2>9. /\ Len(a \o g) = m + 1
        /\ \A i \in 1 .. m : (a \o g)[i] = a[i]
        /\ (a \o g)[m + 1] = g[1]
    <3>1. 1 \in 1 .. Len(g)
      BY <2>2
    <3>2. a \in Seq(Frame) /\ g \in Seq(Frame) /\ Len(g) = 1
      BY <2>1, <2>2, <2>4
    <3>3. /\ Len(a \o g) = Len(a) + Len(g)
          /\ \A i \in 1 .. Len(a) : (a \o g)[i] = a[i]
          /\ \A i \in 1 .. Len(g) : (a \o g)[Len(a) + i] = g[i]
      BY <3>2, JoinElements
    <3> QED
      BY <2>4, <3>1, <3>2, <3>3
  <2>10. /\ q \o g \in Seq(Frame) /\ Len(q \o g) = Len(q) + 1
         /\ \A i \in 1 .. Len(q) : (q \o g)[i] = q[i]
         /\ (q \o g)[Len(q) + 1] = g[1]
    <3>1. 1 \in 1 .. Len(g)
      BY <2>2
    <3>2. q \in Seq(Frame) /\ g \in Seq(Frame) /\ Len(g) = 1
      BY <2>1, <2>2, <2>3
    <3>3. /\ q \o g \in Seq(Frame) /\ Len(q \o g) = Len(q) + Len(g)
          /\ \A i \in 1 .. Len(q) : (q \o g)[i] = q[i]
          /\ \A i \in 1 .. Len(g) : (q \o g)[Len(q) + i] = g[i]
      BY <3>2, JoinElements
    <3> QED
      BY <3>1, <3>2, <3>3
  <2>11. handled' \o link_rx_queue' = a \o g
    BY <1>2, <1>7, <2>5 DEF q, g
  <2>12. \A i \in 1 .. m + 1 : i \in 1 .. m \/ i = m + 1
    BY <2>4
  <2>13. frames \in Nat
    BY DEF QueueRight
  <2>14. \A i \in 1 .. m + 1 : (a \o g)[i].id <= frames
    BY <2>1, <2>6, <2>9, <2>12, <2>13 DEF Frame
  <2>15. \A i, j \in 1 .. m + 1 : i < j => (a \o g)[i].id < (a \o g)[j].id
    <3> SUFFICES ASSUME NEW i \in 1 .. m + 1, NEW j \in 1 .. m + 1, i < j
                 PROVE  (a \o g)[i].id < (a \o g)[j].id
      OBVIOUS
    <3>1. i \in 1 .. m
      BY <2>4
    <3> QED
      BY <2>1, <2>6, <2>7, <2>9, <2>12, <3>1
  <2>16. InWireOrder'
    BY <2>9, <2>11, <2>15 DEF InWireOrder
  <2>17. \A i \in 1 .. Len(Arrived') : Arrived'[i].id <= frames'
    BY <1>2, <2>9, <2>11, <2>14 DEF Arrived
  <2>18. /\ link_rx_queue' \in Seq(Frame) /\ Len(link_rx_queue') <= QueueSize
         /\ \A i \in 1 .. Len(link_rx_queue') : link_rx_queue'[i].core = core'
    <3>1. link_rx_queue' = q \o g
      BY <1>7 DEF q, g
    <3>2. \A i \in 1 .. Len(q) + 1 : i \in 1 .. Len(q) \/ i = Len(q) + 1
      BY <2>4
    <3>3. Len(q) < QueueSize
      BY <1>7 DEF q
    <3> QED
      BY <1>2, <2>1, <2>4, <2>8, <2>10, <3>1, <3>2, <3>3, LinkAssumption
  <2>19. Shut'
    BY <1>1, <1>2, <1>7, ShutByDone DEF QueueRight, Shut
  <2> QED
    BY <1>2, <1>4, <1>7, <2>16, <2>17, <2>18, <2>19 DEF QueueRight, Shut
<1> QED
  BY <1>5, <1>6, <1>7 DEF Publish

\* The frame that is handled goes from the front of the queue to the end of
\* what was handled.
LEMMA QueueByDispatch ==
  ASSUME TodoRight, QueueRight, NEW t \in Task, Dispatch(t),
         \A u \in Task : u # t => todo'[u] = todo[u],
         todo'[t] # <<>>, Head(todo'[t]).op \notin {"drain", "load"}
  PROVE  QueueRight'
<1> DEFINE q == link_rx_queue
           h == handled
<1>1. /\ q # <<>> /\ h' = Append(h, Head(q)) /\ q' = Tail(q)
      /\ UNCHANGED <<got, link_rx_enabled, link_rx_dropped, core, frames>>
  BY DEF Dispatch
<1>2. h \in Seq(Frame) /\ q \in Seq(Frame)
  BY DEF QueueRight
<1>3. /\ Tail(q) \in Seq(Frame) /\ Len(Tail(q)) = Len(q) - 1 /\ Head(q) = q[1] /\ Head(q) \in Frame
      /\ Len(q) \in Nat \ {0} /\ \A i \in 1 .. Len(q) - 1 : Tail(q)[i] = q[i + 1]
  BY <1>1, <1>2, HeadTailProperties, EmptySeq
<1>4. h' = h \o <<Head(q)>> /\ h' \in Seq(Frame)
  BY <1>1, <1>2, <1>3, AppendIsConcat, AppendProperties
<1>5. <<Head(q)>> \o Tail(q) = q
  BY <1>1, <1>2, <1>3, ConcatProperties
<1>6. h' \o q' = h \o q
  <2>1. <<Head(q)>> \in Seq(Frame)
    BY <1>3
  <2>2. (h \o <<Head(q)>>) \o Tail(q) = h \o (<<Head(q)>> \o Tail(q))
    BY <1>2, <1>3, <2>1, ConcatAssociative
  <2> QED
    BY <1>1, <1>4, <1>5, <2>2
<1>7. Arrived' = Arrived /\ InWireOrder'
  BY <1>6 DEF Arrived, QueueRight, InWireOrder
<1>8. \A i \in 1 .. Len(q') : q'[i].core = core'
  <2> SUFFICES ASSUME NEW i \in 1 .. Len(q) - 1 PROVE Tail(q)[i].core = core
    BY <1>1, <1>3
  <2>1. i + 1 \in 1 .. Len(q)
    BY <1>3
  <2> QED
    BY <1>3, <2>1 DEF QueueRight
<1>9. Shut'
  <2>1. CASE t = App
    BY <2>1 DEF Shut, At
  <2>2. CASE t # App
    <3>1. todo[t] # <<>> /\ Head(todo[t]).op = "dispatch"
      BY DEF Dispatch, At
    <3> QED
      BY <2>2, <3>1, Top DEF AppOnly
  <2> QED
    BY <2>1, <2>2
<1>10. Len(q') <= QueueSize
  BY <1>1, <1>3, LinkAssumption DEF QueueRight
<1> QED
  BY <1>1, <1>3, <1>4, <1>7, <1>8, <1>9, <1>10 DEF QueueRight, Shut

\* Reception is shut off before the queue is drained.
LEMMA QueueByDisable ==
  ASSUME TodoRight, QueueRight, NEW t \in Task, Disable(t)
  PROVE  QueueRight'
<1>1. todo[t] # <<>> /\ Head(todo[t]).op = "disable" /\ Done(t)
  BY DEF Disable, At
<1>2. /\ link_rx_enabled' = FALSE
      /\ UNCHANGED <<link_rx_queue, link_rx_dropped, handled, core, frames, got>>
  BY DEF Disable
<1>3. t = App
  BY <1>1, Top DEF AppOnly
<1>4. ~ At(App, "load")'
  BY <1>1, <1>3, NextStep DEF At
<1> QED
  BY <1>2, <1>4, QueueStays

\* Draining leaves what was handled.
LEMMA QueueByDrain ==
  ASSUME TodoRight, QueueRight, NEW t \in Task, Drain(t)
  PROVE  QueueRight'
<1>1. todo[t] # <<>> /\ Head(todo[t]).op = "drain" /\ Done(t) /\ At(t, "drain")
  BY DEF Drain, At
<1>2. link_rx_queue' = <<>> /\ UNCHANGED <<got, link_rx_enabled, link_rx_dropped, core, frames, handled>>
  BY DEF Drain
<1>3. t = App
  BY <1>1, Top DEF AppOnly
<1>4. ~ link_rx_enabled
  BY <1>1, <1>3 DEF QueueRight
<1> DEFINE q == link_rx_queue
           h == handled
<1>5. h \in Seq(Frame) /\ q \in Seq(Frame)
  BY DEF QueueRight
<1>6. Arrived' = h
  BY <1>2, <1>5, ConcatEmptySeq DEF Arrived
<1>7. /\ Len(h) \in Nat /\ Len(q) \in Nat /\ Len(h \o q) = Len(h) + Len(q)
      /\ \A i \in 1 .. Len(h) : (h \o q)[i] = h[i]
  BY <1>5, JoinElements
<1>8. \A i \in 1 .. Len(h) : i \in 1 .. Len(h \o q)
  BY <1>7
<1>9. InWireOrder'
  <2>1. \A i, j \in 1 .. Len(h) : i < j => h[i].id < h[j].id
    BY <1>7, <1>8 DEF QueueRight, InWireOrder
  <2> QED
    BY <1>6, <2>1 DEF Arrived, InWireOrder
<1>10. \A i \in 1 .. Len(Arrived') : Arrived'[i].id <= frames'
  BY <1>2, <1>6, <1>7, <1>8 DEF QueueRight, Arrived
<1>11. \A u \in Task : got'[u] # <<>> => \A i \in 1 .. Len(Arrived') : Arrived'[i].id < frames'
  BY <1>2, <1>6, <1>7, <1>8 DEF QueueRight, Arrived
<1>12. Len(<<>>) = 0 /\ <<>> \in Seq(Frame)
  OBVIOUS
<1> QED
  BY <1>2, <1>4, <1>9, <1>10, <1>11, <1>12, LinkAssumption DEF QueueRight

\* The next core starts with an empty queue.
LEMMA QueueByLoad ==
  ASSUME TodoRight, LockRight, GotRight, QueueRight, NEW t \in Task, Load(t)
  PROVE  QueueRight'
<1>1. todo[t] # <<>> /\ Head(todo[t]).op = "load" /\ Done(t) /\ At(t, "load")
  BY DEF Load, At
<1>2. core' = core + 1 /\ UNCHANGED <<got, link_rx_enabled, link_rx_queue, link_rx_dropped, frames, handled>>
  BY DEF Load, rx
<1>3. t = App
  BY <1>1, Top DEF AppOnly
<1>4. link_rx_queue = <<>>
  BY <1>1, <1>3 DEF QueueRight
<1>5. Shut'
  BY <1>1, <1>2, <1>3, NextStep DEF Shut, At
<1>6. Arrived' = Arrived /\ InWireOrder' /\ core' \in Nat
  BY <1>2 DEF Arrived, QueueRight, InWireOrder
<1>7. \A i \in 1 .. Len(link_rx_queue') : link_rx_queue'[i].core = core'
  BY <1>2, <1>4
<1> QED
  BY <1>2, <1>5, <1>6, <1>7 DEF QueueRight, Shut

\* Reception goes on after the load.
LEMMA QueueByEnable ==
  ASSUME TodoRight, QueueRight, NEW t \in Task, Enable(t)
  PROVE  QueueRight'
<1>1. todo[t] # <<>> /\ Head(todo[t]).op = "enable" /\ Done(t)
  BY DEF Enable, At
<1>2. /\ link_rx_enabled' = TRUE
      /\ UNCHANGED <<link_rx_queue, link_rx_dropped, handled, core, frames, got>>
  BY DEF Enable
<1>3. t = App
  BY <1>1, Top DEF AppOnly
<1>4. ~ At(App, "load")' /\ ~ At(App, "drain")'
  BY <1>1, <1>3, NextStep DEF At
<1> QED
  BY <1>2, <1>4, QueueStays

-----------------------------------------------------------------------------
(* The invariant.                                                           *)

\* At boot no task is in a call and nothing was sent.
LEMMA InitRight ==
  ASSUME Init
  PROVE  LinkInv
<1>1. \A t \in Task : todo[t] = <<>> /\ got[t] = <<>>
  BY DEF Init
<1>2. \A S : <<>> \in Seq(S)
  OBVIOUS
<1>3. Len(<<>>) = 0
  OBVIOUS
<1>4. StackRight(<<>>) /\ HalfFirst(<<>>)
  BY <1>2, <1>3 DEF StackRight, HalfFirst, Linked, Ends, Locked, Published, Drained, Kept
<1>5. TodoRight
  <2>1. todo \in [Task -> Seq(StepType)]
    BY <1>2 DEF Init
  <2> QED
    BY <1>1, <1>2, <1>4, <2>1 DEF TodoRight
<1>6. LockRight
  BY <1>1, LinkAssumption DEF Init, LockRight, TaskLock, Inside, At
<1>7. GotRight
  <2>1. got \in [Task -> Seq(Frame)]
    BY <1>2 DEF Init
  <2> QED
    BY <1>1, <1>3, <2>1 DEF GotRight
<1>8. QueueRight
  <2>1. Arrived = <<>> /\ handled = <<>> /\ link_rx_queue = <<>>
    BY <1>2, ConcatEmptySeq DEF Arrived, Init
  <2>2. InWireOrder
    BY <1>3, <2>1 DEF InWireOrder, Arrived
  <2>3. ~ At(App, "drain") /\ ~ At(App, "load")
    BY <1>1, LinkAssumption DEF At
  <2> QED
    BY <1>1, <1>2, <1>3, <2>1, <2>2, <2>3, LinkAssumption DEF Init, QueueRight
<1> QED
  BY <1>5, <1>6, <1>7, <1>8 DEF LinkInv

\* A step that is neither of the lock nor of the replies nor of the queue, or
\* that works on the queue alone.
LEMMA NeutralStep ==
  ASSUME TodoRight, LockRight, GotRight, NEW t \in Task, todo[t] # <<>>, Done(t),
         Head(todo[t]).op \in Neutral \ {"publish"},
         UNCHANGED <<lock, got, core, frames>>
  PROVE  TodoRight' /\ LockRight' /\ GotRight'
<1>1. TodoRight' /\ \A u \in Task : u # t => todo'[u] = todo[u]
  BY DoneStep
<1>2. LockRight'
  BY NeutralLock
<1>3. ~ Publishing(t)
  BY DEF Publishing, At, Neutral
<1> QED
  BY <1>1, <1>2, <1>3, GotStays

\* Every step of a call keeps the invariant.
LEMMA GoesRight ==
  ASSUME LinkInv, NEW t \in Task, Goes(t) \/ Take(t)
  PROVE  LinkInv'
<1> USE DEF LinkInv
<1>1. CASE LockNested(t) \/ Take(t) \/ Own(t)
  <2>1. TodoRight' /\ LockRight'
    BY <1>1, LockByLock
  <2>2. /\ todo[t] # <<>> /\ Head(todo[t]).op \in {"lock", "own"}
        /\ Done(t) \/ (Head(todo[t]).op = "lock" /\ Becomes(t, "own"))
        /\ UNCHANGED <<got, rx, core, frames, handled>>
    BY <1>1 DEF LockNested, Take, Own, At
  <2>3. \A u \in Task : u # t => todo'[u] = todo[u]
    BY <2>2, DoneStep, BecomesStep
  <2>4. ~ Publishing(t)
    BY <2>2 DEF Publishing, At
  <2>5. GotRight'
    BY <2>2, <2>3, <2>4, GotStays
  <2>6. QueueRight'
    <3>1. CASE Done(t)
      BY <2>2, <3>1, QueueByDone DEF rx
    <3>2. CASE Head(todo[t]).op = "lock" /\ Becomes(t, "own")
      <4>1. todo'[t] # <<>> /\ Head(todo'[t]).op = "own"
        BY <2>2, <3>2, BecomesStep
      <4> QED
        BY <2>2, <2>3, <4>1, QueueByOther DEF rx
    <3> QED
      BY <2>2, <3>1, <3>2
  <2> QED
    BY <2>1, <2>5, <2>6
<1>2. CASE Unlock(t) \/ Disown(t) \/ Give(t)
  <2>1. TodoRight' /\ LockRight'
    BY <1>2, LockByUnlock
  <2>2. /\ todo[t] # <<>> /\ Head(todo[t]).op \in {"unlock", "disown", "give"}
        /\ \/ Done(t)
           \/ Head(todo[t]).op = "unlock" /\ Becomes(t, "disown")
           \/ Head(todo[t]).op = "disown" /\ Becomes(t, "give")
        /\ UNCHANGED <<got, rx, core, frames, handled>>
    BY <1>2 DEF Unlock, Disown, Give, At
  <2>3. \A u \in Task : u # t => todo'[u] = todo[u]
    BY <2>2, DoneStep, BecomesStep
  <2>4. GotRight'
    <3>1. CASE Unlock(t)
      BY <3>1, GotByUnlock
    <3>2. CASE Disown(t) \/ Give(t)
      <4>1. ~ Publishing(t)
        BY <3>2 DEF Publishing, At, Disown, Give
      <4> QED
        BY <2>2, <2>3, <4>1, GotStays
    <3> QED
      BY <1>2, <3>1, <3>2
  <2>5. QueueRight'
    <3>1. CASE Done(t)
      BY <2>2, <3>1, QueueByDone DEF rx
    <3>2. CASE \/ Head(todo[t]).op = "unlock" /\ Becomes(t, "disown")
               \/ Head(todo[t]).op = "disown" /\ Becomes(t, "give")
      <4>1. todo'[t] # <<>> /\ Head(todo'[t]).op \in {"disown", "give"}
        BY <2>2, <3>2, BecomesStep
      <4> QED
        BY <2>2, <2>3, <4>1, QueueByOther DEF rx
    <3> QED
      BY <2>2, <3>1, <3>2
  <2> QED
    BY <2>1, <2>4, <2>5
<1>3. CASE Xfer(t)
  <2>1. todo[t] # <<>> /\ Head(todo[t]).op \in Neutral /\ Done(t) /\ UNCHANGED lock
    BY <1>3 DEF Xfer, At, Neutral
  <2> QED
    BY <1>3, <2>1, DoneStep, NeutralLock, GotByXfer, QueueByXfer
<1>4. CASE Publish(t)
  <2>1. todo[t] # <<>> /\ Head(todo[t]).op \in Neutral /\ Done(t) /\ UNCHANGED lock
    BY <1>4 DEF Publish, At, Neutral
  <2> QED
    BY <1>4, <2>1, DoneStep, NeutralLock, GotByPublish, QueueByPublish
<1>5. CASE Dispatch(t)
  <2>1. /\ At(t, "dispatch") /\ todo[t] # <<>> /\ Head(todo[t]).op = "dispatch"
        /\ UNCHANGED <<lock, got, core, frames>>
    BY <1>5 DEF Dispatch, At
  <2>2. ~ Publishing(t)
    BY <2>1 DEF Publishing, At
  <2>3. CASE UNCHANGED todo
    <3>1. TodoRight'
      BY <2>3 DEF TodoRight, StackRight, Linked, Ends, Locked, HalfFirst, Published, Drained, Kept
    <3>2. \A u \in Task : u # t => todo'[u] = todo[u]
      BY <2>3
    <3>3. /\ todo'[t] # <<>> /\ Head(todo'[t]).op = "dispatch"
          /\ Head(todo'[t]).level = IF todo[t] = <<>> THEN 0 ELSE Level(t)
      BY <2>1, <2>3 DEF Level
    <3>4. LockRight'
      BY <2>1, <3>2, <3>3, CallLock DEF Plain, Ops
    <3>5. GotRight'
      BY <2>1, <2>2, <3>2, GotStays
    <3>6. QueueRight'
      BY <1>5, <3>2, <3>3, QueueByDispatch
    <3> QED
      BY <3>1, <3>4, <3>5, <3>6
  <2>4. CASE todo' = [todo EXCEPT ![t] = spi_send(t, Level(t), "frame") \o @]
    <3>1. TodoRight' /\ \A u \in Task : u # t => todo'[u] = todo[u]
      BY <2>1, <2>4, HandlerStep
    <3>2. /\ todo'[t] # <<>> /\ Head(todo'[t]).op = "lock"
          /\ Head(todo'[t]).level = IF todo[t] = <<>> THEN 0 ELSE Level(t)
      BY <2>1, <2>4, HandlerStep
    <3>3. LockRight'
      BY <2>1, <3>1, <3>2, CallLock DEF Plain, Ops
    <3>4. GotRight'
      BY <2>1, <2>2, <3>1, GotStays
    <3>5. QueueRight'
      BY <1>5, <3>1, <3>2, QueueByDispatch
    <3> QED
      BY <3>1, <3>3, <3>4, <3>5
  <2> QED
    BY <1>5, <2>3, <2>4 DEF Dispatch
<1>6. CASE DispatchEnd(t)
  <2>1. /\ todo[t] # <<>> /\ Head(todo[t]).op = "dispatch" /\ Done(t)
        /\ UNCHANGED <<lock, got, rx, core, frames, handled>>
    BY <1>6 DEF DispatchEnd, At
  <2>2. TodoRight' /\ LockRight' /\ GotRight'
    BY <2>1, NeutralStep DEF Neutral
  <2> QED
    BY <2>1, <2>2, QueueByDone DEF rx
<1>7. CASE Disable(t)
  <2>1. /\ todo[t] # <<>> /\ Head(todo[t]).op \in Neutral \ {"publish"} /\ Done(t)
        /\ UNCHANGED <<lock, got, core, frames>>
    BY <1>7 DEF Disable, At, Neutral
  <2> QED
    BY <1>7, <2>1, NeutralStep, QueueByDisable
<1>8. CASE Drain(t)
  <2>1. /\ todo[t] # <<>> /\ Head(todo[t]).op \in Neutral \ {"publish"} /\ Done(t)
        /\ UNCHANGED <<lock, got, core, frames>>
    BY <1>8 DEF Drain, At, Neutral
  <2> QED
    BY <1>8, <2>1, NeutralStep, QueueByDrain
<1>9. CASE Load(t)
  <2>1. todo[t] # <<>> /\ Head(todo[t]).op \in Neutral /\ Done(t) /\ UNCHANGED lock
    BY <1>9 DEF Load, At, Neutral
  <2> QED
    BY <1>9, <2>1, DoneStep, NeutralLock, GotByLoad, QueueByLoad
<1>10. CASE Enable(t)
  <2>1. /\ todo[t] # <<>> /\ Head(todo[t]).op \in Neutral \ {"publish"} /\ Done(t)
        /\ UNCHANGED <<lock, got, core, frames>>
    BY <1>10 DEF Enable, At, Neutral
  <2> QED
    BY <1>10, <2>1, NeutralStep, QueueByEnable
<1> QED
  BY <1>1, <1>2, <1>3, <1>4, <1>5, <1>6, <1>7, <1>8, <1>9, <1>10 DEF Goes

\* So does a call that starts.
LEMMA CallRight ==
  ASSUME LinkInv, NEW t \in Task, todo[t] = <<>>, NEW s, Segment(s, 0, 0), Kept(s),
         s \in Seq(StepOf(t)), todo' = [todo EXCEPT ![t] = s],
         UNCHANGED <<lock, got, rx, core, frames, handled>>
  PROVE  LinkInv'
<1> USE DEF LinkInv
<1>1. /\ TodoRight' /\ \A u \in Task : u # t => todo'[u] = todo[u]
      /\ todo'[t] # <<>> /\ Head(todo'[t]).level = 0
      /\ Head(todo'[t]).op \in Plain \ {"drain", "load", "unlock", "xfer", "publish"}
  BY CallStep
<1>2. LockRight'
  BY <1>1, CallLock
<1>3. ~ Publishing(t)
  BY DEF Publishing, At
<1>4. GotRight'
  BY <1>1, <1>3, GotStays
<1>5. QueueRight'
  BY <1>1, QueueByOther DEF rx
<1> QED
  BY <1>1, <1>2, <1>4, <1>5

\* Every step of the specification keeps the invariant.
LEMMA NextRight ==
  ASSUME LinkInv, [Next]_vars
  PROVE  LinkInv'
<1>1. CASE Loop
  <2> DEFINE s == <<Step("dispatch", 0, "-")>>
  <2>1. Segment(s, 0, 0) /\ Kept(s) /\ s \in Seq(StepOf(App))
    BY LoopCall
  <2>2. /\ todo[App] = <<>> /\ todo' = [todo EXCEPT ![App] = s]
        /\ UNCHANGED <<lock, got, rx, core, frames, handled>>
    BY <1>1 DEF Loop
  <2> HIDE DEF s
  <2> QED
    BY <2>1, <2>2, CallRight, LinkAssumption
<1>2. ASSUME NEW t \in Task, Start(t)
      PROVE  LinkInv'
  <2>1. todo[t] = <<>> /\ UNCHANGED <<lock, got, rx, core, frames, handled>>
    BY <1>2 DEF Start
  <2>2. CASE todo' = [todo EXCEPT ![t] = spi_send(t, 0, "frame")]
    <3>1. LET s == spi_send(t, 0, "frame")
          IN  Segment(s, 0, 0) /\ Kept(s) /\ s \in Seq(StepOf(t))
      BY FrameCall
    <3> QED
      BY <2>1, <2>2, <3>1, CallRight
  <2>3. CASE todo' = [todo EXCEPT ![t] = spi_send_le(t, 0)]
    <3>1. /\ Segment(spi_send_le(t, 0), 0, 0) /\ Kept(spi_send_le(t, 0))
          /\ spi_send_le(t, 0) \in Seq(StepOf(t))
      BY ValueCall
    <3> QED
      BY <2>1, <2>3, <3>1, CallRight
  <2>4. ASSUME t = App, NEW save \in BOOLEAN, todo' = [todo EXCEPT ![t] = configure(save)]
        PROVE  LinkInv'
    <3>1. /\ Segment(configure(save), 0, 0) /\ Kept(configure(save))
          /\ configure(save) \in Seq(StepOf(App))
      BY LoadCall
    <3> QED
      BY <2>1, <2>4, <3>1, CallRight
  <2> QED
    BY <1>2, <2>2, <2>3, <2>4 DEF Start
<1>3. ASSUME NEW t \in Task, Take(t) \/ Goes(t)
      PROVE  LinkInv'
  BY <1>3, GoesRight
<1>4. CASE UNCHANGED vars
  <2>1. UNCHANGED <<todo, got, mutex, spi_bus_owner, spi_bus_depth, core, frames, handled,
                    link_rx_enabled, link_rx_queue, link_rx_dropped>>
    BY <1>4 DEF vars, lock, rx
  <2>2. TodoRight' /\ LockRight'
    BY <2>1 DEF LinkInv, TodoRight, LockRight, TaskLock, Inside, At, Level
  <2>3. GotRight'
    BY <2>1 DEF LinkInv, GotRight, Publishing, At, Level
  <2>4. QueueRight'
    BY <2>1 DEF LinkInv, QueueRight, InWireOrder, Arrived, At
  <2> QED
    BY <2>2, <2>3, <2>4 DEF LinkInv
<1> QED
  BY <1>1, <1>2, <1>3, <1>4 DEF Next

\* The invariant holds in every state.
THEOREM LinkInvariant == Spec => []LinkInv
<1>1. Init => LinkInv
  BY InitRight
<1>2. LinkInv /\ [Next]_vars => LinkInv'
  BY NextRight
<1> QED
  BY <1>1, <1>2, PTL DEF Spec

-----------------------------------------------------------------------------
(* The theorems.                                                            *)

\* The variables keep their types; in particular no more frames wait than the
\* queue has places (LINK_RX_QUEUE_SIZE), and a task has one reply at most.
THEOREM TypeCorrect == Spec => []TypeOK
<1>1. LinkInv => TypeOK
  <2> SUFFICES ASSUME LinkInv PROVE TypeOK
    OBVIOUS
  <2>1. ASSUME NEW t \in Task, NEW i \in 1 .. Len(todo[t])
        PROVE  todo[t][i].op \in Ops /\ todo[t][i].level \in Nat
    <3>1. todo[t] \in Seq(StepType)
      BY DEF LinkInv, TodoRight
    <3>2. todo[t][i] \in StepType
      BY <3>1, ElementOfSeq
    <3> QED
      BY <3>2 DEF StepType
  <2>2. \A t \in Task : got[t] \in Seq(Frame) /\ Len(got[t]) <= 1
    BY DEF LinkInv, GotRight
  <2> QED
    BY <2>1, <2>2 DEF LinkInv, LockRight, QueueRight, TypeOK
<1> QED
  BY <1>1, LinkInvariant, PTL

\* Only the owner of the bus transfers and publishes, the owner holds the mutex,
\* and the counter spi_bus_depth agrees with the nesting of the calls, so that
\* the bus is given back exactly when the outermost of them ends.
THEOREM BusHeld == Spec => []BusRight
<1>1. LinkInv => BusRight
  <2> SUFFICES ASSUME LinkInv PROVE BusRight
    OBVIOUS
  <2>1. ASSUME NEW t \in Task, OnBus(t)
        PROVE  spi_bus_owner = t
    <3>1. todo[t] # <<>> /\ Head(todo[t]).op \in {"xfer", "publish"}
      BY <2>1 DEF OnBus, At
    <3>2. mutex = t
      BY <3>1, OnlyInside DEF LinkInv
    <3> QED
      BY <3>1, <3>2 DEF LinkInv, LockRight, TaskLock
  <2>2. spi_bus_owner # None => mutex = spi_bus_owner
    BY DEF LinkInv, LockRight, TaskLock
  <2>3. ASSUME NEW t \in Task
        PROVE  IF spi_bus_owner = t /\ ~At(t, "disown")
               THEN todo[t] # <<>> /\ Level(t) = spi_bus_depth
               ELSE todo[t] # <<>> /\ Head(todo[t]).op \in Ops \ {"own", "disown", "give", "unlock"}
                      => Level(t) = 0
    <3>1. TaskLock(t) /\ (todo[t] # <<>> => Level(t) \in Nat)
      BY Top DEF LinkInv, LockRight
    <3>2. CASE spi_bus_owner = t
      <4>1. todo[t] # <<>>
        BY <3>1, <3>2 DEF TaskLock, Inside
      <4> QED
        BY <3>1, <3>2, <4>1 DEF TaskLock, At
    <3>3. CASE spi_bus_owner # t
      <4> SUFFICES ASSUME todo[t] # <<>>,
                          Head(todo[t]).op \notin {"own", "disown", "give", "unlock"}
                   PROVE  Level(t) = 0
        BY <3>3
      <4>1. ~ Inside(t)
        BY <3>1, <3>3 DEF TaskLock
      <4> QED
        BY <3>1, <4>1 DEF Inside
    <3> QED
      BY <3>2, <3>3
  <2> QED
    BY <2>1, <2>2, <2>3 DEF BusRight, BusExclusive, LevelRight
<1> QED
  BY <1>1, LinkInvariant, PTL

\* Handlers start in the order the core sent the frames.
THEOREM WireOrder == Spec => []InWireOrder
<1>1. LinkInv => InWireOrder
  BY DEF LinkInv, QueueRight
<1> QED
  BY <1>1, LinkInvariant, PTL

\* No frame of a core is handled once another core runs.
THEOREM CoresApart == Spec => NoOldCore
<1>1. ASSUME LinkInv, [Next]_vars, handled' # handled
      PROVE  handled'[Len(handled')].core = core
  <2>1. PICK t \in Task : Dispatch(t)
    BY <1>1 DEF Next, vars, Loop, Start, Take, Goes, LockNested, Own, Unlock, Disown, Give, Xfer,
       Publish, DispatchEnd, Disable, Drain, Load, Enable
  <2> DEFINE q == link_rx_queue
  <2>2. q \in Seq(Frame) /\ handled \in Seq(Frame) /\ q # <<>>
    BY <1>1, <2>1 DEF LinkInv, QueueRight, Dispatch
  <2>3. Head(q) = q[1] /\ Head(q) \in Frame /\ 1 \in 1 .. Len(q)
    BY <2>2, HeadTailProperties, EmptySeq
  <2>4. q[1].core = core
    BY <1>1, <2>3 DEF LinkInv, QueueRight
  <2>5. handled' = Append(handled, Head(q))
    BY <2>1 DEF Dispatch
  <2> HIDE DEF q
  <2>6. handled'[Len(handled')] = Head(q)
    BY <2>2, <2>3, <2>5, AppendProperties
  <2> QED
    BY <2>3, <2>4, <2>6
<1>2. LinkInv /\ [Next]_vars => [handled' # handled => handled'[Len(handled')].core = core]_vars
  BY <1>1
<1> QED
  BY <1>2, LinkInvariant, PTL DEF Spec, NoOldCore

\* A task that has sent the first half of a value and not the second one keeps
\* every other task off the bus.
THEOREM ValuesWhole == Spec => OthersKeepOut
<1>1. ASSUME LinkInv, NEW t \in Task, NEW u \in Task, Sends(u), Owes(t)
      PROVE  t = u
  <2>1. todo[u] # <<>> /\ Head(todo[u]).op = "xfer"
    BY <1>1 DEF Sends, At
  <2>2. mutex = u
    BY <1>1, <2>1, OnlyInside DEF LinkInv
  <2>3. PICK i \in 1 .. Len(todo[t]) : /\ todo[t][i].what = "second"
                                       /\ \A j \in 1 .. i - 1 : todo[t][j].what # "first"
    BY <1>1 DEF Owes
  <2>4. todo[t] \in Seq(StepType) /\ Kept(todo[t]) /\ Len(todo[t]) \in Nat
    BY <1>1, Stacks, LenProperties DEF LinkInv, StackRight
  <2>5. 1 \in 1 .. i /\ todo[t] # <<>>
    BY <2>3, <2>4, EmptySeq
  <2>6. todo[t][1].level # 0
    <3> SUFFICES ASSUME todo[t][1].level = 0 PROVE FALSE
      OBVIOUS
    <3>1. PICK j \in 1 + 1 .. i - 1 : todo[t][j].what = "first"
      BY <2>3, <2>4, <2>5 DEF Kept
    <3>2. j \in 1 .. i - 1
      BY <2>4
    <3> QED
      BY <2>3, <3>1, <3>2
  <2>7. Level(t) \in Nat /\ Head(todo[t]) = todo[t][1]
    BY <1>1, <2>5, Top DEF LinkInv
  <2>8. Inside(t)
    BY <2>5, <2>6, <2>7 DEF Inside, Level
  <2>9. mutex = t
    BY <1>1, <2>8 DEF LinkInv, LockRight, TaskLock
  <2> QED
    BY <2>2, <2>9
<1>2. LinkInv => [\A t, u \in Task : Sends(u) /\ Owes(t) => t = u]_vars
  BY <1>1
<1> QED
  BY <1>2, LinkInvariant, PTL DEF OthersKeepOut

\* What goes over the link keeps its order, its core and its wholeness
\* (spi_send(), spi_send_le(), link_set_rx_enabled()).
THEOREM FramesKept == Spec => FramesRight
BY WireOrder, CoresApart, ValuesWhole DEF FramesRight
=============================================================================
