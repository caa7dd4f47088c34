------------------------------- MODULE SpiLink -------------------------------
(***************************************************************************)
(* The link layer of src/fpga/link.c: the recursive bus lock, spi_send()   *)
(* from several tasks, the queue of received frames, their dispatch by APP *)
(* alone, and a core load (configure()) that shuts the reception off.      *)
(*                                                                         *)
(* A task is what is left of its C call stack: todo[t], the steps it has   *)
(* still to make, a call being its body put in front.  Each step carries   *)
(* the level of lock nesting it is written at; the code's own counter is   *)
(* spi_bus_depth, and LevelRight says that the two agree.                  *)
(*                                                                         *)
(* Frames of the core are numbered in the order it sends them; a frame     *)
(* also tells which core sent it.  A value of several bytes                *)
(* (spi_send_le()) is scaled to two.                                       *)
(***************************************************************************)
EXTENDS Integers, Sequences, FiniteSets

CONSTANTS
  Task,       \* the tasks that use the bus
  App,        \* the dispatch task
  None,       \* no task
  QueueSize,  \* LINK_RX_QUEUE_SIZE
  MaxFrames,  \* bound: frames the cores send
  MaxLoads    \* bound: core loads

ASSUME LinkAssumption ==
  /\ App \in Task /\ None \notin Task
  /\ QueueSize \in Nat /\ MaxFrames \in Nat /\ MaxLoads \in Nat

VARIABLES
  mutex,            \* the task that holds spi_bus_mutex
  spi_bus_owner, spi_bus_depth,
  todo,
  got,              \* per task: the reply of its last transfer, or <<>>
  link_rx_enabled, link_rx_queue, link_rx_dropped,
  core,             \* the core that runs: cores are numbered
  frames,           \* frames the cores sent so far
  handled           \* the frames whose handler ran, in the order it started

lock == <<mutex, spi_bus_owner, spi_bus_depth>>
rx   == <<link_rx_enabled, link_rx_queue, link_rx_dropped>>
vars == <<lock, todo, got, rx, core, frames, handled>>

Frame == [id : 1 .. MaxFrames, core : Nat]

Ops == {"lock", "own", "unlock", "disown", "give", "xfer", "publish",
        "dispatch", "disable", "drain", "load", "enable"}

Step(op, level, what) == [op |-> op, level |-> level, what |-> what]

\* spi_send(): spi_xfer() locks again inside.  APP dispatches at the end.
\* Mutant: the reply is published after the bus was given back.
spi_send_late(t, level, what) ==
  <<Step("lock", level, "-"),
    Step("lock", level + 1, "-"), Step("xfer", level + 2, what),
    Step("unlock", level + 2, "-"),
    Step("unlock", level + 1, "-"), Step("publish", level, "-")>>
  \o IF t = App THEN <<Step("dispatch", level, "-")>> ELSE <<>>
spi_send(t, level, what) ==
  <<Step("lock", level, "-"),
    Step("lock", level + 1, "-"), Step("xfer", level + 2, what),
    Step("unlock", level + 2, "-"),
    Step("publish", level + 1, "-"), Step("unlock", level + 1, "-")>>
  \o IF t = App THEN <<Step("dispatch", level, "-")>> ELSE <<>>

\* spi_send_le().
\* Mutant: the bytes of a value are not kept together.
spi_send_le_loose(t, level) ==
  spi_send(t, level, "first") \o spi_send(t, level, "second")
spi_send_le(t, level) ==
  <<Step("lock", level, "-")>>
  \o spi_send(t, level + 1, "first") \o spi_send(t, level + 1, "second")
  \o <<Step("unlock", level + 1, "-")>>

\* configure(): one sequence on the link.  bk_flush() talks to the old core if
\* it has a save, before the reception is shut off; the new one is set up after
\* its start.
configure(save) ==
  <<Step("lock", 0, "-")>> \o (IF save THEN spi_send(App, 1, "frame") ELSE <<>>)
  \o <<Step("disable", 1, "-"), Step("drain", 1, "-"), Step("load", 1, "-")>>
  \o spi_send(App, 1, "frame")
  \o <<Step("enable", 1, "-"), Step("unlock", 1, "-")>>

Init ==
  /\ mutex = None /\ spi_bus_owner = None /\ spi_bus_depth = 0
  /\ todo = [t \in Task |-> <<>>]
  /\ got = [t \in Task |-> <<>>]
  /\ link_rx_enabled = TRUE /\ link_rx_queue = <<>> /\ link_rx_dropped = 0
  /\ core = 0 /\ frames = 0
  /\ handled = <<>>

At(t, op) == todo[t] # <<>> /\ Head(todo[t]).op = op
Level(t) == Head(todo[t]).level
Done(t) == todo' = [todo EXCEPT ![t] = Tail(@)]
Becomes(t, op) == todo' = [todo EXCEPT ![t][1].op = op]

-----------------------------------------------------------------------------
(* spi_bus_lock() and spi_bus_unlock().                                     *)

\* A nested lock is a counter.
LockNested(t) ==
  /\ At(t, "lock") /\ spi_bus_owner = t
  /\ spi_bus_depth' = spi_bus_depth + 1
  /\ Done(t)
  /\ UNCHANGED <<mutex, spi_bus_owner, got, rx, core, frames, handled>>

Take(t) ==
  /\ At(t, "lock") /\ spi_bus_owner # t
  /\ mutex = None /\ mutex' = t
  /\ Becomes(t, "own")
  /\ UNCHANGED <<spi_bus_owner, spi_bus_depth, got, rx, core, frames, handled>>

Own(t) ==
  /\ At(t, "own")
  /\ spi_bus_owner' = t /\ spi_bus_depth' = 1
  /\ Done(t)
  /\ UNCHANGED <<mutex, got, rx, core, frames, handled>>

\* Mutant: the inner unlock gives the bus back too.
Unlock_all(t) ==
  /\ At(t, "unlock")
  /\ spi_bus_depth' = spi_bus_depth - 1
  /\ Becomes(t, "disown")
  /\ UNCHANGED <<mutex, spi_bus_owner, got, rx, core, frames, handled>>
Unlock(t) ==
  /\ At(t, "unlock")
  /\ spi_bus_depth' = spi_bus_depth - 1
  /\ IF spi_bus_depth' # 0 THEN Done(t) ELSE Becomes(t, "disown")
  /\ UNCHANGED <<mutex, spi_bus_owner, got, rx, core, frames, handled>>

\* Mutant: the owner stays.
Disown_not(t) ==
  /\ At(t, "disown")
  /\ Becomes(t, "give")
  /\ UNCHANGED <<lock, got, rx, core, frames, handled>>
Disown(t) ==
  /\ At(t, "disown")
  /\ spi_bus_owner' = None
  /\ Becomes(t, "give")
  /\ UNCHANGED <<mutex, spi_bus_depth, got, rx, core, frames, handled>>

\* Mutant: the mutex stays taken.
Give_not(t) ==
  /\ At(t, "give")
  /\ Done(t)
  /\ UNCHANGED <<lock, got, rx, core, frames, handled>>
Give(t) ==
  /\ At(t, "give")
  /\ mutex' = None
  /\ Done(t)
  /\ UNCHANGED <<spi_bus_owner, spi_bus_depth, got, rx, core, frames, handled>>

-----------------------------------------------------------------------------
(* spi_send().                                                              *)

\* The reply of the transfer is a frame of the core, or none.
Xfer(t) ==
  /\ At(t, "xfer")
  /\ \/ /\ frames < MaxFrames /\ frames' = frames + 1
        /\ got' = [got EXCEPT ![t] = <<[id |-> frames + 1, core |-> core]>>]
     \/ /\ got' = [got EXCEPT ![t] = <<>>]
        /\ UNCHANGED frames
  /\ Done(t)
  /\ UNCHANGED <<lock, rx, core, handled>>

\* Mutant: the queue has no limit.
Publish_unbounded(t) ==
  /\ At(t, "publish")
  /\ link_rx_queue' = IF link_rx_enabled THEN link_rx_queue \o got[t]
                      ELSE link_rx_queue
  /\ got' = [got EXCEPT ![t] = <<>>]
  /\ Done(t)
  /\ UNCHANGED <<lock, link_rx_enabled, link_rx_dropped, core, frames, handled>>
Publish(t) ==
  /\ At(t, "publish")
  /\ IF got[t] # <<>> /\ link_rx_enabled
     THEN IF Len(link_rx_queue) < QueueSize
          THEN /\ link_rx_queue' = link_rx_queue \o got[t]
               /\ UNCHANGED link_rx_dropped
          ELSE /\ link_rx_dropped' = link_rx_dropped + 1
               /\ UNCHANGED link_rx_queue
     ELSE UNCHANGED <<link_rx_queue, link_rx_dropped>>
  /\ got' = [got EXCEPT ![t] = <<>>]
  /\ Done(t)
  /\ UNCHANGED <<lock, link_rx_enabled, core, frames, handled>>

\* link_dispatch_pending(): the handler of the oldest frame, which may itself
\* send an answer, on APP and inside whatever APP is doing, before the next.
\* Mutant: the newest frame first.
Dispatch_newest(t) ==
  /\ At(t, "dispatch") /\ link_rx_queue # <<>>
  /\ handled' = Append(handled, link_rx_queue[Len(link_rx_queue)])
  /\ link_rx_queue' = SubSeq(link_rx_queue, 1, Len(link_rx_queue) - 1)
  /\ UNCHANGED <<lock, todo, got, link_rx_enabled, link_rx_dropped, core, frames>>
Dispatch(t) ==
  /\ At(t, "dispatch") /\ link_rx_queue # <<>>
  /\ handled' = Append(handled, Head(link_rx_queue))
  /\ link_rx_queue' = Tail(link_rx_queue)
  /\ \/ UNCHANGED todo
     \/ todo' = [todo EXCEPT ![t] = spi_send(t, Level(t), "frame") \o @]
  /\ UNCHANGED <<lock, got, link_rx_enabled, link_rx_dropped, core, frames>>

\* Mutant: it may return with frames left.
DispatchEnd_early(t) ==
  /\ At(t, "dispatch")
  /\ Done(t)
  /\ UNCHANGED <<lock, got, rx, core, frames, handled>>
DispatchEnd(t) ==
  /\ At(t, "dispatch") /\ link_rx_queue = <<>>
  /\ Done(t)
  /\ UNCHANGED <<lock, got, rx, core, frames, handled>>

-----------------------------------------------------------------------------
(* link_set_rx_enabled(), and fpga_send() as far as the link sees it.       *)

Disable(t) ==
  /\ At(t, "disable")
  /\ link_rx_enabled' = FALSE
  /\ Done(t)
  /\ UNCHANGED <<lock, got, link_rx_queue, link_rx_dropped, core, frames, handled>>

\* Mutant: the frames stay.
Drain_nothing(t) ==
  /\ At(t, "drain")
  /\ Done(t)
  /\ UNCHANGED <<lock, got, rx, core, frames, handled>>
Drain(t) ==
  /\ At(t, "drain")
  /\ link_rx_queue' = <<>>
  /\ Done(t)
  /\ UNCHANGED <<lock, got, link_rx_enabled, link_rx_dropped, core, frames, handled>>

Load(t) ==
  /\ At(t, "load")
  /\ core' = core + 1
  /\ Done(t)
  /\ UNCHANGED <<lock, got, rx, frames, handled>>

Enable(t) ==
  /\ At(t, "enable")
  /\ link_rx_enabled' = TRUE
  /\ Done(t)
  /\ UNCHANGED <<lock, got, link_rx_queue, link_rx_dropped, core, frames, handled>>

-----------------------------------------------------------------------------
(* What a task starts: a frame, a value, a core load; and APP's main loop.   *)

Start(t) ==
  /\ todo[t] = <<>>
  /\ \/ todo' = [todo EXCEPT ![t] = spi_send(t, 0, "frame")]
     \/ todo' = [todo EXCEPT ![t] = spi_send_le(t, 0)]
     \/ /\ t = App /\ core < MaxLoads
        /\ \E save \in BOOLEAN : todo' = [todo EXCEPT ![t] = configure(save)]
  /\ UNCHANGED <<lock, got, rx, core, frames, handled>>

Loop ==
  /\ todo[App] = <<>>
  /\ todo' = [todo EXCEPT ![App] = <<Step("dispatch", 0, "-")>>]
  /\ UNCHANGED <<lock, got, rx, core, frames, handled>>

Goes(t) ==
  \/ LockNested(t) \/ Own(t) \/ Unlock(t) \/ Disown(t) \/ Give(t)
  \/ Xfer(t) \/ Publish(t) \/ Dispatch(t) \/ DispatchEnd(t)
  \/ Disable(t) \/ Drain(t) \/ Load(t) \/ Enable(t)

Next == Loop \/ \E t \in Task : Start(t) \/ Take(t) \/ Goes(t)

Spec == Init /\ [][Next]_vars

\* The scheduler runs every task that is not blocked.  A task that waits for
\* the mutex gets it some time, since the others rest between two events.  APP
\* dispatches in every turn of its loop.
Fairness ==
  /\ \A t \in Task : WF_vars(Goes(t)) /\ SF_vars(Take(t))
  /\ SF_vars(Loop)

FairSpec == Spec /\ Fairness

-----------------------------------------------------------------------------
(* Correctness.                                                             *)

\* The types of the variables.
TypeOK ==
  /\ mutex \in Task \cup {None} /\ spi_bus_owner \in Task \cup {None}
  /\ spi_bus_depth \in Nat
  /\ \A t \in Task : \A i \in 1 .. Len(todo[t]) :
       todo[t][i].op \in Ops /\ todo[t][i].level \in Nat
  /\ \A t \in Task : got[t] \in Seq(Frame) /\ Len(got[t]) <= 1
  /\ link_rx_enabled \in BOOLEAN /\ link_rx_dropped \in Nat
  /\ link_rx_queue \in Seq(Frame) /\ Len(link_rx_queue) <= QueueSize
  /\ core \in Nat /\ frames \in 0 .. MaxFrames
  /\ handled \in Seq(Frame)

OnBus(t) == At(t, "xfer") \/ At(t, "publish")

\* Only the owner of the bus transfers and publishes, and the unlocked test
\* "spi_bus_owner == self" finds a task there only while it holds the mutex.
BusExclusive ==
  /\ \A t \in Task : OnBus(t) => spi_bus_owner = t
  /\ spi_bus_owner # None => mutex = spi_bus_owner

\* The counter of nested locks agrees with the nesting of the calls, handlers
\* that send from inside a locked section included: the bus is given back
\* exactly when the outermost section ends.
LevelRight ==
  \A t \in Task :
    IF spi_bus_owner = t /\ ~At(t, "disown")
    THEN todo[t] # <<>> /\ Level(t) = spi_bus_depth
    ELSE todo[t] # <<>> /\ Head(todo[t]).op \in Ops \ {"own", "disown", "give", "unlock"}
           => Level(t) = 0

\* Handlers start in the order the core sent the frames, whichever tasks pulled
\* them and however handlers nest: "published in wire order".  With a full
\* queue frames are lost, never reordered.
InWireOrder ==
  LET arrived == handled \o link_rx_queue
  IN  \A i, j \in 1 .. Len(arrived) : i < j => arrived[i].id < arrived[j].id

\* A frame of one core is never handled once another core runs ("frames from
\* the previous core must not reach the next one").
NoOldCore == [][handled' # handled => handled'[Len(handled')].core = core]_vars

\* What a task sends of a value is not mixed with frames of other tasks.
Sends(t) == At(t, "xfer") /\ todo'[t] = Tail(todo[t])
Owes(t) ==
  \E i \in 1 .. Len(todo[t]) :
    /\ todo[t][i].what = "second"
    /\ \A j \in 1 .. i - 1 : todo[t][j].what # "first"

OthersKeepOut == [][\A t, u \in Task : Sends(u) /\ Owes(t) => t = u]_vars

\* Every frame that was published is handled, unless a core load drops it.
EveryFrameHandled == (link_rx_queue # <<>>) ~> (link_rx_queue = <<>>)

\* Every call comes to its end: nobody waits for the bus for ever.
CallsEnd == \A t \in Task : (todo[t] # <<>>) ~> (todo[t] = <<>>)

\* The bus is one task's, exactly as long as its outermost call lasts
\* (spi_bus_lock(), spi_bus_unlock()).
BusRight == BusExclusive /\ LevelRight

\* What goes over the link keeps its order, its core and its wholeness
\* (spi_send(), spi_send_le(), link_set_rx_enabled()).
FramesRight == []InWireOrder /\ NoOldCore /\ OthersKeepOut

\* Nothing waits for ever: no frame in the queue, no call for the bus.
CallsAndFramesEnd == EveryFrameHandled /\ CallsEnd
=============================================================================
