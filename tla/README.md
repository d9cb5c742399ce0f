# A verification project for 6TiSCH (OpenWSN firmware with 6top, and its network manager)

The repository holds a fork of the OpenWSN firmware (`src/openwsn-fw`, C) for motes that run
IEEE 802.15.4e TSCH with 6top negotiating dedicated cells, and a Java network manager
(`src/WSNManager`) that talks to the root mote over a serial line. This directory holds TLA+ models
of the firmware's core and of the manager's end of it, the TLC configurations that check them on small instances, and proofs of
what matters most for every instance. Paths below are relative to `src/openwsn-fw/`.

## 1. Inventory

A mote runs one thread of **tasks** (a list ordered by priority, each task runs to completion) and
**interrupts** that may come between any two instructions of a task unless it has disabled them. The
slot state machine runs in interrupts, everything above it in tasks. The two share the packet queue,
the schedule and the task list.

| component | state | operations | what is hard | what makes it correct |
|---|---|---|---|---|
| schedule (`openstack/02b-MAChigh/schedule.c`) | rows `scheduleBuf`, ring of links, `currentScheduleEntry`, backoff | add/remove a cell (6top), advance, resynchronize, query (MAC), backoff | list surgery under a moving cursor, two walks without exit | the linked rows are the active rows, a ring sorted by offset, no offset twice; the cells of `schedule_init` stay |
| slot state machine (`02a-MAClow/IEEE802154E.c`) | `state`, `slotOffset`, `nextActiveSlotOffset`, `isSync`, `deSyncTimeout`, pointers to up to four buffers | new slot, timer, start/end of frame, for both the synchronized and the listening mote | some twenty error paths that all end in `endSlot`, a cached slot offset, slots that overrun | every cell is served in its slot; no buffer is forgotten; the mote rejoins after a loss of synchronization |
| 6top negotiation (`02b-MAChigh/sixtop.c`) | `six2six_state`, timeout timer, requests in the queue | add/remove cells, five handlers of commands, end of a transmission, timeout | lost frames and ACKs, crossing requests, the timeout racing the answer | both ends of a link agree on a cell; a wait ends |
| 6top management (same file) | `busySendingEB`, `busySendingKA`, purge | sendEB, sendKA, purge | interrupts between allocation and submission | no packet leaks or is freed twice |
| on-the-fly scheduling (`otf.c`), commands (`openapps/c6t`) | pending tasks | notifications, tasks, PUT/DELETE | cascade of bookings towards the root | they only start a negotiation of an idle 6top |
| packet queue (`cross-layers/openqueue.c`) | ten buffers: owner, creator, attempts | allocate, free, look up, purge | ownership handed between interrupt and task | owner and pointers agree; every buffer becomes free again |
| task scheduler (`kernel/openos/scheduler.c`) | containers, list | push (interrupts off), the loop (interrupts on) | a push between two accesses of the loop | no task is lost or run twice, most urgent first |
| software timers (`drivers/common/opentimers.c`) | timers over one hardware compare | start, stop, period, restart, interrupt | a callback that restarts its own timer | a timer fires once, in time |
| neighbors, RPL (`neighbors.c`, `icmpv6rpl.c`) | table, rank, preferred parent, DIO/DAO timers | register, remove, update | stale rows, blacklisted parents | one preferred parent; ranks without loops |
| forwarding, 6LoWPAN (`forwarding.c`, `iphc.c`) | none of its own | send, receive, relay | direction errors, source routes | a packet is sent on or freed, once; it does not travel for ever; a source route is read as it was written |
| UDP, CoAP, TCP (`04-TRAN`) | resource list, connection state | register, receive, sendDone, timers | list surgery, reset in any state | the list ends; a packet is freed once |
| serial (`drivers/common/openserial.c`) | input and output buffers | print, start/stop input/output, bytes | slot interrupts switch direction in mid-frame | a frame arrives once and whole, or a known accident has hit it; both directions get their turns |
| table_update, rrt and other CoAP applications | one pending report each | on neighbor change, timers | globals overwritten by the next event | each change is reported once |
| network manager (`src/WSNManager`, Java) | mote graph, pending acknowledgements | serial thread, ACK timers, GUI | threads, retransmission against late ACK | a request is answered or given up, once |

Interactions: interrupts call the schedule's MAC-side functions, take and hand back packet buffers and
push tasks; tasks collect packets from the queue, call 6top, which books cells in the schedule and
submits packets by giving them the owner `COMPONENT_SIXTOP_TO_IEEE802154E`; the timeout timer pushes a
task; otf turns a booked cell into a request to the parent. Two motes interact by frames only.
`PROJECT.json` lists all components with what is and is not modelled, and the hazards with the line
where each bites.

## 2. Modules

| module | models | kind |
|---|---|---|
| `Cells` | cyclic order of slot offsets, address comparison | operators |
| `Schedule` | `schedule.c`, rows and ring | component |
| `CellSet` | what the schedule promises: a set of cells with a cyclic cursor | abstract specification |
| `ScheduleProofs` | invariant and refinement of `Schedule`, invariant of `SlotEngine` | proofs |
| `SlotEngine` | slot counting of `IEEE802154E.c` over `Schedule` | composition |
| `Mac`, `MCMac` | slot state machine, packet queue and the tasks that share it | component, instance |
| `MacProofs` | invariant of `Mac` | proofs |
| `Sixtop`, `MCSixtop` | `sixtop.c`, `otf.c`, `c6t.c` on several motes | composition of motes, instances |
| `SixtopProofs` | invariant of `Sixtop`, agreement of both ends of a link | proofs |
| `Scheduler` | `scheduler.c`, memory access by memory access | component |
| `SchedulerProofs` | invariant of `Scheduler` | proofs |
| `OpenTimers` | `opentimers.c` over one compare register, with three modules that use it | composition |
| `Rpl`, `MCRpl` | `neighbors.c` and the DIOs of `icmpv6rpl.c` on several motes | composition of motes, instance |
| `RplProofs` | invariant of `Rpl` | proofs |
| `Forwarding`, `MCForwarding` | `forwarding.c`, `iphc.c`, `openbridge.c`, `icmpv6echo.c`, CoAP answers, the manager's source routes | composition of motes and manager, instance |
| `ForwardingProofs` | invariant of `Forwarding` | proofs |
| `Serial`, `MCSerial` | `openserial.c` and the manager's `SerialThread` over one line | composition of both ends, instance |
| `DriverProofs` | invariants of `OpenTimers` and `Serial` | proofs |
| `Manager`, `MCManager` | `table_update.c`, `neighbor_table.c`, `opencoap.c`'s resources and the manager's `NetworkModel`, `CoAPAckTimer` | composition of motes and manager, instance |
| `ManagerProofs` | invariant of `Manager` | proofs |

The modules meet where the code does: `SlotEngine` is `Schedule` under the MAC; `Sixtop` stands on an abstract
MAC whose buffers and attempts are those `Mac` checks in detail; `Forwarding` takes the preferred parent as whatever
`Rpl` may have made of it, and its packets enter and leave at the root over the line of `Serial`; the reports and requests
of `Manager` are the packets of `Forwarding` with contents.

### Schedule and CellSet

`scheduleBuf[r]` is row `r` with its link `next`; `NoRow` is `NULL`. Each public function of the file is
one action, since it runs with interrupts disabled. The insertion walk is its outcome: it stops after
some linked row that meets one of the three conditions of the code (`FitsBetween`), and when no row
does, `while(1)` never ends, which is `hung`: the row is filled and in no list, interrupts are off, and
nothing happens any more. `schedule_syncSlotOffset` hangs the same way. `RemoveActiveSlot` compares
the neighbor with `packetfunctions_sameAddress`, which holds of no address of type `ADDR_NONE`: that
and `ADDR_ANYCAST` are why the cells of `schedule_init` can never be removed through 6top, the fact
that keeps the ring from ever being empty. Bookings are TX or RX with a 64-bit neighbor, as in
`sixtop_addCellsByState`; offsets already booked are among the inputs.
`CellSet` is a set of cells and the offset `here`; `Schedule` maps to it by the content of the linked
rows and the offset of the current one, so the property says that the order in which the mote visits its
cells is the order of the slotframe after any sequence of calls.

### SlotEngine

Extends `Schedule` with the variables that count slots. `NewSlot` is `isr_ieee154e_newSlot`, one disjunct
for each way through `activity_ti1ORri1`; the inside of a slot is reduced to whether it is over when the next
starts (`busy`). `ChangeSchedule` is any 6top task between two slots. `ranAt`, `ranCell` and `misfires` are
history variables.

### Mac

One mote, not the root. Every interrupt handler is a step: `NewSlot`, `Timer`, `StartOfFrame`,
`EndOfFrame`, in the states that expect it and in the others, where the slot is aborted. The PREPARE and
PROC states are entered and left by one handler and do not appear; the ackReceived buffer is taken and
freed within `activity_ti9`. Tasks run to completion but are interrupted: making a packet is `PickTask`,
`Allocate` (atomic in the code) and `Submit`. Collecting a packet is one step, as its buffer is owned by
the task from the lookup on. `Purge` resets every buffer 6top has created, whoever owns it.

### Sixtop

Each mote has its `six2six_state`, the timer, the pending tasks by priority (received frame, sent frame,
otf, timeout: a lower one runs only when no higher one waits), the buffers its 6top packets hold and its
dedicated cells. The MAC is one step per attempt: delivered and acknowledged, delivered with the ACK lost
(the copy is not recognised as one), or lost; the last failed attempt is reported as a failure. Requests
are for one cell, as otf and c6t make them. The states `SENDING_*` and `REMOVEREQUEST_RECEIVED` do not
outlive a handler and are left out. `Granted` keeps the greatest available candidate because
`sixtop_areAvailableCellsToBeScheduled` and the walk over the list keep the last one. `timer` is initially
TRUE: `sixtop_init` starts it. `SwitchParent` changes the preferred parent under a negotiation, as RPL may.

### Scheduler

The loop of `scheduler_start` is a step for each access of the list it makes with interrupts enabled, in the
order of the source (a compiler could reorder the stores, none is volatile); `scheduler_push_task` is one
step that may come anywhere. A task is its priority. `raced` is a history variable: a push has come while
the loop was between two accesses of the links.

### OpenTimers

`timersBuf` is the pool, `compare`, `counter` and `enabled` the hardware of the OpenMote's `bsp_timer.c`, whose counter
wraps at `ClockSize` as the real one does at 2^32. Calls come from tasks with interrupts on:
`opentimers_start` is cut into `StartTake`, `StartFill` and `StartRun`, between which the timer interrupt may
come. Three users stand for the three ways timers are used: 6top stops and restarts its one-shot timeout by a handle kept
for ever, RPL replaces the period of a periodic timer, and table_update starts a new one-shot timer for each
report. `expected` records which module counts on which timer; `clash` that a module used a handle whose timer
had become another's, or that an interrupt hit a timer half started.

### Rpl

Each mote but the root has its table of rows (`neighborRow_t`), each mote a rank and at most one DIO in the queue, which
carries the rank of the moment it was made. Everything runs in tasks, so a handler is one step. `ReceiveDIO(m, S)`
is a broadcast of `m` that reaches exactly the motes `S` in range. The statistics of a link are two costs (never lost
a frame; any other), `Improve` and `Degrade`. `BlacklistToggle` is the manager's command. `MaxChanges` bounds only the
disturbances: a lost link, a worse or better one, a reboot, a toggle; links come into range freely.

### Forwarding

`buf[n]` is the packet queue of a mote or the root, in which a packet is queued for the MAC, received, or sent and not yet
given back. Going down (`Outgoing`) is `forwarding_getNextHop`, `iphc_sendFromForwarding` and `sixtop_send` in one step, as
they are one call; when it fails, every caller frees the buffer. The preferred parent is nondeterministic at each look,
any neighbor or none, so that loops of parents come and go as `Rpl` lets them. The MAC delivers, gives up, or
delivers and loses the acknowledgement, which makes a copy. Going up is `iphc_receive` by address and routing header. A
command is built as `CoAPBuilder` and `SourceRoutingHeader` build it: no route for a neighbor of the root by the
manager's table (which may be stale: `routed` is chosen freely for one hop), else the addresses behind the first hop.
`HdrExtLen` is what the manager writes into the field, `Whole` what the last hop makes of it. `seen` and
`circled` are history: a packet may run out of hops only when it has gone in a circle. `spent` counts what
`MaxCopies` bounds, packets made and duplicates. Nodes are linked to others, never to themselves.

### Serial

A byte is a flag or the k-th byte of a numbered frame. The ring has one-byte indices that wrap and no test against the
reader; `unread` is the history variable that knows how many bytes the reader will really see. `NewSlot` is the MAC's new
slot: stop whatever goes on (`openserial_stop`, which executes a complete command), then output in an idle slot, input
in a SERIALRX slot, nothing in a radio slot. `room` is the time left in the slot, in bytes. The request frame invites
the manager to send one command; the manager answers when it meets the frame in its input, and sends all bytes at once,
which arrive one by one, in time or not. `Commands` says of each byte of a command what the mote takes it for: `packageBytes`
escapes nothing, so that any byte between the flags, the last of the CRC included, may be a 0x7d or a 0x7e. Only the next
byte written ends an escape (`Written`, `EscapingAfter`); neither the closing flag nor the end of a slot does. `Plain` commands fit the input buffer and hold
no such byte. `spoiled` is history: the commands whose first byte an escape left open by an older one has changed.

### Manager

Motes register and remove neighbors; `update` and `SendReport` are table_update with its globals, overwritten by the
next change before the timer has fired. A report due after the one that freed the entry reads the freed block (`Read`), which
holds its row still, or, when `send_next_row` has taken it for its own (`Refill`), another row; `block` and `twiceFreed` say
what has become of it. That a block freed twice is handed out twice is modelled, any other damage to the heap is not.
`resources` is how often opencoap_register has linked the descriptor, and
`hung` the endless walk it leads to. `ReceiveGet`, `SendRow` and `EndTransfer` are neighbor_table. On the manager's
side, `Accept` gives a message to the listeners (`NetworkModel`, `CoAPAckTimer`), `Attempt` and `CheckAck` are
the retransmission timer, and each report of a removal makes the manager send PUT r. The history variables `version`,
`seen`, `missed` say of which link the manager has not been told the latest.

## 3. Runs

| run | question | bounds, and why they are enough | states |
|---|---|---|---|
| `Schedule` | does the ring stay sorted and complete; does it implement `CellSet` | six rows (three of them boot cells), seven offsets, two neighbors: insertion before, between and after, wrap-around, removal at the cursor, full table, double booking all occur; the proofs cover the rest | 85,290 |
| `SlotEngine` | are cells served in their slots whatever 6top does | two schedule changes, one desynchronization, a serial cell of three slots that overlaps others | 28,435 |
| `Sixtop` | does each wait have an event that ends it; do both ends agree; do children collide | three motes, in a line or a star, two free offsets, two calls, one loss, one timeout, one change of a parent, in any order | 3,006,322 |
| `SixtopPair` | does a negotiation end | two motes with two buffers; `MaxTimeouts` = 9 is more than the calls can use up, so fairness of the timer is never cut off by the bound | 416,367 |
| `Mac` | do buffers, tasks, retries and synchronization hold together | two buffers and three packets, so that the upper layers may hold every buffer when synchronization is lost; two desynchronizations, so that the mote may rejoin and lose it again; one cell of each kind | 420,149 |
| `Scheduler` | does the list survive pushes at any point | four containers, three priorities, three tasks waiting | 700,877 |
| `OpenTimers` | are timers kept, and do they fire | three timers, so the pool runs out; a clock of eight ticks, so periods span a wrap; three calls after the start | 525,016 |
| `Rpl` | do ranks fall, is there one parent, do routes settle | a triangle with the root, tables of two rows, ranks up to 5, two disturbances | 431,038 |
| `Forwarding` | is each packet accounted for, and does its travel end | a line of three motes and the root: routes of one to three hops and loops of two motes; two buffers each, so that an answer may find none; two packets or copies in the network; a hop limit of 3, so that a circle uses it up | 217,330 |
| `ForwardingRoutes` (violated) | is a source route read as written | same, one packet | |
| `Serial` | do frames and commands arrive | a ring of ten bytes, frames of four, so two frames and part of a third overrun it; two reports beside the status of each slot; a command too long for the input buffer, one whose last byte is an escape, and after it one that fits and is spoiled or not; six bytes a slot, so that slots cut both directions | 2,150,202 |
| `Manager` | does the manager's picture agree with the motes' tables; do requests and transfers end | two motes and the root, tables of two rows, three changes, one loss, one request with one repetition; three timers, so that two reports are due while a transfer runs | 2,145,975 |

What the properties say is stated in a comment above each. The main ones:

* `RowsLinked`, `OffsetsDistinct`, `RingSorted`, `BootCellsKept`, `ImplementsCellSet`:
  no cell is lost, doubled, misplaced or skipped, and the walks of `schedule.c` meet every row.
* `OneMisfirePerChange`: the cached `nextActiveSlotOffset` is stale after a change; the mote then runs one
  cell in a wrong slot, once. `EveryCellServed`: no cell starves.
* `WaitsAreGuarded`, `NegotiationEnds`: 6top does not wait for ever, except that a responder without a
  buffer stays in `ADDREQUEST_RECEIVED` (an observation below).
* `SchedulesAgree`: without timeouts, only lost acknowledgements desynchronize two schedules,
  one cell each; without lost acknowledgements either, two children never get the same cell.
* `HoldsWhatItOwns`, `EveryPacketHasTask`, `RetriesCountAttempts`: every error path of
  a slot leaves the buffers, pointers, retries and tasks in agreement. `BuffersRecycled`, `Rejoins`: buffers
  come back, and so does the mote, unless the upper layers held every buffer when it lost synchronization (`Clogged`).
* `ListSorted`, `RunsOnce`, `NothingLost`: what the task list keeps under races, and what it
  keeps only without them.
* `TimersKept`, `ArmedTimersFire`: as long as no handle outlives its timer, no call takes a timer from its
  owner, and the one compare register forgets none.
* `RanksFall`, `SecondParentByReconnection`, `RoutesSettle`: ranks fall along parents however late the DIOs are
  (until something is lost, after which loops really occur); after the disturbances routes are loop-free again.
* `PacketsAccounted`, `TravelEnds`: a packet is multiplied only by lost acknowledgements and disappears only for
  a cause; loops of parents do not keep it for ever, and the echo module never waits for ever.
* `FramesAccounted`, `SerialProgress`: what arrives over the serial line arrives once, whole and in order; what
  does not was hit by an overrun, a request frame or the end of a slot, or, if a command, by the escape an older one left
  open, which spoils one command only. No direction starves.
* `ViewMatches`, `RequestsEnd`, `TransfersEnd`: the manager's picture is wrong only about links whose last report was
  overwritten or lost, or contradicted by one read from a block that was refilled; requests and transfers of a table come to an
  end. Here and in `SerialProgress`, "again and again it is not so" says the same as "it leads to an end".

Each has a mutant, a plausible slip in the modelled code that breaks it (comments `Mutant:` in the modules).

**Deadlock.** `CHECK_DEADLOCK FALSE` in `Schedule.cfg`, where a hung mote really stops, and in `Sixtop*.cfg`,
`Rpl.cfg`, `Forwarding*.cfg` and `Manager.cfg`, where calls and losses are bounded and an idle network is quiet.
`SlotEngine`, `Mac`, `Scheduler`, `OpenTimers` and `Serial` are checked for deadlock: clocks and slots never stop.

**Fairness.** `SlotEngine`: the slot timer is periodic hardware; a listening mote hears an ADV some day.
`Sixtop`: the task loop runs what is pending, shared cells recur in every slotframe so a pending packet is
attempted, a running timer fires. `Mac`: weak fairness of the slot interrupt and of tasks in progress;
strong fairness where an enabled step may be pre-empted again and again by a more urgent task
(`NotifSendDone`) or by other management tasks (`PickTask("sendKA")`, called every second but two in
`ADVTIMEOUT`), and for `Synchronize`: of the ADVs heard while listening, some arrive when a buffer is free.
`BuffersRecycled` states as its premise that the tasks keep up with the slots. `OpenTimers`: the clock runs, the
interrupt is served, a call that has begun goes on. `Rpl`: the DIO timer and the maintenance timer are periodic (weak);
of the DIOs broadcast again and again some reach everyone in range (strong). `Forwarding`: slots and tasks
of the motes go on (weak; nothing is said of deliveries, the MAC may always give up). `Serial`: the slot
timer, the UART and the line go on (weak). `Manager`: timers fire and messages arrive or are lost (weak). `Scheduler`
claims no liveness.

## 4. Proofs

Every invariant below was checked by TLC on the run of its module (as an `INVARIANT`, in the number of states section 3
gives) before it was proved, and is proved for every value of the constants that satisfies the module's named assumption.
All theorems have the form `Spec => []...` (`SerialSpec` in `Serial`, since `DriverProofs` extends both drivers' modules), from three facts: the initial states satisfy the inductive invariant, each action
preserves it (one lemma for each action or group of actions), and it implies the property. What the proofs had in common
are least members of sets of naturals, in place of induction, and the cardinality of sets that gain or lose a member.

### Schedule and SlotEngine (`ScheduleProofs`)

For every table size, slotframe length and set of neighbors that satisfy
`AddrAssumption` (the special addresses are not neighbors' addresses) and `SizeAssumption` (there is an
ADV cell, and the boot cells fit in table and slotframe; `schedule.h` has 1, 5 and 3 of them):

* `ScheduleIInv`: `IInv == TypeOK /\ RingInv /\ BootCellsKept` is inductive. None of its parts is on its own:
  that a new row finds its place needs the ring sorted and its offsets distinct; that removal leaves a sorted
  ring needs a unique predecessor, which follows from both (`OnePredecessor`); that the removed row is never
  alone in the ring, which would empty the schedule, needs the boot cells, which in turn stay because no
  neighbor's address matches theirs.
  `AddIInv`, `RemoveIInv` and `CursorIInv` are the steps; `InsideNested`, `InsideElsewhere` and `InsideJoined`
  are the facts about cyclic intervals they rest on.
* From it `ScheduleType`, `ScheduleRowsLinked`, `ScheduleOffsetsDistinct`, `ScheduleRingSorted`,
  `ScheduleBootCellsKept`.
* `ScheduleImplementsCellSet`: the initial states map to `AbsInit`, and under `IInv` every action maps to a
  step of `CellSet` or a stutter. The core is `NextIsCyclicNext`: the link of a row leads to the cyclic
  successor of its offset; `InsertionPointExists` shows that a booking of a free offset never hangs.
* `SlotEngineInvariant`, over `IInv`: `misfires + Debt <= changes + 1`, where `Debt` is 1 while the cached
  `nextActiveSlotOffset` is not what the schedule would answer. A change can make it stale once, a misfire pays, every
  refresh clears it, boot leaves one to pay; that is `SlotEngineMisfires`. `SlotEngineNeverHangs`: the cell of slot 0
  is always there for `schedule_syncSlotOffset(0)`, and 6top books free offsets only.

### Mac (`MacProofs`)

The property `HoldsWhatItOwns` is not inductive: what an interrupt does to a buffer depends on whom the buffer belongs to. `MacInv`
ties every buffer to exactly one holder (`BufferHeld`: the free list, the task that fills it, one of the three pointers, the queue, 6top), says which pointers
the state implies (`PointersFollowState`), and counts: retries left and attempts add up while a packet is to be sent (`Counted`), and
there are as many tasks as packets for them. From it `MacType`, `MacHoldsWhatItOwns`, `MacEveryPacketHasTask` and
`MacRetriesCountAttempts`. `PowersOfTwo` bounds the backoff by `2^MaxBE`.

### Scheduler (`SchedulerProofs`)

The list is a recursive function, `Hop[k]`, the container after k links. `SchedulerInv` says that it has ended after `Depth`
links, which is the pigeonhole principle over the containers and needs that no container occurs twice; where the loop stands between its
accesses (`LoopInv`: between load and store the list still holds the task it took and, somewhere behind, the one it has read, with
whatever pushes have put between them); that the list is sorted and everything in use is listed as long as no push came in a
window. From it `SchedulerType`, `SchedulerListSorted`, `SchedulerRunsOnce` and `SchedulerNothingLost`.

### OpenTimers (`DriverProofs`)

`TimersInv` adds to the property what a half-started timer is (`StartingOK`): taken, and nobody's yet, and in which order the handles have been handed out.
From it `TimersType` and `TimersAreKept`.

### Serial (`DriverProofs`)

For every ring, input buffer, frame and slot size that satisfies `SerialAssumption` (two frames fit in the ring; a started output sends at
least the byte `openserial_startOutput` writes, so `SlotBytes` is not 0), every slotframe and every list of commands.
`SerialInv == RingOK /\ ReportInv /\ CommandInv /\ RestOK`:

* `RingOK`: reader, writer and `unread` agree modulo the size of the ring. `Window` is what the reader will still see; `WriteRing` and `ReadAdvances` turn
  the arithmetic of the indices into facts about sequences: a print appends to the window, or, past the reader, leaves of window and print
  together the end that fits.
* `ReportInv`, that is `Sent(w, r, g, l, p, d, z, a)` of the window and what the manager holds. The window is the rest of one frame and whole ones, in
  printing order (`Stream`); what was received is in order and before all of it (`Received`); each report printed, not yet received and not hit
  is whole in the window, or half read and continued there (`Accounted`); undisturbed, what the manager has read are the first bytes of a frame
  whose next byte comes next (`Undisturbed`), so that it takes no frame that nobody printed. A full ring, taken for an empty one, has been counted
  as hit (`FullIsHit`): dropping it costs nothing more. `a` says that a request frame is going out over all this.
* `CommandInv`, that is `Carried(...)` of the line and the input buffer. The bytes on the line are those of the commands, consecutive and in order; a plain command that
  is neither executed nor missed nor spoiled has its first byte on the line, behind its flag, or its first bytes in the buffer and the next one next
  (`Followed`); a frame coming in holds bytes of one command (`InFrame`). An open escape goes back to a command that holds one, since which no plain command has been executed
  or spoiled (`EscapeOK`), and so does each spoiled command (`SpoiledOK`): no assumption says where in a command escapes and flags are. What passes the CRC is a plain command.

The lemmas about `Sent` and `Carried` are about values and not about steps: one for a print that fits and one for an overrun, one for each byte the
manager may read, one for what tears a frame; each action is then one or two of them. From it `SerialType` and `SerialFramesAccounted`.

### Sixtop (`SixtopProofs`)

`SixtopInv == SixtopTypeOK /\ PacketsOK /\ WaitsAreGuarded`. `WaitsAreGuarded` needs that a packet still tried has retries left, so that the MAC is
never through with it without a task for 6top, and that frames name motes; the rest is one lemma for each handler over each
other mote's half of the property (`TimeoutPending`, `ResponseUnderWay`). From it `SixtopType` and `SixtopWaitsAreGuarded`.

`SchedulesAgree` counts lost acknowledgements over the cells of all motes, and is far from inductive: while a request or a response is on its way, neither schedule
shows what has been promised. `AgreementInv` therefore speaks of **claims** on a slot from a mote to its neighbor: a TX cell the mote has (until its removal is acknowledged), a
response it has received and not handled, or a request to remove the cell that its neighbor has received and not handled. A claim is
**covered** by the neighbor's RX cell, or by the neighbor's response that grants it, sent and acknowledged and waiting for its task. The invariant is that there are sets `X` of cells and `Y` of packets,
together no larger than the number of lost acknowledgements, such that every claim outside them is covered and the only one of its kind
(`ClaimsAreCovered`). A claim moves from response to cell to removal, and takes its excuse along; when an excused removal is handled, the claim
it uncovers inherits its excuse; a lost acknowledgement adds one. So the count balances step by step without summing over the network (`SixtopBalance`).
Beside it stands what makes a promise hold until it is kept (`SendersOK`): until the first timeout each mote has at most one packet in the hands of the MAC, its `six2six_state`
says which, the cells a response grants stay free, and the cell a request releases stays booked, until the packet is notified. From it `SixtopSchedulesAgree`;
`SixtopRunsOn`, that no mote hangs in `schedule.c` before a timeout has cut an exchange short; and `SixtopSlotsOnce`, timeouts or not.

### Rpl (`RplProofs`)

`RplInv` says of a network in which nothing has been lost yet (`~worsened`) that ranks only fall: what a row or a DIO says of a
mote's rank is not below it (`RanksKnown`), a later DIO never says more than a row (`DiosFall`), no row goes (`RowsStay`),
and a mote that has a rank has a preferred row that gives it one as good (`RankEarned`). `RplRanksFall` follows, as a link costs at least 1.
`RplSecondParent` proves the action property from the same invariant, one lemma for each way a table changes.

### Manager (`ManagerProofs`)

`ManagerInv` numbers the versions of each link: a report about the present version tells what is in the row (`ReportsOK`; one read
from a refilled block is about no version and makes its link a missed one), an entry not refilled tells of the last change
(`EntriesOK`), and the present version, unless missed, has been seen and agrees, waits in an entry still owned, or is on its way (`VersionsOK`). From it
`ManagerType` and `ManagerViewMatches`, which say nothing of a mote that hangs in `opencoap_receive`'s lookup.

### Forwarding (`ForwardingProofs`)

`BuffersInv`: each buffer is free, done with, or holds a packet with the fields its kind needs (`Good`); a command without a
route is for the next hop of the root (`OneHop`), so that `Relay` never sees one; the motes that have sent a packet on and its hops left
add up to the hop limit until it goes in a circle (`CountsHops`). `AccountsInv`: for each packet the copies on their way, its
arrivals and the duplicates by the air balance (`Balanced`). Each action gives one buffer, or two, a new content
(`Replaced`, `Added`, `Moved`), which changes the account of one packet only. `ForwardingType` holds for all
constants. `ForwardingAccounts` has a hypothesis of its own: the motes are finitely many, and no more than `HopLimit`. In a larger
network a packet may run out of hops without a circle, and `PacketsAccounted` is false; the code's limit is 65
(`iphc.h:15`).

### What is only model-checked

* Liveness and fairness (`EveryCellServed`, `NegotiationEnds`, `BuffersRecycled`, `Rejoins`, `ArmedTimersFire`, `RoutesSettle`,
  `TravelEnds`, `SerialProgress`, `RequestsEnd`, `TransfersEnd`): out of the prover's reach, like `ENABLED`.
* `RoutesAgree` is violated (section 5).

## 5. What the runs found

`RoutesAgree` (`ForwardingRoutes`): the manager writes the length of a routing header in octets where the header and the
motes count units of eight (`SourceRoutingHeader.java:119`, `forwarding.c:442`), so the mote at the end of a route cuts off the
command with the addresses: the manager can command only the neighbors of the root. With the length put right, a route of three hops
is read backwards (`forwarding.c:494` against `SourceRoutingHeader.java:163-177`; try it with `HdrExtLen(n) == n` and a triangle
of links in `MCForwarding`): a mote in the middle executes the command.

Observations from exploring the models that no run of the project states, by part of the system:

*Slots and schedule.* After a schedule change, and at the boot of a root, the ADV cell may run in another slot than 0, which
`asnStoreFromAdv` takes for impossible; a mote that joins on that ADV counts its slots wrongly. Packets of
upper layers keep their buffers at a loss of synchronization: when they hold all of them (`Clogged`, which `Mac` reaches), none is
left for the ADV that would end it, the mote stays out and the buffers stay taken until a reboot. `Rejoins` and `BuffersRecycled`
hold up to this case, and fail without it. In `Sixtop`'s line with one lost ACK, one timeout and three calls, a mote books an offset it has booked meanwhile
and hangs (`hung`). `sixtop_sendEB` purges keep-alives without clearing `busySendingKA`, which may stay TRUE for good. A purge
may remove a packet whose task is pending; `task_sixtopNotifSendDone` then reports a critical error.

*6top.* `sixtop_six2six_sendDone` goes by the state and not by the packet: after a timeout, the end of an old request may be taken
for the end of a response, and a mote books a reception cell for its own parent, although `sixtop.c:1231` says "only schedule when
the request side wants to schedule a tx cell". One timeout may leave two TX cells without their receivers, which is
why `SchedulesAgree` excludes timeouts. A responder without a buffer stays in `SIX_ADDREQUEST_RECEIVED` and ignores all commands.
After a refusal (bandwidth 0) `otf_notif_addedCell` is called all the same and the request cascades. Cells with a former
parent are never released.

*Task list and timers.* A push in one of the two windows of the loop leaks a container; enough of them end in the overflow and a
reset with a list that was never full. 6top's timeout handle is kept after the timer has fired, when the pool may have given it to
another module: stop and restart then act on that one. Two calls of `opentimers_start`, one in an interrupt, may take the same
entry. A short timer started while a longer one waits may fire late; none is forgotten.

*Neighbors and RPL.* `neighbors_getPreferredParentEui64` promotes the row `minRankIdx` without asking whether there is one
(`neighbors.c:94,116`): no neighbor with `DEFAULTDAGRANK` is below the minimum it starts from, and it writes behind the table.
The root, which ignores DIOs, does so whenever it asks for a parent, for example in `otf_addCell_task`. Two motes cut off from the root
point at each other and count their ranks up to the maximum: DIOs carry no poisoning.

*Forwarding.* `forwarding_receive` only prints that it has found a loop or a wrong direction, and the rank it compares is the
origin's, as nobody rewrites the flow label. When the relay of a source-routed packet fails in `iphc_sendFromForwarding`, nobody frees
the buffer ("already freed by send_internal", `forwarding.c:298`): with the manager's headers and hop limit of 64 it is
not reached. The root bridges every unicast to the manager, so an echo request between motes that are not
neighbors ends there. The end of an echo reply clears `busySending` while a request is under way.

*CoAP and the manager.* `opencoap_register` of a registered descriptor (`table_update.c:87` does it at each change of the
neighbor table) cuts the resource list and closes it on itself; the next path that matches nothing is looked up for ever. The manager sends
one by itself: PUT r after each report of a removal (`ControlPanel.java:351-354`). All requests have the same message ID
(`CoapMessage.java:177`), so a second request takes the first one's place as listener. The listeners are asked in the order of a
hash map, and an answer without payload makes one of them throw before the others are asked. A duplicated GET n starts a
second periodic timer whose handle is lost. `TOO_MANY_TIMERS_ERROR` (255) is used as a timer id. A duplicated PUT b toggles
the blacklist twice. The globals of table_update are overwritten by the next change, whose entry is then reported and freed twice:
the second report is read from a freed block, and when a row of a transfer has been put there in between, the manager is told that this row's
neighbor, a live one, is removed. After the second free, two parts of the program may be given the same block;
the root's `update()` leaks its entry; a report without a buffer frees `NULL`.

*TCP.* `opentcp_connect` has no caller; a passive connection answers a SYN to its own address, so no connection is ever
established; a RST is freed twice (`opentcp.c:226`); `sendDone` ignores the error it is given; `timerStarted` is never reset.

*Serial line.* The manager checks no CRC and undoes no escapes, and `packageBytes` escapes nothing, so that payloads with 0x7d or
0x7e are unreadable in both directions. An escape that ends a command, or is cut off by the end of a slot, spoils the first byte of the next
command (`inputEscaping` survives `inputHdlcClose` and `openserial_stop`). The request frame tears an output frame that is half sent. A command that ends input
cuts the request frame. An overrun silently loses up to a whole ring, and an exactly full ring counts as empty.
`openbridge_triggerData` runs in the UART's interrupt when a command ends there, not in a task.

## 6. Not modelled, and the plan

Most of the repository's lines are not its own program: headers and libraries of chip vendors under `bsp/boards` and
`bootloader`, FreeRTOS and RIOT ports, copies of the Java sources (`WSNManager - Copy`), a simulator's glue. Those are register
definitions and drivers without state of the kind a model could say something about, so the share of *all* lines that the
modules map stays small, although the core under `openstack`, `kernel/openos`, `drivers/common` and the manager is covered.

Of the core, left out are frame layout, header compression, drift estimation in ticks (`adaptive_sync.c`, compiled out), channel
hopping, statistics, LEDs and debug output: they decide none of the properties. Multicast is in `Rpl` only. TCP is not
modelled because its state machine leaves CLOSED in no run of the program (section 5). `rrt`, `cstorm`, `tohlone` and the other
demonstrations send packets as `Mac`'s and `Forwarding`'s upper layers do. DAOs go to the manager, which keeps no
state from them. Board support packages are external; within the modelled files, time corrections appear only as "one slot more",
and radio timing only as the order of interrupts.

Abstractions of the models: in `Serial`, interrupts of the UART that come after a stop are merged, the byte left in its receive
register is not kept, and bytes that come in another mode are lost. In `Forwarding`, a packet to a port nobody listens on is
one that is freed on arrival, and answers of CoAP resources are one kind of report. In `Manager`, reports of the root, which go over
the serial line, are left out. In `Rpl`, silence of a neighbor is its being out of range: the 16 bits of `timeSinceHeard` are
not counted, nor is the hysteresis of the stable-neighbor flag.

`openserial_printCritical` (`openserial.c:206-224`) returns to its caller and arms a timer that reboots the mote ten
seconds later. The models therefore go on after a critical error exactly as the caller does, and do not model that
later reboot.

What is next: `SlotPair`, two motes in one slot (data, ACK, matching by sequence number, `IEEE802154E.c:1679`), which would show the
abstract MAC of `Sixtop` and `Forwarding` to be implemented by `Mac`.
