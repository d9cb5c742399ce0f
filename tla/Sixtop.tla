------------------------------- MODULE Sixtop -------------------------------
(***************************************************************************)
(* openstack/02b-MAChigh/sixtop.c and otf.c: motes that negotiate          *)
(* dedicated cells with their preferred parent.  Each mote is its six2six  *)
(* state machine, the one-shot timeout timer, the tasks waiting in the     *)
(* scheduler, the part of OpenQueue that 6top packets use, and the         *)
(* dedicated cells of its schedule (the set that CellSet promises).  A     *)
(* task runs to completion, so a handler is one step.  The MAC and the     *)
(* radio are a step per transmission: the frame or its acknowledgement may *)
(* be lost, and the sender tries again without marking the copy.           *)
(***************************************************************************)
EXTENDS Integers, Sequences, FiniteSets, FiniteSetsExt

CONSTANTS
    Motes,
    NoMote,
    Networks,        \* who may be whose preferred parent; the root has NoMote
    FreeSlots,       \* slot offsets schedule_init leaves free
    ListLength,      \* SCHEDULEIEMAXNUMCELLS
    QueueLength,     \* QUEUELENGTH, less the buffers other traffic holds
    TxRetries,       \* TXRETRIES
    MaxCalls,        \* bound: requests from c6t
    MaxLosses,       \* bound: frames and acknowledgements lost by the radio
    MaxTimeouts,     \* bound: expirations of the timeout timers
    MaxSwitches      \* bound: changes of a preferred parent

ASSUME SixtopAssumption ==
    /\ NoMote \notin Motes
    /\ Networks \subseteq [Motes -> Motes \cup {NoMote}]
    /\ FreeSlots \subseteq Nat
    /\ {ListLength, QueueLength, TxRetries} \subseteq Nat \ {0}
    /\ {MaxCalls, MaxLosses, MaxTimeouts, MaxSwitches} \subseteq Nat

VARIABLES
    preferredParent,  \* what neighbors_getPreferredParentEui64 returns
    six2six_state,
    timer,          \* the timeout timer is running
    timeoutTasks,   \* timer_sixtop_six2six_timeout_fired waiting to run
    otfTasks,       \* otf_addCell_task and otf_removeCell_task, next one first
    queue,          \* the packet buffers
    cells,          \* the dedicated cells of the schedule
    hung,           \* schedule_addActiveSlot never returned
    calls, framesLost, acksLost, timeouts, switches   \* how often the bounded events happened

vars == <<preferredParent, six2six_state, timer, timeoutTasks, otfTasks, queue, cells,
          hung, calls, framesLost, acksLost, timeouts, switches>>
bounds == <<preferredParent, calls, framesLost, acksLost, timeouts, switches>>

SixStates == {"IDLE", "WAIT_ADDREQUEST_SENDDONE", "WAIT_ADDRESPONSE",
              "ADDRESPONSE_RECEIVED", "ADDREQUEST_RECEIVED",
              "WAIT_ADDRESPONSE_SENDDONE", "WAIT_REMOVEREQUEST_SENDDONE"}

Buffers == 1 .. QueueLength

\* A 6top command with what OpenQueue records of it: the neighbor it goes to or
\* came from, its owner, the attempts left, and the outcome once it is sent.
Packet == [opcode : {"ADD", "RESPONSE", "REMOVE"}, neighbor : Motes \cup {NoMote},
           cells : SUBSET FreeSlots, retriesLeft : 0 .. TxRetries,
           owner : {"TO_MAC", "SENT", "RECEIVED"}, success : BOOLEAN]

FreeBuffer == [owner |-> "NULL"]

Cell == [slotOffset : FreeSlots, type : {"TX", "RX"}, neighbor : Motes]

Owned(m, o) == {b \in Buffers : queue[m][b].owner = o}
FirstOwned(m, o) == Min(Owned(m, o))

Available(m, s) == \A c \in cells[m] : c.slotOffset # s

-----------------------------------------------------------------------------
Init ==
    /\ preferredParent \in Networks
    /\ six2six_state = [m \in Motes |-> "IDLE"]
    /\ timer = [m \in Motes |-> TRUE]
    /\ timeoutTasks = [m \in Motes |-> 0]
    /\ otfTasks = [m \in Motes |-> << >>]
    /\ queue = [m \in Motes |-> [b \in Buffers |-> FreeBuffer]]
    /\ cells = [m \in Motes |-> {}]
    /\ hung = [m \in Motes |-> FALSE]
    /\ calls = 0 /\ framesLost = 0 /\ acksLost = 0 /\ timeouts = 0 /\ switches = 0

NewPacket(op, n, S) ==
    [opcode |-> op, neighbor |-> n, cells |-> S, retriesLeft |-> TxRetries,
     owner |-> "TO_MAC", success |-> FALSE]

\* sixtop_candidateAddCellList: the first available offsets.
CandidateAdd(m) ==
    LET avail == {s \in FreeSlots : Available(m, s)}
    IN  {s \in avail : Cardinality({t \in avail : t < s}) < ListLength}

\* sixtop_candidateRemoveCellList: the first TX cell with the neighbor.
CandidateRemove(m, n) ==
    LET held == {c.slotOffset : c \in {d \in cells[m] : d.type = "TX" /\ d.neighbor = n}}
    IN  {s \in held : \A t \in held : s <= t}

\* Mutant: the timeout is not armed.
ArmNothing(m) == UNCHANGED timer

\* opentimers_setPeriod and opentimers_restart
Arm(m) == timer' = [timer EXCEPT ![m] = TRUE]

\* The end of sixtop_addCells and sixtop_removeCell: the request is queued for
\* the MAC and the timeout armed; without a cell or a buffer, nothing.  The root
\* asks too: its neighbors have no rank, neighbors_getPreferredParentEui64 promotes
\* what lies behind the table, and the request goes to an address nobody has.
Request(m, op, S, waiting) ==
    IF /\ six2six_state[m] = "IDLE"
       /\ S # {}
       /\ Owned(m, "NULL") # {}
    THEN /\ queue' = [queue EXCEPT ![m][FirstOwned(m, "NULL")] =
                          NewPacket(op, preferredParent[m], S)]
         /\ six2six_state' = [six2six_state EXCEPT ![m] = waiting]
         /\ Arm(m)
    ELSE UNCHANGED <<queue, six2six_state, timer>>

\* sixtop_addCells(parent, 1) and sixtop_removeCell(parent)
AddCells(m) == Request(m, "ADD", CandidateAdd(m), "WAIT_ADDREQUEST_SENDDONE")
RemoveCell(m) ==
    Request(m, "REMOVE", CandidateRemove(m, preferredParent[m]), "WAIT_REMOVEREQUEST_SENDDONE")

\* A CoAP PUT or DELETE reaches c6t.
C6tRequest(m) ==
    /\ ~hung[m]
    /\ calls < MaxCalls
    /\ calls' = calls + 1
    /\ AddCells(m) \/ RemoveCell(m)
    /\ UNCHANGED <<preferredParent, timeoutTasks, otfTasks, cells, hung,
                   framesLost, acksLost, timeouts, switches>>

-----------------------------------------------------------------------------
\* schedule_addActiveSlot on each offset of S: an offset already booked hangs the
\* mote, interrupts disabled.
Book(m, S, type, n) ==
    IF \A s \in S : Available(m, s)
    THEN /\ cells' = [cells EXCEPT ![m] = @ \cup
                          {[slotOffset |-> s, type |-> type, neighbor |-> n] : s \in S}]
         /\ UNCHANGED hung
    ELSE hung' = [hung EXCEPT ![m] = TRUE] /\ UNCHANGED cells

\* sixtop_removeCellsByState: schedule_removeActiveSlot looks for the offset and
\* the neighbor, whatever the type of the cell.
Release(m, S, n) ==
    cells' = [cells EXCEPT ![m] = {c \in @ : ~(c.slotOffset \in S /\ c.neighbor = n)}]

Free(m, b) == [queue EXCEPT ![m][b] = FreeBuffer]

\* Mutant: the responder does not look at its own schedule.
GrantedUnchecked(m, S) == {s \in S : \A t \in S : t <= s}

\* sixtop_areAvailableCellsToBeScheduled for one cell: the list is written last
\* candidate first, so the greatest available offset is kept, the rest is OFF.
Granted(m, S) ==
    LET avail == {s \in S : Available(m, s)}
    IN  {s \in avail : \A t \in avail : t <= s}

\* sixtop_notifyReceiveLinkRequest and sixtop_linkResponse.  The request still
\* holds its buffer b; without another one there is no response, and the state
\* stays ADDREQUEST_RECEIVED.
ReceiveAddRequest(m, b) ==
    LET pkt == queue[m][b] IN
    /\ six2six_state[m] = "IDLE"
    /\ IF Owned(m, "NULL") # {}
       THEN /\ queue' = [Free(m, b) EXCEPT ![m][FirstOwned(m, "NULL")] =
                   NewPacket("RESPONSE", pkt.neighbor, Granted(m, pkt.cells))]
            /\ six2six_state' = [six2six_state EXCEPT ![m] = "WAIT_ADDRESPONSE_SENDDONE"]
       ELSE /\ queue' = Free(m, b)
            /\ six2six_state' = [six2six_state EXCEPT ![m] = "ADDREQUEST_RECEIVED"]
    /\ UNCHANGED <<timer, otfTasks, cells, hung>>

\* sixtop_notifyReceiveLinkResponse.  A refusal leaves the state to the timeout.
ReceiveAddResponse(m, b) ==
    LET pkt == queue[m][b] IN
    /\ six2six_state[m] = "WAIT_ADDRESPONSE"
    /\ queue' = Free(m, b)
    /\ IF pkt.cells = {}
       THEN /\ six2six_state' = [six2six_state EXCEPT ![m] = "ADDRESPONSE_RECEIVED"]
            /\ UNCHANGED <<timer, cells, hung>>
       ELSE /\ IF \A s \in pkt.cells : Available(m, s)
               THEN Book(m, pkt.cells, "TX", pkt.neighbor)
               ELSE UNCHANGED <<cells, hung>>
            /\ six2six_state' = [six2six_state EXCEPT ![m] = "IDLE"]
            /\ timer' = [timer EXCEPT ![m] = FALSE]
    /\ UNCHANGED otfTasks

\* sixtop_notifyReceiveRemoveLinkRequest
ReceiveRemoveRequest(m, b) ==
    LET pkt == queue[m][b] IN
    /\ six2six_state[m] = "IDLE"
    /\ Release(m, pkt.cells, pkt.neighbor)
    /\ otfTasks' = [otfTasks EXCEPT ![m] = <<"remove">> \o @]
    /\ queue' = Free(m, b)
    /\ UNCHANGED <<six2six_state, timer, hung>>

\* sixtop_notifyReceiveCommand in a state that does not expect the command.
Expects(m, op) ==
    six2six_state[m] = IF op = "RESPONSE" THEN "WAIT_ADDRESPONSE" ELSE "IDLE"

IgnoreCommand(m, b) ==
    /\ ~Expects(m, queue[m][b].opcode)
    /\ queue' = Free(m, b)
    /\ UNCHANGED <<six2six_state, timer, otfTasks, cells, hung>>

\* task_sixtopNotifReceive, the task of the highest priority.
NotifReceive(m) ==
    /\ ~hung[m]
    /\ Owned(m, "RECEIVED") # {}
    /\ LET b == FirstOwned(m, "RECEIVED") IN
         \/ queue[m][b].opcode = "ADD" /\ ReceiveAddRequest(m, b)
         \/ queue[m][b].opcode = "RESPONSE" /\ ReceiveAddResponse(m, b)
         \/ queue[m][b].opcode = "REMOVE" /\ ReceiveRemoveRequest(m, b)
         \/ IgnoreCommand(m, b)
    /\ UNCHANGED <<timeoutTasks, bounds>>

-----------------------------------------------------------------------------
\* What sixtop_six2six_sendDone does with the packet depends on the state alone,
\* not on which packet it is.
SendDoneSuccess(m, pkt) ==
    \/ /\ six2six_state[m] = "WAIT_ADDREQUEST_SENDDONE"
       /\ six2six_state' = [six2six_state EXCEPT ![m] = "WAIT_ADDRESPONSE"]
       /\ UNCHANGED <<otfTasks, cells, hung>>
    \/ /\ six2six_state[m] = "WAIT_ADDRESPONSE_SENDDONE"
       /\ Book(m, pkt.cells, "RX", pkt.neighbor)
       /\ six2six_state' = [six2six_state EXCEPT ![m] = "IDLE"]
       /\ otfTasks' = [otfTasks EXCEPT ![m] = <<"add">> \o @]
    \/ /\ six2six_state[m] = "WAIT_REMOVEREQUEST_SENDDONE"
       /\ Release(m, pkt.cells, pkt.neighbor)
       /\ six2six_state' = [six2six_state EXCEPT ![m] = "IDLE"]
       /\ UNCHANGED <<otfTasks, hung>>
    \/ /\ six2six_state[m] \notin {"WAIT_ADDREQUEST_SENDDONE", "WAIT_ADDRESPONSE_SENDDONE",
                                   "WAIT_REMOVEREQUEST_SENDDONE"}
       /\ UNCHANGED <<six2six_state, otfTasks, cells, hung>>

\* task_sixtopNotifSendDone; the timeout timer is not stopped here.
NotifSendDone(m) ==
    /\ ~hung[m]
    /\ Owned(m, "RECEIVED") = {}
    /\ Owned(m, "SENT") # {}
    /\ LET b == FirstOwned(m, "SENT") IN
         /\ queue' = Free(m, b)
         /\ \/ queue[m][b].success /\ SendDoneSuccess(m, queue[m][b])
            \/ /\ ~queue[m][b].success
               /\ six2six_state' = [six2six_state EXCEPT ![m] = "IDLE"]
               /\ UNCHANGED <<otfTasks, cells, hung>>
    /\ UNCHANGED <<timer, timeoutTasks, bounds>>

\* otf_addCell_task and otf_removeCell_task
OtfTask(m) ==
    /\ ~hung[m]
    /\ Owned(m, "RECEIVED") \cup Owned(m, "SENT") = {}
    /\ otfTasks[m] # << >>
    /\ otfTasks' = [otfTasks EXCEPT ![m] = Tail(@)]
    /\ \/ Head(otfTasks[m]) = "add" /\ AddCells(m)
       \/ Head(otfTasks[m]) = "remove" /\ RemoveCell(m)
    /\ UNCHANGED <<timeoutTasks, cells, hung, bounds>>

\* The timer interrupt pushes the task ...
TimerFires(m) ==
    /\ ~hung[m]
    /\ timer[m]
    /\ timeouts < MaxTimeouts
    /\ timer' = [timer EXCEPT ![m] = FALSE]
    /\ timeoutTasks' = [timeoutTasks EXCEPT ![m] = @ + 1]
    /\ timeouts' = timeouts + 1
    /\ UNCHANGED <<preferredParent, six2six_state, otfTasks, queue, cells, hung,
                   calls, framesLost, acksLost, switches>>

\* ... timer_sixtop_six2six_timeout_fired, of the lowest priority.
TimeoutTask(m) ==
    /\ ~hung[m]
    /\ Owned(m, "RECEIVED") \cup Owned(m, "SENT") = {}
    /\ otfTasks[m] = << >>
    /\ timeoutTasks[m] > 0
    /\ timeoutTasks' = [timeoutTasks EXCEPT ![m] = @ - 1]
    /\ six2six_state' = [six2six_state EXCEPT ![m] = "IDLE"]
    /\ UNCHANGED <<timer, otfTasks, queue, cells, hung, bounds>>

-----------------------------------------------------------------------------
\* openqueue_macGetDataPacket: in a shared cell the first packet for the MAC, in
\* a TX cell the first one for its neighbor.
HasTx(m, n) == \E c \in cells[m] : c.type = "TX" /\ c.neighbor = n

FirstForNeighbor(m, b) ==
    \A d \in Owned(m, "TO_MAC") : queue[m][d].neighbor = queue[m][b].neighbor => b <= d

MacMaySend(m, b) ==
    /\ ~hung[m]
    /\ b \in Owned(m, "TO_MAC")
    /\ \/ b = FirstOwned(m, "TO_MAC")
       \/ FirstForNeighbor(m, b) /\ HasTx(m, queue[m][b].neighbor)

\* The copy the neighbor hands to its 6top; the MAC there takes a buffer too.
Received(m, pkt) == [pkt EXCEPT !.neighbor = m, !.owner = "RECEIVED",
                                !.retriesLeft = 0, !.success = FALSE]

MayReceive(n) == n \in Motes /\ ~hung[n] /\ Owned(n, "NULL") # {}

\* Mutant: the last attempt is not noticed.
UnacknowledgedForever(pkt) == [pkt EXCEPT !.retriesLeft = @ - 1]

\* endSlot, or no ACK in time: one attempt less, and failure after the last.
Unacknowledged(pkt) ==
    IF pkt.retriesLeft = 1
    THEN [pkt EXCEPT !.retriesLeft = 0, !.owner = "SENT", !.success = FALSE]
    ELSE [pkt EXCEPT !.retriesLeft = @ - 1]

Acknowledged(pkt) == [pkt EXCEPT !.owner = "SENT", !.success = TRUE]

\* The frame arrives; its acknowledgement does too, or is lost.
FrameDelivered(m, b) ==
    LET pkt == queue[m][b]
        n == pkt.neighbor IN
    /\ MacMaySend(m, b)
    /\ MayReceive(n)
    /\ \/ /\ queue' = [queue EXCEPT ![m][b] = Acknowledged(pkt),
                                    ![n][FirstOwned(n, "NULL")] = Received(m, pkt)]
          /\ UNCHANGED acksLost
       \/ /\ framesLost + acksLost < MaxLosses
          /\ acksLost' = acksLost + 1
          /\ queue' = [queue EXCEPT ![m][b] = Unacknowledged(pkt),
                                    ![n][FirstOwned(n, "NULL")] = Received(m, pkt)]
    /\ UNCHANGED <<six2six_state, timer, timeoutTasks, otfTasks, cells, hung,
                   preferredParent, calls, framesLost, timeouts, switches>>

\* The frame does not arrive: lost by the radio, or nobody can receive it.
FrameLost(m, b) ==
    /\ MacMaySend(m, b)
    /\ \/ ~MayReceive(queue[m][b].neighbor) /\ UNCHANGED framesLost
       \/ framesLost + acksLost < MaxLosses /\ framesLost' = framesLost + 1
    /\ queue' = [queue EXCEPT ![m][b] = Unacknowledged(queue[m][b])]
    /\ UNCHANGED <<six2six_state, timer, timeoutTasks, otfTasks, cells, hung,
                   preferredParent, calls, acksLost, timeouts, switches>>

\* A DIO moves a mote to another parent; its cells stay with the former one.
SwitchParent ==
    /\ switches < MaxSwitches
    /\ switches' = switches + 1
    /\ preferredParent' \in Networks \ {preferredParent}
    /\ UNCHANGED <<six2six_state, timer, timeoutTasks, otfTasks, queue, cells, hung,
                   calls, framesLost, acksLost, timeouts>>

Task(m) == NotifReceive(m) \/ NotifSendDone(m) \/ OtfTask(m) \/ TimeoutTask(m)

Transmit(m) == \E b \in Buffers : FrameDelivered(m, b) \/ FrameLost(m, b)

Next ==
    \/ SwitchParent
    \/ \E m \in Motes : C6tRequest(m) \/ Task(m) \/ TimerFires(m) \/ Transmit(m)

\* The scheduler's loop runs every task, the MAC has a shared cell in every
\* slotframe, and the hardware timer fires.
Spec ==
    /\ Init /\ [][Next]_vars
    /\ \A m \in Motes : WF_vars(Task(m)) /\ WF_vars(Transmit(m)) /\ WF_vars(TimerFires(m))

-----------------------------------------------------------------------------
SixtopTypeOK ==
    /\ six2six_state \in [Motes -> SixStates]
    /\ timer \in [Motes -> BOOLEAN]
    /\ timeoutTasks \in [Motes -> Nat]
    /\ otfTasks \in [Motes -> Seq({"add", "remove"})]
    /\ queue \in [Motes -> [Buffers -> Packet \cup {FreeBuffer}]]
    /\ cells \in [Motes -> SUBSET Cell]
    /\ hung \in [Motes -> BOOLEAN]
    /\ preferredParent \in Networks
    /\ {calls, framesLost, acksLost, timeouts, switches} \subseteq Nat

\* Every state that waits is ended by something still to come: the initiator's by
\* the timeout, the responder's by the end of the transmission of its response.
WaitsAreGuarded ==
    \A m \in Motes : ~hung[m] =>
        /\ six2six_state[m] \in {"WAIT_ADDREQUEST_SENDDONE", "WAIT_ADDRESPONSE",
                                 "ADDRESPONSE_RECEIVED", "WAIT_REMOVEREQUEST_SENDDONE"}
             => timer[m] \/ timeoutTasks[m] > 0
        /\ six2six_state[m] = "WAIT_ADDRESPONSE_SENDDONE"
             => \E b \in Buffers : /\ queue[m][b].owner \in {"TO_MAC", "SENT"}
                                   /\ queue[m][b].opcode = "RESPONSE"

\* No packet under way and no task waiting, anywhere.
Quiet ==
    \A m \in Motes : /\ ~hung[m]
                     /\ Owned(m, "NULL") = Buffers
                     /\ otfTasks[m] = << >>
                     /\ timeoutTasks[m] = 0

\* TX cells whose receiver does not listen: every frame sent in one is lost.
DeafCells ==
    UNION {{m} \X {c \in cells[m] :
                     /\ c.type = "TX"
                     /\ [slotOffset |-> c.slotOffset, type |-> "RX", neighbor |-> m]
                          \notin cells[c.neighbor]} : m \in Motes}

\* The cells a mote still sends in: not those whose release is acknowledged and
\* only waits for the task.
HeldCells(m) ==
    {c \in cells[m] : \A b \in Owned(m, "SENT") :
        ~(queue[m][b].opcode = "REMOVE" /\ queue[m][b].success
            /\ c.slotOffset \in queue[m][b].cells)}

\* Two motes that send in the same offset to the same receiver.
Collide(m, n) == m # n /\ \E c \in HeldCells(m) \cap HeldCells(n) : c.type = "TX"

\* Lost frames, crossing requests, busy neighbors and full queues never leave a
\* sender deaf nor make two children collide: as long as no timeout cuts an
\* exchange short, each TX cell without its RX cell, once everything has settled,
\* has cost a lost acknowledgement, and without one the parent gives an offset to
\* one child at a time.
SchedulesAgree ==
    timeouts = 0 => /\ Quiet => Cardinality(DeafCells) <= acksLost
                    /\ acksLost = 0 => ~\E m, n \in Motes : Collide(m, n)

\* A negotiation always ends, unless the responder has found no buffer for its
\* response (ADDREQUEST_RECEIVED has no timeout).
NegotiationEnds ==
    \A m \in Motes : six2six_state[m] # "IDLE"
        ~> (six2six_state[m] \in {"IDLE", "ADDREQUEST_RECEIVED"} \/ hung[m])
=============================================================================
