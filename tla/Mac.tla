-------------------------------- MODULE Mac --------------------------------
(***************************************************************************)
(* Who holds a packet buffer.  Interrupts run the slot state machine of    *)
(* openstack/02a-MAClow/IEEE802154E.c over the packets of OpenQueue        *)
(* (openstack/cross-layers/openqueue.c), while the scheduler runs, one at  *)
(* a time, the tasks of 6top and of the upper layers that make packets,    *)
(* collect them and purge them.  An interrupt handler is one step; a task  *)
(* that makes a packet is interrupted between its steps.  The mote is not  *)
(* the root and has one neighbor, its time parent.  Slots without a cell   *)
(* and the contents of frames are left out.                                *)
(***************************************************************************)
EXTENDS Naturals, Sequences, FiniteSets, FiniteSetsExt

CONSTANTS
    Frame,         \* the types of the cells, in the order of the slotframe
    QueueLength,   \* QUEUELENGTH
    TxRetries,     \* TXRETRIES
    MinBE, MaxBE,  \* MINBE, MAXBE
    MaxPackets,    \* bound: packets made by the mote
    MaxDesyncs     \* bound: losses of synchronization

ASSUME MacAssumption ==
    /\ Frame \in Seq({"ADV", "TXRX", "TX", "RX", "SERIALRX"})
    /\ Len(Frame) > 0 /\ \A i \in 1 .. Len(Frame) : Frame[i] = "ADV" <=> i = 1
    /\ QueueLength \in Nat \ {0} /\ TxRetries \in Nat \ {0}
    /\ MinBE \in Nat \ {0} /\ MaxBE \in Nat /\ MinBE <= MaxBE
    /\ MaxPackets \in Nat /\ MaxDesyncs \in Nat

VARIABLES
    state,           \* of the slot state machine
    isSync,
    cell,            \* index in Frame of currentScheduleEntry
    backoff, backoffExponent,
    queue,           \* the packet buffers
    dataToSend, dataReceived, ackToSend,   \* the MAC's pointers, NoBuffer for NULL
    rxTasks, txTasks,   \* task_sixtopNotifReceive and NotifSendDone pending
    task,            \* what the task in progress does next
    making,          \* the buffer it fills, or NoBuffer
    busySendingKA,
    made, desyncs    \* how often the bounded events happened

pointers == <<dataToSend, dataReceived, ackToSend>>
backoffVars == <<backoff, backoffExponent>>
taskVars == <<task, making, busySendingKA, made>>
vars == <<state, isSync, cell, backoffVars, queue, pointers, rxTasks, txTasks,
          taskVars, desyncs>>

\* The states that last: the PREPARE and PROC states are left by the handler that
\* enters them.
SyncStates == {"SYNCLISTEN", "SYNCRX"}
TxStates == {"TXDATAOFFSET", "TXDATAREADY", "TXDATADELAY", "TXDATA",
             "RXACKOFFSET", "RXACKREADY", "RXACKLISTEN", "RXACK"}
RxStates == {"RXDATAOFFSET", "RXDATAREADY", "RXDATALISTEN", "RXDATA"}
AckStates == {"TXACKREADY", "TXACKDELAY", "TXACK"}

Buffers == 1 .. QueueLength
NoBuffer == 0

FreeBuffer == [creator |-> "NULL", owner |-> "NULL", broadcast |-> FALSE,
               retriesLeft |-> 0, attempts |-> 0]

\* A buffer the MAC has taken for a frame or an acknowledgement.
MacBuffer(o) == [FreeBuffer EXCEPT !.creator = "MAC", !.owner = o]

Packet == [creator : {"NULL", "MAC", "SIXTOP", "UPPER"},
           owner : {"NULL", "MAKER", "TO_MAC", "MAC", "TO_SIXTOP"},
           broadcast : BOOLEAN, retriesLeft : 0 .. TxRetries, attempts : 0 .. TxRetries]

Retries(broadcast) == IF broadcast THEN 1 ELSE TxRetries

FreeBuffers == {b \in Buffers : queue[b].owner = "NULL"}
IsAdv(p) == p.creator = "SIXTOP" /\ p.broadcast
IsKA(p) == p.creator = "SIXTOP" /\ ~p.broadcast

\* openqueue_sixtopGetSentPacket, openqueue_sixtopGetReceivedPacket
SentPackets == {b \in Buffers : queue[b].owner = "TO_SIXTOP" /\ queue[b].creator # "MAC"}
ReceivedPackets == {b \in Buffers : queue[b].owner = "TO_SIXTOP" /\ queue[b].creator = "MAC"}

-----------------------------------------------------------------------------
Init ==
    /\ state = "SLEEP" /\ isSync = FALSE /\ cell = 1
    /\ backoff = 0 /\ backoffExponent = MinBE - 1
    /\ queue = [b \in Buffers |-> FreeBuffer]
    /\ dataToSend = NoBuffer /\ dataReceived = NoBuffer /\ ackToSend = NoBuffer
    /\ rxTasks = 0 /\ txTasks = 0
    /\ task = "none" /\ making = NoBuffer
    /\ busySendingKA = FALSE
    /\ made = 0 /\ desyncs = 0

\* schedule_indicateTx, with the exponent e it starts from: only a shared cell
\* changes the backoff.
IndicateTx(acked, e) ==
    IF Frame[cell] # "TXRX" THEN backoffExponent' = e /\ UNCHANGED backoff
    ELSE IF acked THEN backoffExponent' = MinBE - 1 /\ backoff' = 0
    ELSE /\ backoffExponent' = IF e < MaxBE THEN e + 1 ELSE e
         /\ backoff' \in 0 .. (2 ^ backoffExponent' - 1)

\* Mutant: a packet that is tried again keeps its retries.
AttemptedForFree(p, acked) ==
    IF acked THEN [p EXCEPT !.owner = "TO_SIXTOP"]
    ELSE IF p.retriesLeft = 1 THEN [p EXCEPT !.owner = "TO_SIXTOP", !.retriesLeft = 0]
    ELSE [p EXCEPT !.owner = "TO_MAC"]

\* Mutant: the last attempt is not noticed.
AttemptedForever(p, acked) ==
    IF acked THEN [p EXCEPT !.owner = "TO_SIXTOP"]
    ELSE [p EXCEPT !.retriesLeft = @ - 1, !.owner = "TO_MAC"]

\* The packet whose transmission ends: reported, or given back for a retry.
Attempted(p, acked) ==
    IF acked THEN [p EXCEPT !.owner = "TO_SIXTOP"]
    ELSE [p EXCEPT !.retriesLeft = @ - 1,
                   !.owner = IF p.retriesLeft = 1 THEN "TO_SIXTOP" ELSE "TO_MAC"]

Reported(acked) == dataToSend # NoBuffer /\ (acked \/ queue[dataToSend].retriesLeft = 1)

\* Mutant: the buffer of an acknowledgement that was not sent is not freed.
LeaveBuffersKeepingAck(acked, received) ==
    queue' = [b \in Buffers |->
                 CASE b = dataToSend -> Attempted(queue[b], acked)
                   [] b = received   -> MacBuffer("TO_SIXTOP")
                   [] OTHER          -> queue[b]]

\* What endSlot and the handler that calls it make of the buffers the MAC holds:
\* notif_sendDone, notif_receive, openqueue_freePacketBuffer.
LeaveBuffers(acked, received) ==
    queue' = [b \in Buffers |->
                 CASE b = dataToSend -> Attempted(queue[b], acked)
                   [] b = received   -> MacBuffer("TO_SIXTOP")
                   [] b = ackToSend  -> FreeBuffer
                   [] OTHER          -> queue[b]]

\* Mutant: the task for a received frame is pushed only when none is pending.
TasksForSlotOnce(acked, received) ==
    /\ txTasks' = txTasks + (IF Reported(acked) THEN 1 ELSE 0)
    /\ rxTasks' = IF received = NoBuffer THEN rxTasks ELSE 1

\* The tasks notif_sendDone and notif_receive push.
TasksForSlot(acked, received) ==
    /\ txTasks' = txTasks + (IF Reported(acked) THEN 1 ELSE 0)
    /\ rxTasks' = rxTasks + (IF received # NoBuffer THEN 1 ELSE 0)

\* endSlot.  A packet to send that is still there has failed, a received frame
\* is handed up, buffers of acknowledgements are freed.
Leave(acked, received) ==
    /\ LeaveBuffers(acked, received)
    /\ TasksForSlot(acked, received)
    /\ dataToSend' = NoBuffer /\ dataReceived' = NoBuffer /\ ackToSend' = NoBuffer
    /\ state' = "SLEEP"

EndSlotWith(acked, received) ==
    /\ Leave(acked, received)
    /\ IF dataToSend # NoBuffer THEN IndicateTx(acked, backoffExponent)
                                ELSE UNCHANGED backoffVars

EndSlot == EndSlotWith(FALSE, dataReceived)

MoveTo(s) ==
    /\ state' = s
    /\ UNCHANGED <<backoffVars, queue, pointers, rxTasks, txTasks>>

-----------------------------------------------------------------------------
\* The packets openqueue_macGetAdvPacket and openqueue_macGetDataPacket look for
\* in a cell of this type.
Candidates(type) ==
    {b \in Buffers :
        /\ queue[b].owner = "TO_MAC"
        /\ CASE type = "ADV"  -> IsAdv(queue[b])
             [] type = "TXRX" -> ~IsAdv(queue[b])
             [] type = "TX"   -> ~queue[b].broadcast
             [] OTHER         -> FALSE}

\* Mutant: the backoff is not counted down.
BackoffKept(type) == backoff

\* schedule_getOkToSend counts the shared cells down and allows sending at zero.
BackoffAt(type) == IF type = "TXRX" /\ backoff > 0 THEN backoff - 1 ELSE backoff
OkToSend(type) == type = "TXRX" => BackoffAt(type) = 0

\* activity_ti1ORri1 in the slot of the next cell: send, listen, or neither.
RunCell ==
    /\ isSync /\ state = "SLEEP"
    /\ cell' = (cell % Len(Frame)) + 1
    /\ LET type == Frame[cell'] IN
         /\ backoff' = BackoffAt(type)
         /\ IF Candidates(type) # {} /\ OkToSend(type)
            THEN LET b == Min(Candidates(type)) IN
                   /\ dataToSend' = b
                   /\ queue' = [queue EXCEPT ![b].owner = "MAC", ![b].attempts = @ + 1]
                   /\ state' = "TXDATAOFFSET"
            ELSE /\ state' = IF type \in {"TX", "SERIALRX"} THEN "SLEEP" ELSE "RXDATAOFFSET"
                 /\ UNCHANGED <<dataToSend, queue>>
    /\ UNCHANGED <<isSync, backoffExponent, dataReceived, ackToSend, rxTasks, txTasks,
                   taskVars, desyncs>>

\* The previous slot is not over when the next one starts.
Overrun ==
    /\ isSync /\ state # "SLEEP"
    /\ EndSlot
    /\ UNCHANGED <<isSync, cell, taskVars, desyncs>>

\* deSyncTimeout reached zero: changeIsSync resets the backoff, then endSlot.
Desynchronize ==
    /\ isSync
    /\ desyncs < MaxDesyncs
    /\ desyncs' = desyncs + 1
    /\ isSync' = FALSE
    /\ Leave(FALSE, dataReceived)
    /\ IF dataToSend # NoBuffer /\ Frame[cell] = "TXRX" THEN IndicateTx(FALSE, MinBE - 1)
       ELSE backoffExponent' = MinBE - 1 /\ backoff' = 0
    /\ UNCHANGED <<cell, taskVars>>

\* activity_synchronize_newSlot
ListenForAdv ==
    /\ ~isSync
    /\ MoveTo(IF state = "SYNCRX" THEN "SYNCRX" ELSE "SYNCLISTEN")
    /\ UNCHANGED <<isSync, cell, taskVars, desyncs>>

\* isr_ieee154e_newSlot
NewSlot == RunCell \/ Overrun \/ Desynchronize \/ ListenForAdv

-----------------------------------------------------------------------------
\* The states the timer leads on from; from the others it ends the slot.
TimerLeadsTo == [
    TXDATAOFFSET |-> "TXDATAREADY",   \* ti2
    TXDATAREADY  |-> "TXDATADELAY",   \* ti3
    RXACKOFFSET  |-> "RXACKREADY",    \* ti6
    RXACKREADY   |-> "RXACKLISTEN",   \* ti7
    RXDATAOFFSET |-> "RXDATAREADY",   \* ri2
    RXDATAREADY  |-> "RXDATALISTEN",  \* ri3
    TXACKREADY   |-> "TXACKDELAY"]    \* ri7

\* activity_ri6: the acknowledgement takes a buffer; without one the frame is
\* handed up all the same.
PrepareAck ==
    IF FreeBuffers = {} THEN EndSlot
    ELSE /\ ackToSend' = Min(FreeBuffers)
         /\ queue' = [queue EXCEPT ![Min(FreeBuffers)] = MacBuffer("MAC")]
         /\ state' = "TXACKREADY"
         /\ UNCHANGED <<backoffVars, dataToSend, dataReceived, rxTasks, txTasks>>

\* isr_ieee154e_timer
Timer ==
    /\ isSync /\ state # "SLEEP"
    /\ \/ state \in DOMAIN TimerLeadsTo /\ MoveTo(TimerLeadsTo[state])
       \/ state = "TXACKOFFSET" /\ PrepareAck
       \/ state \notin DOMAIN TimerLeadsTo \cup {"TXACKOFFSET"} /\ EndSlot
    /\ UNCHANGED <<isSync, cell, taskVars, desyncs>>

\* The states in which the radio may start a frame.
FrameLeadsTo == [
    TXDATADELAY  |-> "TXDATA",   \* ti4
    RXACKREADY   |-> "RXACK",    \* ti8
    RXACKLISTEN  |-> "RXACK",
    RXDATAREADY  |-> "RXDATA",   \* ri4
    RXDATALISTEN |-> "RXDATA",
    TXACKDELAY   |-> "TXACK"]    \* ri8

\* ieee154e_startOfFrame; in a state that does not expect it the slot is aborted,
\* and a mote that is not synchronized ignores it.
StartOfFrame ==
    /\ \/ isSync /\ state \in DOMAIN FrameLeadsTo /\ MoveTo(FrameLeadsTo[state])
       \/ isSync /\ state \notin DOMAIN FrameLeadsTo /\ EndSlot
       \/ ~isSync /\ MoveTo(IF state = "SYNCLISTEN" THEN "SYNCRX" ELSE state)
    /\ UNCHANGED <<isSync, cell, taskVars, desyncs>>

\* activity_ti5: a broadcast packet is done, another one waits for its ACK.
DataSent ==
    /\ state = "TXDATA"
    /\ IF queue[dataToSend].broadcast THEN EndSlotWith(TRUE, NoBuffer)
                                      ELSE MoveTo("RXACKOFFSET")

\* activity_ti9: the ACK takes a buffer until the handler returns; without one, or
\* when it is not valid, the packet is not acknowledged.
AckReceived ==
    /\ state = "RXACK"
    /\ \/ FreeBuffers # {} /\ EndSlotWith(TRUE, NoBuffer)
       \/ EndSlot

\* activity_ri5: no buffer or an invalid frame; a frame to acknowledge; one that
\* asks for no acknowledgement, an ADV among them.  ADVs are exchanged in the ADV
\* cell, so the cell asnStoreFromAdv moves to is the current one.
FrameReceived ==
    /\ state = "RXDATA"
    /\ \/ EndSlot
       \/ /\ FreeBuffers # {}
          /\ dataReceived' = Min(FreeBuffers)
          /\ queue' = [queue EXCEPT ![Min(FreeBuffers)] = MacBuffer("MAC")]
          /\ state' = "TXACKOFFSET"
          /\ UNCHANGED <<backoffVars, dataToSend, ackToSend, rxTasks, txTasks>>
       \/ FreeBuffers # {} /\ EndSlotWith(FALSE, Min(FreeBuffers))

\* activity_ri9, and the states that do not expect the end of a frame
OtherEndOfFrame ==
    /\ state \notin {"TXDATA", "RXACK", "RXDATA"}
    /\ EndSlot

\* ieee154e_endOfFrame while synchronized
EndOfFrame ==
    /\ isSync
    /\ DataSent \/ AckReceived \/ FrameReceived \/ OtherEndOfFrame
    /\ UNCHANGED <<isSync, cell, taskVars, desyncs>>

\* activity_synchronize_endOfFrame with a valid ADV.  In another state than
\* SYNCRX the code calls endSlot, which finds nothing to clean, and goes on.
Synchronize ==
    /\ ~isSync
    /\ FreeBuffers # {}
    /\ Leave(FALSE, Min(FreeBuffers))
    /\ isSync' = TRUE
    /\ cell' = 1
    /\ UNCHANGED <<backoffVars, taskVars, desyncs>>

\* Mutant: the buffer of a frame that is not a valid ADV is not freed.
NotSynchronizedKeepingFrame ==
    /\ ~isSync
    /\ IF FreeBuffers = {} THEN state' = "SLEEP" /\ UNCHANGED queue
       ELSE /\ queue' = [queue EXCEPT ![Min(FreeBuffers)] = MacBuffer("MAC")]
            /\ state' = "SYNCLISTEN"
    /\ UNCHANGED <<isSync, cell, backoffVars, pointers, rxTasks, txTasks, taskVars, desyncs>>

\* The same, without a buffer or with an invalid frame.
NotSynchronized ==
    /\ ~isSync
    /\ \/ FreeBuffers = {} /\ MoveTo("SLEEP")
       \/ FreeBuffers # {} /\ MoveTo("SYNCLISTEN")
    /\ UNCHANGED <<isSync, cell, taskVars, desyncs>>

Interrupt == NewSlot \/ Timer \/ StartOfFrame \/ EndOfFrame \/ Synchronize \/ NotSynchronized

-----------------------------------------------------------------------------
macVars == <<state, isSync, cell, backoffVars, pointers, desyncs>>

\* The scheduler runs a task of 6top's management timer (sixtop_sendEB,
\* sixtop_sendKA) or of an upper layer when no packet waits to be collected.
PickTask(t) ==
    /\ task = "none" /\ rxTasks = 0 /\ txTasks = 0
    /\ made < MaxPackets \/ ~isSync
    /\ task' = t
    /\ UNCHANGED <<macVars, queue, rxTasks, txTasks, making, busySendingKA, made>>

\* Not synchronized: ADVs and KAs are purged, whoever holds them.
Purge ==
    /\ ~isSync
    /\ task \in {"sendEB", "sendKA"}
    /\ queue' = [b \in Buffers |-> IF queue[b].creator = "SIXTOP" THEN FreeBuffer ELSE queue[b]]
    /\ busySendingKA' = IF task = "sendKA" THEN FALSE ELSE busySendingKA
    /\ task' = "none"
    /\ UNCHANGED <<macVars, rxTasks, txTasks, making, made>>

\* openqueue_getFreePacketBuffer, refused to them while not synchronized.
Allocate ==
    /\ isSync
    /\ task \in {"sendEB", "sendKA", "sendData"}
    /\ task = "sendKA" => ~busySendingKA
    /\ FreeBuffers # {}
    /\ making' = Min(FreeBuffers)
    /\ \E broadcast \in (CASE task = "sendEB" -> {TRUE} [] task = "sendKA" -> {FALSE}
                           [] OTHER -> BOOLEAN) :
         queue' = [queue EXCEPT ![Min(FreeBuffers)] =
                      [creator |-> IF task = "sendData" THEN "UPPER" ELSE "SIXTOP",
                       owner |-> "MAKER", broadcast |-> broadcast,
                       retriesLeft |-> 0, attempts |-> 0]]
    /\ made' = made + 1
    /\ task' = "submit"
    /\ UNCHANGED <<macVars, rxTasks, txTasks, busySendingKA>>

\* No buffer, a KA still under way, or no neighbor that needs one.
GiveUp ==
    /\ \/ task = "sendData" /\ (~isSync \/ FreeBuffers = {})
       \/ task = "sendEB" /\ isSync /\ FreeBuffers = {}
       \/ task = "sendKA" /\ isSync
    /\ task' = "none"
    /\ UNCHANGED <<macVars, queue, rxTasks, txTasks, making, busySendingKA, made>>

\* sixtop_send_internal
Submit ==
    /\ task = "submit"
    /\ queue' = [queue EXCEPT ![making].owner = "TO_MAC",
                              ![making].retriesLeft = Retries(queue[making].broadcast)]
    /\ busySendingKA' = (busySendingKA \/ IsKA(queue[making]))
    /\ making' = NoBuffer
    /\ task' = "none"
    /\ UNCHANGED <<macVars, rxTasks, txTasks, made>>

\* task_sixtopNotifReceive and the upper layers: the buffer ends up free.
NotifReceive ==
    /\ task = "none" /\ rxTasks > 0
    /\ rxTasks' = rxTasks - 1
    /\ queue' = [queue EXCEPT ![Min(ReceivedPackets)] = FreeBuffer]
    /\ UNCHANGED <<macVars, txTasks, taskVars>>

\* task_sixtopNotifSendDone; a packet purged since the task was pushed is not found.
NotifSendDone ==
    /\ task = "none" /\ rxTasks = 0 /\ txTasks > 0
    /\ txTasks' = txTasks - 1
    /\ IF SentPackets = {} THEN UNCHANGED <<queue, busySendingKA>>
       ELSE LET p == queue[Min(SentPackets)] IN
              /\ queue' = [queue EXCEPT ![Min(SentPackets)] = FreeBuffer]
              /\ busySendingKA' = (busySendingKA /\ ~IsKA(p))
    /\ UNCHANGED <<macVars, rxTasks, task, making, made>>

MakePacket == Purge \/ Allocate \/ GiveUp \/ Submit

Next ==
    \/ Interrupt
    \/ \E t \in {"sendEB", "sendKA", "sendData"} : PickTask(t)
    \/ MakePacket \/ NotifReceive \/ NotifSendDone

\* The slot timer and the management timer always fire again, tasks run to their
\* end, and a mote that listens hears ADVs, some of them when it has a buffer.
Fairness ==
    /\ WF_vars(NewSlot)
    /\ WF_vars(MakePacket) /\ WF_vars(NotifReceive) /\ SF_vars(NotifSendDone)
    /\ SF_vars(PickTask("sendKA"))
    /\ SF_vars(Synchronize)

Spec == Init /\ [][Next]_vars /\ Fairness

-----------------------------------------------------------------------------
MacTypeOK ==
    /\ state \in {"SLEEP", "TXACKOFFSET"} \cup SyncStates \cup TxStates \cup RxStates \cup AckStates
    /\ isSync \in BOOLEAN /\ cell \in 1 .. Len(Frame)
    /\ backoffExponent \in (MinBE - 1) .. MaxBE /\ backoff \in 0 .. (2 ^ MaxBE - 1)
    /\ queue \in [Buffers -> Packet]
    /\ {dataToSend, dataReceived, ackToSend, making} \subseteq Buffers \cup {NoBuffer}
    /\ rxTasks \in Nat /\ txTasks \in Nat
    /\ task \in {"none", "sendEB", "sendKA", "sendData", "submit"}
    /\ busySendingKA \in BOOLEAN
    /\ made \in Nat /\ desyncs \in 0 .. MaxDesyncs

\* The MAC owns exactly the buffers its pointers name, and which of them it holds
\* follows from the state: no error path forgets a buffer or keeps a pointer to
\* one it has given away.
HoldsWhatItOwns ==
    /\ {b \in Buffers : queue[b].owner = "MAC"}
         = {dataToSend, dataReceived, ackToSend} \ {NoBuffer}
    /\ dataToSend # NoBuffer <=> state \in TxStates
    /\ dataReceived # NoBuffer <=> state \in AckStates \cup {"TXACKOFFSET"}
    /\ ackToSend # NoBuffer <=> state \in AckStates

\* Each packet handed up has a task of its own still to run.  The tasks look for
\* the first packet they find: with one task less a packet would stay for ever.
EveryPacketHasTask ==
    /\ Cardinality(SentPackets) <= txTasks
    /\ Cardinality(ReceivedPackets) = rxTasks

\* Whatever ends an attempt (ACK lost, no buffer, overrun, desynchronization), it
\* costs exactly one retry: a packet is on the air at most TXRETRIES times.
RetriesCountAttempts ==
    \A b \in Buffers :
        LET p == queue[b]
            begun == IF p.owner = "MAC" THEN 1 ELSE 0 IN
        p.creator \in {"SIXTOP", "UPPER"} /\ p.owner \in {"TO_MAC", "MAC"}
            => p.attempts + p.retriesLeft = Retries(p.broadcast) + begun

\* The upper layers hold every buffer of a mote that is not synchronized: nothing
\* is sent, sixtop_sendEB and sixtop_sendKA purge only packets of their own, and
\* no buffer is left for an ADV.
Clogged ==
    /\ ~isSync
    /\ \A b \in Buffers : queue[b].creator = "UPPER" /\ queue[b].owner = "TO_MAC"

\* If the scheduler keeps up with the slots (again and again no packet waits to be
\* collected), every buffer in use is free again some day: packets are sent or
\* dropped, frames collected, acknowledgements released.  The exception is a queue
\* that is clogged: nothing frees it any more.
BuffersRecycled ==
    []<>(rxTasks = 0 /\ txTasks = 0)
        => (\A b \in Buffers : []<>(queue[b].owner = "NULL")) \/ <>[]Clogged

\* A mote that has lost synchronization finds its network again, unless its queue
\* is full of packets of the upper layers: a packet of 6top or a frame in a buffer
\* delays it, but does not keep it out.
Rejoins == ~isSync ~> (isSync \/ Clogged)
=============================================================================
