----------------------------- MODULE SlotEngine -----------------------------
(***************************************************************************)
(* How the TSCH state machine (openstack/02a-MAClow/IEEE802154E.c) walks   *)
(* the schedule.  At each slot interrupt it counts slotOffset and compares *)
(* it with nextActiveSlotOffset, which it cached the last time it ran a    *)
(* cell; 6top tasks change the schedule in between.  The inside of a slot  *)
(* is reduced to whether its activity is over (state S_SLEEP) when the     *)
(* next one starts; ranAt and ranCell remember the slot just started and   *)
(* the offset of the cell run in it.                                       *)
(***************************************************************************)
EXTENDS Schedule

CONSTANTS
    NumSerialRx,   \* NUMSERIALRX, slots one SERIALRX cell lasts
    MaxChanges,    \* bound: schedule changes by 6top
    MaxDesyncs     \* bound: losses of synchronization

ASSUME EngineAssumption ==
    NumSerialRx \in Nat \ {0} /\ MaxChanges \in Nat /\ MaxDesyncs \in Nat

VARIABLES
    isDAGroot,              \* fixed for the run
    isSync,
    slotOffset,
    nextActiveSlotOffset,   \* the cached answer of the schedule
    busy,                   \* state # S_SLEEP
    ranAt, ranCell,         \* slot and cell just run, NoSlot when none
    changes, desyncs,       \* how often the bounded events happened
    misfires                \* cells run in a slot that is not theirs

engineVars == <<isDAGroot, isSync, slotOffset, nextActiveSlotOffset, busy,
                ranAt, ranCell, changes, desyncs, misfires>>

NoSlot == FrameLength

\* Mutant: slotOffset never wraps.
FollowingUnwrapped(s) == s + 1

\* incrementAsnOffset
Following(s) == (s + 1) % FrameLength

EngineInit ==
    /\ Init
    /\ isDAGroot \in BOOLEAN
    /\ isSync = isDAGroot
    /\ slotOffset = 0
    /\ nextActiveSlotOffset = 0
    /\ busy = FALSE
    /\ ranAt = NoSlot /\ ranCell = NoSlot
    /\ changes = 0 /\ desyncs = 0 /\ misfires = 0

RanNothing == ranAt' = NoSlot /\ ranCell' = NoSlot /\ UNCHANGED misfires

\* deSyncTimeout reached zero: no word from the time parent for too long.
Desynchronize ==
    /\ isSync /\ ~isDAGroot
    /\ desyncs < MaxDesyncs
    /\ desyncs' = desyncs + 1
    /\ isSync' = FALSE
    /\ slotOffset' = Following(slotOffset)
    /\ busy' = FALSE
    /\ RanNothing
    /\ UNCHANGED <<vars, isDAGroot, nextActiveSlotOffset, changes>>

\* Mutant: the slot given up advances the schedule all the same.
OverrunAdvancing ==
    /\ isSync /\ busy
    /\ AdvanceSlot
    /\ slotOffset' = Following(slotOffset)
    /\ nextActiveSlotOffset' =
         scheduleBuf[scheduleBuf[currentScheduleEntry'].next].slotOffset
    /\ busy' = FALSE
    /\ RanNothing
    /\ UNCHANGED <<isDAGroot, isSync, changes, desyncs>>

\* The activity of the previous slot is not over: this slot is given up, and the
\* schedule does not advance even if a cell starts here.
Overrun ==
    /\ isSync /\ busy
    /\ slotOffset' = Following(slotOffset)
    /\ busy' = FALSE
    /\ RanNothing
    /\ UNCHANGED <<vars, isDAGroot, isSync, nextActiveSlotOffset, changes, desyncs>>

\* Whether slot activity goes on after activity_ti1ORri1: a serial slot has none,
\* a TX slot only when the queue holds a packet for the neighbor.
MayStayBusy(type) ==
    CASE type = "SERIALRX" -> {FALSE}
      [] type = "TX"       -> BOOLEAN
      [] OTHER             -> {TRUE}

\* Mutant: the cache is filled before the schedule advances.
OwnOffset(cell) == cell.slotOffset

\* schedule_getNextActiveSlotOffset, once cell is the current one.
OffsetAfter(cell) == scheduleBuf[cell.next].slotOffset

\* The cached slot is reached: advance, cache the next one, run the current cell.
\* A serial cell lasts NumSerialRx slots, counted at once.
RunCell ==
    /\ isSync /\ ~busy
    /\ Following(slotOffset) = nextActiveSlotOffset
    /\ AdvanceSlot
    /\ LET cell == scheduleBuf[currentScheduleEntry'] IN
         /\ nextActiveSlotOffset' = OffsetAfter(cell)
         /\ ranAt' = Following(slotOffset)
         /\ ranCell' = cell.slotOffset
         /\ misfires' = misfires + (IF cell.slotOffset = ranAt' THEN 0 ELSE 1)
         /\ busy' \in MayStayBusy(cell.type)
         /\ slotOffset' = IF cell.type = "SERIALRX"
                          THEN (slotOffset + NumSerialRx) % FrameLength
                          ELSE Following(slotOffset)
    /\ UNCHANGED <<isDAGroot, isSync, changes, desyncs>>

\* No cell starts in this slot.
PassSlot ==
    /\ isSync /\ ~busy
    /\ Following(slotOffset) # nextActiveSlotOffset
    /\ slotOffset' = Following(slotOffset)
    /\ RanNothing
    /\ UNCHANGED <<vars, isDAGroot, isSync, nextActiveSlotOffset, busy, changes, desyncs>>

\* Not synchronized: a mote that is the root declares itself synchronized, any
\* other one listens and counts.
ListenSlot ==
    /\ ~isSync
    /\ isSync' = isDAGroot
    /\ slotOffset' = IF isDAGroot THEN slotOffset ELSE Following(slotOffset)
    /\ RanNothing
    /\ UNCHANGED <<vars, isDAGroot, nextActiveSlotOffset, busy, changes, desyncs>>

\* isr_ieee154e_newSlot
NewSlot == Desynchronize \/ Overrun \/ RunCell \/ PassSlot \/ ListenSlot

\* asnStoreFromAdv, then synchronizePacket, which counts one slot more when the
\* frame ends too close to the edge of the slot.  ADVs are sent in slot 0.
StoreFromAdv ==
    /\ ~isDAGroot
    /\ SyncSlotOffset(0)
    /\ nextActiveSlotOffset' =
         scheduleBuf[scheduleBuf[currentScheduleEntry'].next].slotOffset
    /\ slotOffset' \in {0, Following(0)}
    /\ isSync' = TRUE
    /\ busy' = FALSE
    /\ RanNothing
    /\ UNCHANGED <<isDAGroot, changes, desyncs>>

\* activity_synchronize_endOfFrame with a valid ADV
Join == ~isSync /\ StoreFromAdv

\* activity_ri5 with an ADV, in slot 0, while synchronized
ReceiveAdv == isSync /\ busy /\ slotOffset = 0 /\ StoreFromAdv

\* The activity of the slot ends; a frame or an ACK from the preferred parent may
\* have stretched the slot to two (synchronizePacket).
EndSlot ==
    /\ isSync /\ busy
    /\ busy' = FALSE
    /\ \/ UNCHANGED slotOffset
       \/ ~isDAGroot /\ slotOffset' = Following(slotOffset)
    /\ RanNothing
    /\ UNCHANGED <<vars, isDAGroot, isSync, nextActiveSlotOffset, changes, desyncs>>

\* A 6top task books an available slot offset or releases one.
ChangeSchedule ==
    /\ changes < MaxChanges
    /\ changes' = changes + 1
    /\ \/ \E s \in SlotOffsets, t \in {"TX", "RX"}, n \in Neighbors :
            SlotOffsetAvailable(s) /\ AddActiveSlot(s, t, FALSE, n)
       \/ \E s \in SlotOffsets, n \in Neighbors : RemoveActiveSlot(s, n)
    /\ RanNothing
    /\ UNCHANGED <<isDAGroot, isSync, slotOffset, nextActiveSlotOffset, busy, desyncs>>

EngineNext == NewSlot \/ Join \/ ReceiveAdv \/ EndSlot \/ ChangeSchedule

allVars == <<vars, engineVars>>

\* The slot timer always fires again, and a mote that listens hears an ADV.
EngineSpec ==
    /\ EngineInit /\ [][EngineNext]_allVars
    /\ WF_allVars(NewSlot)
    /\ WF_allVars(Join)

-----------------------------------------------------------------------------
EngineTypeOK ==
    /\ TypeOK
    /\ isDAGroot \in BOOLEAN /\ isSync \in BOOLEAN /\ busy \in BOOLEAN
    /\ slotOffset \in SlotOffsets /\ nextActiveSlotOffset \in SlotOffsets
    /\ ranAt \in SlotOffsets \cup {NoSlot} /\ ranCell \in SlotOffsets \cup {NoSlot}
    /\ changes \in 0 .. MaxChanges /\ desyncs \in 0 .. MaxDesyncs /\ misfires \in Nat

\* A stale nextActiveSlotOffset makes the mote run one cell in a slot that is not
\* its own, and then it is aligned again: at most one such cell for each change of
\* the schedule, and one more at boot, where the root has cached slot 0 while its
\* current entry is already the cell of slot 0.
OneMisfirePerChange == misfires <= changes + 1

\* Every cell that stays in the schedule of a synchronized mote is run again and
\* again, in spite of overruns, stretched slots and serial slots laid over it.
EveryCellServed ==
    \A s \in SlotOffsets :
        <>[](isSync /\ ~SlotOffsetAvailable(s)) => []<>(ranCell = s)
=============================================================================
