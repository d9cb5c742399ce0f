------------------------------ MODULE Schedule ------------------------------
(***************************************************************************)
(* openstack/02b-MAChigh/schedule.c: the slotframe as a fixed table of     *)
(* rows threaded into a circular list ordered by slot offset.  6top adds   *)
(* and removes rows from task context while the TSCH state machine moves   *)
(* currentScheduleEntry from interrupts; each call runs with interrupts    *)
(* disabled, so it is one step here.  The usage statistics and the backoff *)
(* that share schedule_vars touch neither the rows' order nor the cursor   *)
(* and are left out.                                                       *)
(***************************************************************************)
EXTENDS Cells, FiniteSets

CONSTANTS
    MaxActiveSlots,   \* MAXACTIVESLOTS, the rows of scheduleBuf
    FrameLength,      \* SUPERFRAME_LENGTH
    NumAdv,           \* NUMADVSLOTS
    NumSharedTxRx     \* NUMSHAREDTXRX

\* schedule_init's own cells: advertisement, shared, and one serial slot.
NumBoot == NumAdv + NumSharedTxRx + 1

ASSUME SizeAssumption ==
    /\ NumAdv \in Nat \ {0}
    /\ NumSharedTxRx \in Nat
    /\ MaxActiveSlots \in Nat
    /\ FrameLength \in Nat
    /\ NumBoot <= MaxActiveSlots
    /\ NumBoot <= FrameLength

VARIABLES
    scheduleBuf,            \* the rows
    currentScheduleEntry,   \* the row of the current slot, or NoRow
    hung                    \* a walk of the ring found no place to stop

vars == <<scheduleBuf, currentScheduleEntry, hung>>

Rows == 0 .. (MaxActiveSlots - 1)
NoRow == MaxActiveSlots
SlotOffsets == 0 .. (FrameLength - 1)
CellTypes == {"ADV", "TX", "RX", "TXRX", "SERIALRX"}

ScheduleEntry == [slotOffset : SlotOffsets, type : CellTypes \cup {"OFF"},
                  shared : BOOLEAN, neighbor : Addresses, next : Rows \cup {NoRow}]

\* schedule_resetEntry
OffEntry == [slotOffset |-> 0, type |-> "OFF", shared |-> FALSE,
             neighbor |-> NoAddr, next |-> NoRow]

Active == {e \in Rows : scheduleBuf[e].type # "OFF"}
Linked == {e \in Rows : scheduleBuf[e].next # NoRow}

MinRow(S) == CHOOSE e \in S : \A f \in S : e <= f

-----------------------------------------------------------------------------
\* The table schedule_init leaves: row i holds slot offset i.
BootEntry(i) ==
    [slotOffset |-> i,
     type |-> IF i < NumAdv THEN "ADV"
              ELSE IF i < NumAdv + NumSharedTxRx THEN "TXRX" ELSE "SERIALRX",
     shared |-> NumAdv <= i /\ i < NumAdv + NumSharedTxRx,
     neighbor |-> IF NumAdv <= i /\ i < NumAdv + NumSharedTxRx THEN Anycast ELSE NoAddr,
     next |-> IF i = NumBoot - 1 THEN 0 ELSE i + 1]

Init ==
    /\ scheduleBuf = [i \in Rows |-> IF i < NumBoot THEN BootEntry(i) ELSE OffEntry]
    /\ currentScheduleEntry = 0
    /\ hung = FALSE

\* Mutant: the new row goes after the current one, wherever it belongs.
InsertAfterCurrent(s) == {currentScheduleEntry}

\* The rows after which the insertion walk may stop for a new cell at offset s.
InsertionPoints(s) ==
    {p \in Linked : FitsBetween(scheduleBuf[p].slotOffset, s,
                                scheduleBuf[scheduleBuf[p].next].slotOffset)}

\* The row r is filled, then linked.  With no insertion point the while(1) of the
\* walk goes on for ever, interrupts disabled, the row filled but in no list.
LinkRow(r, entry) ==
    LET filled == [scheduleBuf EXCEPT ![r] = entry] IN
    IF currentScheduleEntry = NoRow
    THEN /\ scheduleBuf' = [filled EXCEPT ![r].next = r]
         /\ currentScheduleEntry' = r
         /\ UNCHANGED hung
    ELSE /\ \/ /\ \E p \in InsertionPoints(entry.slotOffset) :
                    scheduleBuf' = [filled EXCEPT ![r].next = scheduleBuf[p].next, ![p].next = r]
              /\ UNCHANGED hung
           \/ /\ InsertionPoints(entry.slotOffset) = {}
              /\ scheduleBuf' = filled
              /\ hung' = TRUE
         /\ UNCHANGED currentScheduleEntry

\* schedule_addActiveSlot.  A full table is left as it is (E_FAIL).
AddActiveSlot(s, type, shared, n) ==
    /\ ~hung
    /\ Rows \ Active # {}
    /\ LinkRow(MinRow(Rows \ Active),
               [slotOffset |-> s, type |-> type, shared |-> shared,
                neighbor |-> n, next |-> NoRow])

AddActiveSlotOverflow ==
    /\ ~hung
    /\ Rows \ Active = {}
    /\ UNCHANGED vars

\* Mutant: the scan compares the offset only.
MatchingAnyNeighbor(s, n) == {e \in Rows : scheduleBuf[e].slotOffset = s}

\* The rows schedule_removeActiveSlot's scan would stop at.
Matching(s, n) ==
    {e \in Rows : scheduleBuf[e].slotOffset = s /\ SameAddress(n, scheduleBuf[e].neighbor)}

\* Mutants: a cursor on the freed row stays there, or steps back.
RemoveKeepingCursor(s, n) ==
    /\ ~hung
    /\ \E r \in Matching(s, n), p \in Linked :
         /\ scheduleBuf[p].next = r
         /\ scheduleBuf' = [scheduleBuf EXCEPT ![p].next = scheduleBuf[r].next, ![r] = OffEntry]
    /\ UNCHANGED <<currentScheduleEntry, hung>>

RemoveSteppingBack(s, n) ==
    /\ ~hung
    /\ \E r \in Matching(s, n), p \in Linked :
         /\ scheduleBuf[p].next = r
         /\ scheduleBuf' = [scheduleBuf EXCEPT ![p].next = scheduleBuf[r].next, ![r] = OffEntry]
         /\ currentScheduleEntry' = IF currentScheduleEntry = r THEN p ELSE currentScheduleEntry
    /\ UNCHANGED hung

\* schedule_removeActiveSlot, when the scan finds a row; E_FAIL changes nothing.
RemoveActiveSlot(s, n) ==
    /\ ~hung
    /\ Matching(s, n) # {}
    /\ LET r == MinRow(Matching(s, n))
           after == scheduleBuf[r].next
       IN  IF after = r
           THEN /\ scheduleBuf' = [scheduleBuf EXCEPT ![r] = OffEntry]
                /\ currentScheduleEntry' = NoRow
           ELSE /\ \E p \in {q \in Linked : scheduleBuf[q].next = r} :
                     scheduleBuf' = [scheduleBuf EXCEPT ![p].next = after, ![r] = OffEntry]
                /\ currentScheduleEntry' =
                     IF currentScheduleEntry = r THEN after ELSE currentScheduleEntry
    /\ UNCHANGED hung

\* Mutant: the next row of the table instead of the next one of the list.
AdvanceByRow ==
    /\ ~hung
    /\ currentScheduleEntry' = currentScheduleEntry + 1
    /\ UNCHANGED <<scheduleBuf, hung>>

\* schedule_advanceSlot
AdvanceSlot ==
    /\ ~hung
    /\ currentScheduleEntry' = scheduleBuf[currentScheduleEntry].next
    /\ UNCHANGED <<scheduleBuf, hung>>

\* schedule_syncSlotOffset: advance until the offset is the target, for ever if
\* no linked row has it.
SyncSlotOffset(target) ==
    /\ ~hung
    /\ \/ \E e \in Linked :
            /\ scheduleBuf[e].slotOffset = target
            /\ currentScheduleEntry' = e
            /\ UNCHANGED hung
       \/ /\ \A e \in Linked : scheduleBuf[e].slotOffset # target
          /\ hung' = TRUE
          /\ UNCHANGED currentScheduleEntry
    /\ UNCHANGED scheduleBuf

\* schedule_getNextActiveSlotOffset
NextActiveSlotOffset == scheduleBuf[scheduleBuf[currentScheduleEntry].next].slotOffset

\* schedule_isSlotOffsetAvailable
SlotOffsetAvailable(s) == \A e \in Linked : scheduleBuf[e].slotOffset # s

\* 6top books dedicated cells, one direction each (sixtop_addCellsByState).
Next ==
    \/ \E s \in SlotOffsets, t \in {"TX", "RX"}, n \in Neighbors :
         AddActiveSlot(s, t, FALSE, n)
    \/ AddActiveSlotOverflow
    \/ \E s \in SlotOffsets, n \in Neighbors : RemoveActiveSlot(s, n)
    \/ AdvanceSlot
    \/ \E s \in SlotOffsets : SyncSlotOffset(s)

Spec == Init /\ [][Next]_vars

-----------------------------------------------------------------------------
TypeOK ==
    /\ scheduleBuf \in [Rows -> ScheduleEntry]
    /\ currentScheduleEntry \in Rows \cup {NoRow}
    /\ hung \in BOOLEAN

\* The rows in use are exactly the rows in the list, and the current row is one
\* of them: a row is never lost from the table, nor left in the ring once freed.
RowsLinked ==
    ~hung => /\ Linked = Active
             /\ currentScheduleEntry \in Linked
             /\ \A e \in Linked : scheduleBuf[e].next \in Linked

\* No slot offset is booked by two rows.
OffsetsDistinct ==
    ~hung => \A e, f \in Linked :
                 scheduleBuf[e].slotOffset = scheduleBuf[f].slotOffset => e = f

\* The link of a row leads to the row that follows it in the slotframe: no other
\* offset lies between the two, and a row follows itself only when it is alone.
RingSorted ==
    ~hung => \A e, f \in Linked :
                 e # f => ~Inside(scheduleBuf[e].slotOffset, scheduleBuf[f].slotOffset,
                                  scheduleBuf[scheduleBuf[e].next].slotOffset)

RingInv == RowsLinked /\ OffsetsDistinct /\ RingSorted

\* The cells of schedule_init stay for the life of the mote, so the ring is never
\* empty and the MAC never follows a null currentScheduleEntry.
BootCellsKept ==
    \A i \in 0 .. (NumBoot - 1) :
        \E e \in Rows : /\ scheduleBuf[e].slotOffset = i
                        /\ scheduleBuf[e].type = BootEntry(i).type
                        /\ scheduleBuf[e].neighbor \notin Neighbors

-----------------------------------------------------------------------------
CellOf(e) == [slotOffset |-> scheduleBuf[e].slotOffset, type |-> scheduleBuf[e].type,
              shared |-> scheduleBuf[e].shared, neighbor |-> scheduleBuf[e].neighbor]

BootCells == {[slotOffset |-> BootEntry(i).slotOffset, type |-> BootEntry(i).type,
               shared |-> BootEntry(i).shared, neighbor |-> BootEntry(i).neighbor]
              : i \in 0 .. (NumBoot - 1)}

Abstract == INSTANCE CellSet WITH
    InitCells <- BootCells,
    cells     <- {CellOf(e) : e \in Linked},
    here      <- scheduleBuf[currentScheduleEntry].slotOffset,
    stuck     <- hung

\* The table of linked rows implements the set of cells with a cyclic cursor:
\* whatever the order of bookings, releases and slots, the mote visits its cells
\* in the order of the slotframe and skips none.
ImplementsCellSet == Abstract!AbsSpec
=============================================================================
