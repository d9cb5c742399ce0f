------------------------------ MODULE CellSet -------------------------------
(***************************************************************************)
(* What schedule.c promises its two users, 6top and the TSCH state         *)
(* machine: a set of cells with distinct slot offsets, and a cursor that   *)
(* visits them in the order of the slotframe, whatever is booked or        *)
(* released meanwhile.                                                     *)
(***************************************************************************)
EXTENDS Cells

CONSTANTS
    FrameLength,   \* slots in a slotframe
    InitCells      \* the cells schedule_init installs

VARIABLES
    cells,   \* the active cells
    here,    \* slot offset of the current cell
    stuck    \* a caller broke the contract and the module never returns

absvars == <<cells, here, stuck>>

SlotOffsets == 0 .. (FrameLength - 1)

CellTypes == {"ADV", "TX", "RX", "TXRX", "SERIALRX"}

Cell == [slotOffset : SlotOffsets, type : CellTypes, shared : BOOLEAN,
         neighbor : Addresses]

OffsetsOf(S) == {c.slotOffset : c \in S}

-----------------------------------------------------------------------------
AbsInit ==
    /\ cells = InitCells
    /\ here = 0
    /\ stuck = FALSE

\* A cell is booked in a free slot offset; the cursor does not move.
Install(c) ==
    /\ ~stuck
    /\ c.slotOffset \notin OffsetsOf(cells)
    /\ cells' = cells \cup {c}
    /\ UNCHANGED <<here, stuck>>

\* A cell is released; a cursor on it moves to the cell that followed it.
Release(c) ==
    /\ ~stuck
    /\ c \in cells
    /\ cells' = cells \ {c}
    /\ here' = IF here = c.slotOffset THEN CyclicNext(OffsetsOf(cells), here) ELSE here
    /\ UNCHANGED stuck

\* The cursor moves to the next cell of the slotframe.
Advance ==
    /\ ~stuck
    /\ here' = CyclicNext(OffsetsOf(cells), here)
    /\ UNCHANGED <<cells, stuck>>

\* After a resynchronisation the cursor moves to the cell at offset s.
MoveTo(s) ==
    /\ ~stuck
    /\ s \in OffsetsOf(cells)
    /\ here' = s
    /\ UNCHANGED <<cells, stuck>>

\* Booking an offset twice, or moving to one that has no cell, never returns.
Diverge(s, booking) ==
    /\ ~stuck
    /\ booking <=> s \in OffsetsOf(cells)
    /\ stuck' = TRUE
    /\ UNCHANGED <<cells, here>>

AbsNext ==
    \/ \E c \in Cell : Install(c)
    \/ \E c \in cells : Release(c)
    \/ Advance
    \/ \E s \in SlotOffsets : MoveTo(s)
    \/ \E s \in SlotOffsets, booking \in BOOLEAN : Diverge(s, booking)

AbsSpec == AbsInit /\ [][AbsNext]_absvars
=============================================================================
