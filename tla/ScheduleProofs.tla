--------------------------- MODULE ScheduleProofs ---------------------------
(***************************************************************************)
(* The circular list of schedule.c stays sorted, whole and free of double  *)
(* bookings for every table size, frame length and set of neighbours, and  *)
(* it implements the set of cells with a cursor of module CellSet.  Over   *)
(* it, the slot engine runs a cell out of its slot at most once a change.  *)
(***************************************************************************)
EXTENDS SlotEngine, FiniteSetTheorems, WellFoundedInduction, TLAPS

-----------------------------------------------------------------------------
(* The smallest member of a set of naturals, from the well-foundedness of <. *)

LEMMA LeastMember ==
    ASSUME NEW S, S \subseteq Nat, S # {}
    PROVE  \E m \in S : \A x \in S : m <= x
<1>1. IsWellFoundedOn(OpToRel(<, Nat), Nat)
  BY NatLessThanWellFounded, Zenon
<1>2. PICK m \in S : \A y \in S : ~(<<y, m>> \in OpToRel(<, Nat))
  BY <1>1, WFMin, Zenon
<1>3. \A y \in S : ~(y < m)
  BY <1>2, Zenon DEF OpToRel
<1> QED BY <1>3, SMT

LEMMA MinRowMember ==
    ASSUME NEW S, S \subseteq Nat, S # {}
    PROVE  MinRow(S) \in S
BY LeastMember, Zenon DEF MinRow

(* The walk's three conditions say exactly that the new offset lies between   *)
(* the two entries, and inserting there keeps every interval of the ring empty.*)

LEMMA FitsIsInside ==
    ASSUME NEW p \in Nat, NEW s \in Nat, NEW n \in Nat
    PROVE  FitsBetween(p, s, n) <=> Inside(p, s, n)
BY SMT DEF FitsBetween, Inside

-----------------------------------------------------------------------------
(* The inductive invariant.  Its ring conjuncts are needed together: a link   *)
(* can only be followed while its target is linked, an insertion keeps the    *)
(* offsets distinct only because the ring is sorted, and a removal unlinks the *)
(* right predecessor only because the offsets are distinct.                   *)

IInv == TypeOK /\ RingInv /\ BootCellsKept

LEMMA InitIInv ==
    ASSUME Init
    PROVE  IInv
<1> USE SizeAssumption, AddrAssumption
<1>1. \A i \in Rows : scheduleBuf[i] = IF i < NumBoot THEN BootEntry(i) ELSE OffEntry
  BY DEF Init
<1>2. /\ NumBoot \in Nat /\ NumBoot > 0 /\ 0 .. (NumBoot - 1) \subseteq Rows
      /\ MaxActiveSlots \in Nat /\ NumBoot <= MaxActiveSlots /\ 0 \in Rows
  BY DEF NumBoot, Rows
<1>3. \A i \in 0 .. (NumBoot - 1) : BootEntry(i) \in ScheduleEntry
  <2> SUFFICES ASSUME NEW i \in 0 .. (NumBoot - 1)
               PROVE  BootEntry(i) \in ScheduleEntry
    OBVIOUS
  <2>1. i \in SlotOffsets /\ i \in Rows /\ i \in Nat
    BY <1>2 DEF SlotOffsets, Rows
  <2>2. (IF i = NumBoot - 1 THEN 0 ELSE i + 1) \in Rows
    BY <1>2 DEF Rows
  <2> QED BY <2>1, <2>2 DEF BootEntry, ScheduleEntry, CellTypes, Addresses
<1>4. OffEntry \in ScheduleEntry
  <2>1. 0 \in SlotOffsets
    BY <1>2 DEF SlotOffsets
  <2> QED BY <2>1 DEF OffEntry, ScheduleEntry, Addresses
<1>5. TypeOK
  <2>1. ASSUME NEW i \in Rows
        PROVE  (IF i < NumBoot THEN BootEntry(i) ELSE OffEntry) \in ScheduleEntry
    <3>1. CASE i < NumBoot
      <4>1. i \in 0 .. (NumBoot - 1)
        BY <1>2, <3>1 DEF Rows
      <4> QED BY <1>3, <3>1, <4>1
    <3>2. CASE ~(i < NumBoot)
      BY <1>4, <3>2
    <3> QED BY <3>1, <3>2
  <2>2. scheduleBuf \in [Rows -> ScheduleEntry]
    BY <2>1 DEF Init
  <2>3. currentScheduleEntry \in Rows
    BY <1>2 DEF Init
  <2>4. hung \in BOOLEAN
    BY Zenon DEF Init
  <2> QED BY <2>2, <2>3, <2>4 DEF TypeOK
<1>6. \A i \in Rows : i < NumBoot => /\ scheduleBuf[i] = BootEntry(i)
                                     /\ scheduleBuf[i].slotOffset = i
                                     /\ scheduleBuf[i].type # "OFF"
                                     /\ scheduleBuf[i].next =
                                          IF i = NumBoot - 1 THEN 0 ELSE i + 1
  <2> SUFFICES ASSUME NEW i \in Rows, i < NumBoot
               PROVE  /\ BootEntry(i).slotOffset = i
                      /\ BootEntry(i).type # "OFF"
                      /\ BootEntry(i).next = IF i = NumBoot - 1 THEN 0 ELSE i + 1
    BY <1>1
  <2> QED BY DEF BootEntry
<1>7. \A i \in Rows : ~(i < NumBoot) => /\ scheduleBuf[i].type = "OFF"
                                        /\ scheduleBuf[i].next = NoRow
  BY <1>1 DEF OffEntry
<1>8. /\ Linked = {i \in Rows : i < NumBoot}
      /\ Active = {i \in Rows : i < NumBoot}
      /\ {i \in Rows : i < NumBoot} = 0 .. (NumBoot - 1)
  BY <1>2, <1>6, <1>7 DEF Linked, Active, Rows, NoRow
<1>9. RowsLinked
  <2>1. currentScheduleEntry \in Linked
    BY <1>2, <1>8 DEF Init
  <2>2. \A e \in Linked : scheduleBuf[e].next \in Linked
    BY <1>2, <1>6, <1>8
  <2> QED BY <1>8, <2>1, <2>2 DEF RowsLinked
<1>10. OffsetsDistinct
  BY <1>6, <1>8 DEF OffsetsDistinct
<1>11. RingSorted
  <2> SUFFICES ASSUME NEW e \in Linked, NEW f \in Linked, e # f
               PROVE  ~Inside(scheduleBuf[e].slotOffset, scheduleBuf[f].slotOffset,
                              scheduleBuf[scheduleBuf[e].next].slotOffset)
    BY DEF RingSorted
  <2>1. scheduleBuf[scheduleBuf[e].next].slotOffset = IF e = NumBoot - 1 THEN 0 ELSE e + 1
    BY <1>2, <1>6, <1>8
  <2> QED BY <1>2, <1>6, <1>8, <2>1 DEF Inside
<1>12. BootCellsKept
  <2> SUFFICES ASSUME NEW i \in 0 .. (NumBoot - 1)
               PROVE  /\ scheduleBuf[i].slotOffset = i
                      /\ scheduleBuf[i].type = BootEntry(i).type
                      /\ scheduleBuf[i].neighbor \notin Neighbors
    BY <1>2 DEF BootCellsKept
  <2>1. scheduleBuf[i] = BootEntry(i)
    BY <1>2, <1>6
  <2>2. BootEntry(i).slotOffset = i /\ BootEntry(i).neighbor \in {NoAddr, Anycast}
    BY DEF BootEntry
  <2> QED BY <2>1, <2>2
<1> QED BY <1>5, <1>9, <1>10, <1>11, <1>12 DEF IInv, RingInv

(* Cyclic order facts used below: a, b, c, ... are slot offsets.             *)

LEMMA InsideNested ==
    ASSUME NEW p \in Nat, NEW s \in Nat, NEW n \in Nat, NEW f \in Nat,
           Inside(p, s, n), ~Inside(p, f, n), f # p
    PROVE  ~Inside(p, f, s) /\ ~Inside(s, f, n) /\ ~Inside(p, s, s) /\ ~Inside(s, p, n) /\ f # s
BY SMT DEF Inside

LEMMA InsideElsewhere ==
    ASSUME NEW p \in Nat, NEW s \in Nat, NEW n \in Nat, NEW e \in Nat, NEW m \in Nat,
           Inside(p, s, n), ~Inside(p, e, n), ~Inside(e, p, m), p # e
    PROVE  ~Inside(e, s, m)
BY SMT DEF Inside

LEMMA InsideJoined ==
    ASSUME NEW q \in Nat, NEW r \in Nat, NEW a \in Nat, NEW f \in Nat,
           ~Inside(q, f, r), ~Inside(r, f, a), f # r, f # q, q # r
    PROVE  ~Inside(q, f, a)
BY SMT DEF Inside

LEMMA OnePredecessor ==
    ASSUME NEW p \in Nat, NEW q \in Nat, NEW r \in Nat,
           ~Inside(p, q, r), ~Inside(q, p, r), p # r, q # r
    PROVE  p = q
BY SMT DEF Inside

LEMMA AddIInv ==
    ASSUME IInv, NEW s \in SlotOffsets, NEW type \in {"TX", "RX"}, NEW nb \in Neighbors,
           AddActiveSlot(s, type, FALSE, nb)
    PROVE  IInv'
<1> USE SizeAssumption
<1> DEFINE r == MinRow(Rows \ Active)
           entry == [slotOffset |-> s, type |-> type, shared |-> FALSE,
                     neighbor |-> nb, next |-> NoRow]
           filled == [scheduleBuf EXCEPT ![r] = entry]
<1>1. /\ Linked = Active /\ currentScheduleEntry \in Linked /\ Linked \subseteq Rows
      /\ \A e \in Linked : scheduleBuf[e].next \in Linked
      /\ ~hung
      /\ TypeOK
  BY DEF IInv, RingInv, RowsLinked, AddActiveSlot, Linked
<1>2. r \in Rows /\ r \notin Active
  <2>1. Rows \ Active \subseteq Nat
    BY DEF Rows
  <2> HIDE DEF r
  <2> QED BY <2>1, MinRowMember DEF AddActiveSlot, r
<1>3. NoRow \notin Rows /\ Rows \subseteq Nat /\ SlotOffsets \subseteq Nat
  BY DEF NoRow, Rows, SlotOffsets
<1>4. entry \in ScheduleEntry
  BY DEF ScheduleEntry, CellTypes, Addresses
<1>5. \A e \in Rows : /\ scheduleBuf[e] \in ScheduleEntry
                      /\ scheduleBuf[e].slotOffset \in SlotOffsets
                      /\ scheduleBuf[e].next \in Rows \cup {NoRow}
  BY <1>1 DEF TypeOK, ScheduleEntry
<1>6. LinkRow(r, entry)
  BY DEF AddActiveSlot
<1>7. currentScheduleEntry # NoRow
  BY <1>1, <1>3
<1> HIDE DEF r
<1>8. CASE /\ \E p \in InsertionPoints(entry.slotOffset) :
                scheduleBuf' = [filled EXCEPT ![r].next = scheduleBuf[p].next, ![p].next = r]
           /\ UNCHANGED <<currentScheduleEntry, hung>>
  <2>1. PICK p \in InsertionPoints(s) :
               scheduleBuf' = [filled EXCEPT ![r].next = scheduleBuf[p].next, ![p].next = r]
    BY <1>8
  <2> DEFINE n == scheduleBuf[p].next
  <2>2. p \in Linked /\ p \in Rows /\ p # r /\ n \in Linked /\ n \in Rows
    BY <1>1, <1>2 DEF InsertionPoints
  <2>3. Inside(scheduleBuf[p].slotOffset, s, scheduleBuf[n].slotOffset)
    BY <1>3, <1>5, <2>2, FitsIsInside DEF InsertionPoints
  <2>4. scheduleBuf' = [e \in Rows |-> IF e = r THEN [entry EXCEPT !.next = n]
                                       ELSE IF e = p THEN [scheduleBuf[p] EXCEPT !.next = r]
                                       ELSE scheduleBuf[e]]
    BY <1>1, <1>2, <2>1, <2>2 DEF TypeOK
  <2>5. \A e \in Rows :
          /\ scheduleBuf'[e].slotOffset = IF e = r THEN s ELSE scheduleBuf[e].slotOffset
          /\ scheduleBuf'[e].type = IF e = r THEN type ELSE scheduleBuf[e].type
          /\ scheduleBuf'[e].neighbor = IF e = r THEN nb ELSE scheduleBuf[e].neighbor
          /\ scheduleBuf'[e].next = IF e = r THEN n ELSE IF e = p THEN r ELSE scheduleBuf[e].next
    BY <1>5, <2>2, <2>4 DEF ScheduleEntry
  <2>6. TypeOK'
    <3>1. \A e \in Rows : scheduleBuf'[e] \in ScheduleEntry
      <4> SUFFICES ASSUME NEW e \in Rows PROVE scheduleBuf'[e] \in ScheduleEntry
        OBVIOUS
      <4>1. [entry EXCEPT !.next = n] \in ScheduleEntry
        BY <1>4, <2>2 DEF ScheduleEntry
      <4>2. [scheduleBuf[p] EXCEPT !.next = r] \in ScheduleEntry
        BY <1>2, <1>5, <2>2 DEF ScheduleEntry
      <4> HIDE DEF entry
      <4> QED BY <1>5, <2>4, <4>1, <4>2
    <3>2. scheduleBuf' \in [Rows -> ScheduleEntry]
      BY <2>4, <3>1
    <3>3. (currentScheduleEntry \in Rows \cup {NoRow})' /\ (hung \in BOOLEAN)'
      BY <1>1, <1>8 DEF TypeOK
    <3> QED BY <3>2, <3>3 DEF TypeOK
  <2>7. Linked' = Linked \cup {r} /\ Active' = Active \cup {r}
    <3>1. Linked' = Linked \cup {r}
      BY <1>2, <1>3, <2>2, <2>5 DEF Linked
    <3>2. Active' = Active \cup {r}
      BY <1>2, <2>5 DEF Active
    <3> QED BY <3>1, <3>2
  <2>8. RowsLinked'
    <3>1. \A e \in Linked' : scheduleBuf'[e].next \in Linked'
      BY <1>1, <1>2, <2>2, <2>5, <2>7
    <3>2. Linked' = Active' /\ currentScheduleEntry' \in Linked'
      BY <1>1, <1>8, <2>7
    <3> QED BY <3>1, <3>2 DEF RowsLinked
  <2>9. \A e, f \in Linked : e # f =>
          /\ scheduleBuf[e].slotOffset # scheduleBuf[f].slotOffset
          /\ ~Inside(scheduleBuf[e].slotOffset, scheduleBuf[f].slotOffset,
                     scheduleBuf[scheduleBuf[e].next].slotOffset)
    BY <1>1 DEF IInv, RingInv, OffsetsDistinct, RingSorted
  <2>10. \A f \in Linked : /\ scheduleBuf[f].slotOffset # s
                           /\ scheduleBuf[f].slotOffset \in Nat
    <3> SUFFICES ASSUME NEW f \in Linked PROVE scheduleBuf[f].slotOffset # s
      BY <1>1, <1>3, <1>5
    <3>1. CASE f = p
      BY <1>1, <1>3, <1>5, <2>2, <2>3, <3>1 DEF Inside
    <3>2. CASE f # p
      <4>1. /\ ~Inside(scheduleBuf[p].slotOffset, scheduleBuf[f].slotOffset, scheduleBuf[n].slotOffset)
            /\ scheduleBuf[p].slotOffset # scheduleBuf[f].slotOffset
        BY <2>2, <2>9, <3>2
      <4>2. /\ scheduleBuf[p].slotOffset \in Nat /\ scheduleBuf[f].slotOffset \in Nat
            /\ scheduleBuf[n].slotOffset \in Nat /\ s \in Nat
        BY <1>1, <1>3, <1>5, <2>2
      <4> HIDE DEF n
      <4> QED BY <2>3, <4>1, <4>2, InsideNested
    <3> QED BY <3>1, <3>2
  <2>11. OffsetsDistinct'
    BY <1>1, <1>2, <2>5, <2>7, <2>9, <2>10 DEF OffsetsDistinct
  <2>12. RingSorted'
    <3> SUFFICES ASSUME NEW e \in Linked', NEW f \in Linked', e # f
                 PROVE  ~Inside(scheduleBuf'[e].slotOffset, scheduleBuf'[f].slotOffset,
                                scheduleBuf'[scheduleBuf'[e].next].slotOffset)
      BY DEF RingSorted
    <3>0. s \in Nat /\ r \notin Linked /\ \A g \in Linked : g \in Rows /\ g # r
      BY <1>1, <1>2, <1>3
    <3>1. CASE e = p
      <4>1. scheduleBuf'[scheduleBuf'[e].next].slotOffset = s
        BY <1>2, <2>2, <2>5, <3>1
      <4>2. CASE f = r
        BY <1>2, <2>2, <2>5, <2>10, <3>0, <3>1, <4>1, <4>2 DEF Inside
      <4>3. CASE f # r
        BY <2>2, <2>3, <2>5, <2>7, <2>9, <2>10, <3>0, <3>1, <4>1, <4>3, InsideNested
      <4> QED BY <4>2, <4>3
    <3>2. CASE e = r
      <4>1. scheduleBuf'[scheduleBuf'[e].next].slotOffset = scheduleBuf[n].slotOffset
        BY <1>1, <1>2, <2>2, <2>5, <3>2
      <4>2. f \in Linked /\ scheduleBuf'[e].slotOffset = s
            /\ scheduleBuf'[f].slotOffset = scheduleBuf[f].slotOffset
        BY <1>2, <2>5, <2>7, <3>0, <3>2
      <4>3. CASE f = p
        BY <2>2, <2>3, <2>10, <3>0, <4>1, <4>2, <4>3 DEF Inside
      <4>4. CASE f # p
        BY <2>2, <2>3, <2>9, <2>10, <3>0, <4>1, <4>2, <4>4, InsideNested
      <4> QED BY <4>3, <4>4
    <3>3. CASE e # p /\ e # r
      <4>1. /\ e \in Linked
            /\ scheduleBuf'[e].slotOffset = scheduleBuf[e].slotOffset
            /\ scheduleBuf'[e].next = scheduleBuf[e].next
            /\ scheduleBuf[e].next \in Linked
        BY <1>1, <2>5, <2>7, <3>0, <3>3
      <4>2. scheduleBuf'[scheduleBuf'[e].next].slotOffset
              = scheduleBuf[scheduleBuf[e].next].slotOffset
        BY <2>5, <3>0, <4>1
      <4>3. CASE f = r
        BY <1>2, <2>2, <2>3, <2>5, <2>9, <2>10, <3>0, <3>3, <4>1, <4>2, <4>3, InsideElsewhere, SMTT(30)
      <4>4. CASE f # r
        BY <2>5, <2>7, <2>9, <3>0, <4>1, <4>2, <4>4
      <4> QED BY <4>3, <4>4
    <3> QED BY <3>1, <3>2, <3>3
  <2>13. BootCellsKept'
    BY <1>2, <2>5 DEF IInv, BootCellsKept, Active, BootEntry
  <2> QED BY <2>6, <2>8, <2>11, <2>12, <2>13 DEF IInv, RingInv
<1>9. CASE scheduleBuf' = filled /\ hung' = TRUE /\ UNCHANGED currentScheduleEntry
  <2>1. \A e \in Rows : scheduleBuf'[e] = IF e = r THEN entry ELSE scheduleBuf[e]
    BY <1>1, <1>2, <1>9 DEF TypeOK
  <2>2. TypeOK'
    <3>1. scheduleBuf' \in [Rows -> ScheduleEntry]
      BY <1>1, <1>2, <1>4, <1>9 DEF TypeOK
    <3>2. (currentScheduleEntry \in Rows \cup {NoRow})' /\ (hung \in BOOLEAN)'
      BY <1>1, <1>9 DEF TypeOK
    <3> QED BY <3>1, <3>2 DEF TypeOK
  <2>3. RingInv'
    BY <1>9 DEF RingInv, RowsLinked, OffsetsDistinct, RingSorted
  <2>4. BootCellsKept'
    BY <1>2, <2>1 DEF IInv, BootCellsKept, Active, BootEntry
  <2> QED BY <2>2, <2>3, <2>4 DEF IInv
<1> QED BY <1>6, <1>7, <1>8, <1>9 DEF LinkRow

LEMMA RemoveIInv ==
    ASSUME IInv, NEW s \in SlotOffsets, NEW nb \in Neighbors, RemoveActiveSlot(s, nb)
    PROVE  IInv'
<1> USE SizeAssumption, AddrAssumption
<1> DEFINE r == MinRow(Matching(s, nb))
           after == scheduleBuf[r].next
<1>1. /\ Linked = Active /\ currentScheduleEntry \in Linked /\ Linked \subseteq Rows
      /\ \A e \in Linked : scheduleBuf[e].next \in Linked
      /\ ~hung
      /\ TypeOK
  BY DEF IInv, RingInv, RowsLinked, RemoveActiveSlot, Linked
<1>2. NoRow \notin Rows /\ Rows \subseteq Nat /\ SlotOffsets \subseteq Nat
  BY DEF NoRow, Rows, SlotOffsets
<1>3. \A e \in Rows : /\ scheduleBuf[e] \in ScheduleEntry
                      /\ scheduleBuf[e].slotOffset \in SlotOffsets
                      /\ scheduleBuf[e].next \in Rows \cup {NoRow}
  BY <1>1 DEF TypeOK, ScheduleEntry
<1>4. r \in Rows /\ scheduleBuf[r].neighbor = nb /\ scheduleBuf[r].slotOffset = s
  <2>1. Matching(s, nb) \subseteq Nat /\ Matching(s, nb) # {}
    BY <1>2 DEF Matching, RemoveActiveSlot
  <2> HIDE DEF r
  <2>2. r \in Matching(s, nb)
    BY <2>1, MinRowMember DEF r
  <2> QED BY <2>2 DEF Matching, SameAddress
<1>5. \A e, f \in Linked : e # f =>
          /\ scheduleBuf[e].slotOffset # scheduleBuf[f].slotOffset
          /\ ~Inside(scheduleBuf[e].slotOffset, scheduleBuf[f].slotOffset,
                     scheduleBuf[scheduleBuf[e].next].slotOffset)
  BY <1>1 DEF IInv, RingInv, OffsetsDistinct, RingSorted
<1>6. \A e \in Linked : scheduleBuf[e].slotOffset \in Nat
  BY <1>1, <1>2, <1>3
<1>7. OffEntry \in ScheduleEntry
  <2>1. 0 \in SlotOffsets
    BY DEF SlotOffsets, NumBoot
  <2> QED BY <2>1 DEF OffEntry, ScheduleEntry, Addresses
<1>8. \A i \in 0 .. (NumBoot - 1) :
          \E e \in Rows : /\ scheduleBuf[e].slotOffset = i
                          /\ scheduleBuf[e].type = BootEntry(i).type
                          /\ scheduleBuf[e].neighbor \notin Neighbors
                          /\ e # r
  BY <1>4 DEF IInv, BootCellsKept
<1> HIDE DEF r
(* A mote always has the boot cells: the row removed is not the last one.     *)
<1>9. CASE /\ after = r
           /\ scheduleBuf' = [scheduleBuf EXCEPT ![r] = OffEntry]
           /\ currentScheduleEntry' = NoRow
  <2>1. 0 \in 0 .. (NumBoot - 1)
    BY DEF NumBoot
  <2>2. PICK e \in Rows : e # r /\ scheduleBuf[e].type = BootEntry(0).type
    BY <1>8, <2>1
  <2>3. e \in Linked /\ r \in Linked
    BY <1>1, <1>2, <1>4, <1>9, <2>2 DEF Active, BootEntry, Linked
  <2>4. ~Inside(scheduleBuf[r].slotOffset, scheduleBuf[e].slotOffset, scheduleBuf[r].slotOffset)
    BY <1>5, <1>9, <2>2, <2>3
  <2>5. FALSE
    BY <1>5, <1>6, <2>2, <2>3, <2>4 DEF Inside
  <2> QED BY <2>5
<1>10. CASE /\ after # r
            /\ \E p \in {q \in Linked : scheduleBuf[q].next = r} :
                   scheduleBuf' = [scheduleBuf EXCEPT ![p].next = after, ![r] = OffEntry]
            /\ currentScheduleEntry' =
                   IF currentScheduleEntry = r THEN after ELSE currentScheduleEntry
            /\ UNCHANGED hung
  <2>1. PICK p \in Linked :
               /\ scheduleBuf[p].next = r
               /\ scheduleBuf' = [scheduleBuf EXCEPT ![p].next = after, ![r] = OffEntry]
    BY <1>10
  <2>2. r \in Linked /\ after \in Linked /\ p # r /\ p \in Rows /\ after \in Rows
    BY <1>1, <1>10, <2>1
  <2>3. scheduleBuf' = [e \in Rows |-> IF e = r THEN OffEntry
                                       ELSE IF e = p THEN [scheduleBuf[p] EXCEPT !.next = after]
                                       ELSE scheduleBuf[e]]
    BY <1>1, <1>4, <2>1, <2>2 DEF TypeOK
  <2>4. \A e \in Rows : e # r =>
          /\ scheduleBuf'[e].slotOffset = scheduleBuf[e].slotOffset
          /\ scheduleBuf'[e].type = scheduleBuf[e].type
          /\ scheduleBuf'[e].neighbor = scheduleBuf[e].neighbor
          /\ scheduleBuf'[e].next = IF e = p THEN after ELSE scheduleBuf[e].next
    BY <1>3, <2>2, <2>3 DEF ScheduleEntry
  <2>5. scheduleBuf'[r].type = "OFF" /\ scheduleBuf'[r].next = NoRow
    BY <1>4, <2>3 DEF OffEntry
  <2>6. TypeOK'
    <3>1. [scheduleBuf[p] EXCEPT !.next = after] \in ScheduleEntry
      BY <1>3, <2>2 DEF ScheduleEntry
    <3> HIDE DEF after
    <3>2. \A e \in Rows : scheduleBuf'[e] \in ScheduleEntry
      BY <1>3, <1>7, <2>3, <3>1
    <3>3. scheduleBuf' \in [Rows -> ScheduleEntry]
      BY <2>3, <3>2
    <3>4. (currentScheduleEntry \in Rows \cup {NoRow})'
      BY <1>1, <1>10, <2>2
    <3>5. (hung \in BOOLEAN)'
      BY <1>1, <1>10 DEF TypeOK
    <3> QED BY <3>3, <3>4, <3>5 DEF TypeOK
  <2>7. Linked' = Linked \ {r} /\ Active' = Active \ {r}
    <3>1. Linked' = Linked \ {r}
      BY <1>2, <2>2, <2>4, <2>5 DEF Linked
    <3>2. Active' = Active \ {r}
      BY <2>4, <2>5 DEF Active
    <3> QED BY <3>1, <3>2
(* Only one row links to r, so no link dangles once that one was redirected.  *)
  <2>8. \A q \in Linked : scheduleBuf[q].next = r => q = p
    <3> SUFFICES ASSUME NEW q \in Linked, scheduleBuf[q].next = r, q # p
                 PROVE  FALSE
      OBVIOUS
    <3>1. q # r
      BY <1>10
    <3>2. /\ ~Inside(scheduleBuf[p].slotOffset, scheduleBuf[q].slotOffset, scheduleBuf[r].slotOffset)
          /\ ~Inside(scheduleBuf[q].slotOffset, scheduleBuf[p].slotOffset, scheduleBuf[r].slotOffset)
          /\ scheduleBuf[p].slotOffset # scheduleBuf[r].slotOffset
          /\ scheduleBuf[q].slotOffset # scheduleBuf[r].slotOffset
          /\ scheduleBuf[q].slotOffset # scheduleBuf[p].slotOffset
      BY <1>5, <2>1, <2>2, <3>1
    <3>3. /\ scheduleBuf[p].slotOffset \in Nat /\ scheduleBuf[q].slotOffset \in Nat
          /\ scheduleBuf[r].slotOffset \in Nat
      BY <1>6, <2>2
    <3> QED BY <3>2, <3>3, OnePredecessor
  <2>9. RowsLinked'
    <3>1. \A e \in Linked' : scheduleBuf'[e].next \in Linked'
      BY <1>1, <1>10, <2>2, <2>4, <2>7, <2>8
    <3>2. Linked' = Active' /\ currentScheduleEntry' \in Linked'
      BY <1>1, <1>10, <2>2, <2>7
    <3> QED BY <3>1, <3>2 DEF RowsLinked
  <2>10. OffsetsDistinct'
    BY <1>1, <1>5, <2>4, <2>7 DEF OffsetsDistinct
  <2>11. RingSorted'
    <3> SUFFICES ASSUME NEW e \in Linked', NEW f \in Linked', e # f
                 PROVE  ~Inside(scheduleBuf'[e].slotOffset, scheduleBuf'[f].slotOffset,
                                scheduleBuf'[scheduleBuf'[e].next].slotOffset)
      BY DEF RingSorted
    <3>1. /\ e \in Linked /\ f \in Linked /\ e # r /\ f # r
          /\ scheduleBuf'[e].slotOffset = scheduleBuf[e].slotOffset
          /\ scheduleBuf'[f].slotOffset = scheduleBuf[f].slotOffset
      BY <1>1, <2>4, <2>7
    <3>2. CASE e = p
      <4>1. scheduleBuf'[scheduleBuf'[e].next].slotOffset = scheduleBuf[after].slotOffset
        BY <1>10, <2>2, <2>4, <3>2
      <4>2. /\ ~Inside(scheduleBuf[p].slotOffset, scheduleBuf[f].slotOffset, scheduleBuf[r].slotOffset)
            /\ ~Inside(scheduleBuf[r].slotOffset, scheduleBuf[f].slotOffset, scheduleBuf[after].slotOffset)
            /\ scheduleBuf[f].slotOffset # scheduleBuf[r].slotOffset
            /\ scheduleBuf[f].slotOffset # scheduleBuf[p].slotOffset
            /\ scheduleBuf[p].slotOffset # scheduleBuf[r].slotOffset
        BY <1>5, <2>1, <2>2, <3>1, <3>2
      <4>3. /\ scheduleBuf[p].slotOffset \in Nat /\ scheduleBuf[f].slotOffset \in Nat
            /\ scheduleBuf[r].slotOffset \in Nat /\ scheduleBuf[after].slotOffset \in Nat
        BY <1>6, <2>2, <3>1
      <4> HIDE DEF after
      <4> QED BY <3>1, <3>2, <4>1, <4>2, <4>3, InsideJoined
    <3>3. CASE e # p
      <4>1. scheduleBuf'[e].next = scheduleBuf[e].next /\ scheduleBuf[e].next \in Linked
            /\ scheduleBuf[e].next # r
        BY <1>1, <2>4, <2>8, <3>1, <3>3
      <4>2. scheduleBuf'[scheduleBuf'[e].next].slotOffset
              = scheduleBuf[scheduleBuf[e].next].slotOffset
        BY <1>1, <2>4, <4>1
      <4> QED BY <1>5, <3>1, <4>2
    <3> QED BY <3>2, <3>3
  <2>12. BootCellsKept'
    BY <1>8, <2>4 DEF BootCellsKept
  <2> QED BY <2>6, <2>9, <2>10, <2>11, <2>12 DEF IInv, RingInv
<1> QED BY <1>9, <1>10 DEF RemoveActiveSlot, r

LEMMA CursorIInv ==
    ASSUME IInv,
           \/ UNCHANGED vars
           \/ AdvanceSlot
           \/ \E s \in SlotOffsets : SyncSlotOffset(s)
    PROVE  IInv'
<1>1. CASE UNCHANGED vars
  BY <1>1 DEF IInv, RingInv, TypeOK, RowsLinked, OffsetsDistinct, RingSorted, BootCellsKept,
              Linked, Active, vars
<1>2. CASE ~hung /\ UNCHANGED <<scheduleBuf, hung>> /\ currentScheduleEntry' \in Linked
  BY <1>2 DEF IInv, RingInv, TypeOK, RowsLinked, OffsetsDistinct, RingSorted, BootCellsKept,
              Linked, Active
<1>3. CASE UNCHANGED <<scheduleBuf, currentScheduleEntry>> /\ hung' = TRUE
  BY <1>3 DEF IInv, RingInv, TypeOK, RowsLinked, OffsetsDistinct, RingSorted, BootCellsKept
<1>4. CASE AdvanceSlot
  BY <1>2, <1>4 DEF AdvanceSlot, IInv, RingInv, RowsLinked
<1>5. ASSUME NEW s \in SlotOffsets, SyncSlotOffset(s)
      PROVE  IInv'
  BY <1>2, <1>3, <1>5 DEF SyncSlotOffset
<1> QED BY <1>1, <1>2, <1>4, <1>5

(* The table keeps its type, its circular list stays whole, sorted and free   *)
(* of double bookings, and the cells of schedule_init are never lost: after   *)
(* any sequence of bookings, releases, slots and resynchronisations.          *)
THEOREM ScheduleIInv == Spec => []IInv
<1>1. Init => IInv
  BY InitIInv
<1>2. IInv /\ [Next]_vars => IInv'
  <2> SUFFICES ASSUME IInv, [Next]_vars PROVE IInv'
    OBVIOUS
  <2>1. ASSUME NEW s \in SlotOffsets, NEW t \in {"TX", "RX"}, NEW n \in Neighbors,
               AddActiveSlot(s, t, FALSE, n)
        PROVE  IInv'
    BY <2>1, AddIInv
  <2>2. ASSUME NEW s \in SlotOffsets, NEW n \in Neighbors, RemoveActiveSlot(s, n)
        PROVE  IInv'
    BY <2>2, RemoveIInv
  <2>3. CASE AddActiveSlotOverflow \/ UNCHANGED vars
    BY <2>3, CursorIInv DEF AddActiveSlotOverflow
  <2>4. CASE AdvanceSlot \/ \E s \in SlotOffsets : SyncSlotOffset(s)
    BY <2>4, CursorIInv
  <2> QED BY <2>1, <2>2, <2>3, <2>4 DEF Next
<1> QED BY <1>1, <1>2, PTL DEF Spec

(* The table keeps its type.                                                  *)
THEOREM ScheduleType == Spec => []TypeOK
BY ScheduleIInv, PTL DEF IInv

(* No slot offset is ever booked twice, for any table and any calls.          *)
THEOREM ScheduleOffsetsDistinct == Spec => []OffsetsDistinct
BY ScheduleIInv, PTL DEF IInv, RingInv

(* Each link leads to the following cell of the slotframe.                    *)
THEOREM ScheduleRingSorted == Spec => []RingSorted
BY ScheduleIInv, PTL DEF IInv, RingInv

(* Rows in use and rows in the list are the same, the current one among them. *)
THEOREM ScheduleRowsLinked == Spec => []RowsLinked
BY ScheduleIInv, PTL DEF IInv, RingInv

(* The cells schedule_init installs outlive every removal 6top can ask for.   *)
THEOREM ScheduleBootCellsKept == Spec => []BootCellsKept
BY ScheduleIInv, PTL DEF IInv

-----------------------------------------------------------------------------
(* Refinement of CellSet.                                                     *)

LEMMA CyclicNextIs ==
    ASSUME NEW S, S \subseteq Nat, NEW a \in Nat, NEW b \in S,
           \A x \in S \ {a} : ~Inside(a, x, b)
    PROVE  CyclicNext(S, a) = b
<1> DEFINE Follows(c) == \A x \in S \ {a} : ~Inside(a, x, c)
<1>1. ASSUME NEW c \in S, Follows(c)
      PROVE  c = b
  <2>1. c \in Nat /\ b \in Nat
    OBVIOUS
  <2>2. CASE b # a /\ c # a
    <3>1. ~Inside(a, c, b) /\ ~Inside(a, b, c)
      BY <1>1, <2>2
    <3> QED BY <2>1, <2>2, <3>1 DEF Inside
  <2>3. CASE b = a /\ c # a
    <3>1. ~Inside(a, c, a)
      BY <1>1, <2>3
    <3> QED BY <2>1, <2>3, <3>1 DEF Inside
  <2>4. CASE b # a /\ c = a
    <3>1. ~Inside(a, b, a)
      BY <1>1, <2>4
    <3> QED BY <2>1, <2>4, <3>1 DEF Inside
  <2> QED BY <2>2, <2>3, <2>4
<1>2. CyclicNext(S, a) \in S /\ Follows(CyclicNext(S, a))
  BY Zenon DEF CyclicNext
<1> HIDE DEF Follows
<1> QED BY <1>1, <1>2

(* The insertion walk stops whenever the offset is free: the linked row that  *)
(* precedes it at the smallest cyclic distance is an insertion point.         *)
LEMMA InsertionPointExists ==
    ASSUME IInv, ~hung, NEW s \in SlotOffsets,
           \A e \in Linked : scheduleBuf[e].slotOffset # s
    PROVE  InsertionPoints(s) # {}
<1> USE SizeAssumption
<1> DEFINE off(e) == scheduleBuf[e].slotOffset
           dist(e) == IF off(e) < s THEN s - off(e) ELSE s + FrameLength - off(e)
           D == {dist(e) : e \in Linked}
<1>1. /\ currentScheduleEntry \in Linked
      /\ \A e \in Linked : scheduleBuf[e].next \in Linked
      /\ \A e \in Linked : off(e) \in 0 .. (FrameLength - 1)
      /\ s \in 0 .. (FrameLength - 1)
  BY DEF IInv, RingInv, RowsLinked, TypeOK, ScheduleEntry, SlotOffsets, Linked
<1>2. \A e \in Linked : dist(e) \in Nat
  BY <1>1
<1>3. D \subseteq Nat /\ D # {}
  BY <1>1, <1>2
<1>4. PICK m \in D : \A x \in D : m <= x
  <2> HIDE DEF D
  <2> QED BY <1>3, LeastMember
<1>5. PICK p \in Linked : \A e \in Linked : dist(p) <= dist(e)
  BY <1>4
<1> DEFINE n == scheduleBuf[p].next
<1>6. n \in Linked /\ off(p) # s /\ off(n) # s /\ dist(p) <= dist(n)
  BY <1>1, <1>5
<1>7. off(p) \in Nat /\ off(n) \in Nat /\ s \in Nat
  BY <1>1, <1>6
<1>8. off(p) < FrameLength /\ off(n) < FrameLength /\ off(p) >= 0 /\ off(n) >= 0 /\ s < FrameLength
  BY <1>1, <1>6
<1>9. FitsBetween(off(p), s, off(n))
  <2> HIDE DEF n
  <2>1. ASSUME NEW a \in Nat, NEW b \in Nat, a # s, b # s, a < FrameLength, b < FrameLength,
               (IF a < s THEN s - a ELSE s + FrameLength - a)
                 <= (IF b < s THEN s - b ELSE s + FrameLength - b)
        PROVE  FitsBetween(a, s, b)
    BY <1>7, <1>8, <2>1, SMT DEF FitsBetween
  <2> QED BY <1>6, <1>7, <1>8, <2>1
<1> QED BY <1>9 DEF InsertionPoints

LEMMA InitRefines ==
    ASSUME Init
    PROVE  Abstract!AbsInit
<1> USE SizeAssumption, AddrAssumption
<1>1. NumBoot \in Nat /\ NumBoot > 0 /\ NumBoot <= MaxActiveSlots
  BY DEF NumBoot
<1>2. \A i \in Rows : scheduleBuf[i] = IF i < NumBoot THEN BootEntry(i) ELSE OffEntry
  BY DEF Init
<1>3. \A i \in Rows : BootEntry(i).next = (IF i = NumBoot - 1 THEN 0 ELSE i + 1)
                      /\ BootEntry(i).slotOffset = i
  BY DEF BootEntry
<1>4. Linked = 0 .. (NumBoot - 1)
  BY <1>1, <1>2, <1>3 DEF Linked, Rows, NoRow, OffEntry
<1>5. \A i \in 0 .. (NumBoot - 1) : i \in Rows /\ scheduleBuf[i] = BootEntry(i)
  BY <1>1, <1>2 DEF Rows
<1>6. {CellOf(e) : e \in Linked} = BootCells
  BY <1>4, <1>5 DEF CellOf, BootCells
<1>7. scheduleBuf[currentScheduleEntry].slotOffset = 0
  BY <1>1, <1>3, <1>5 DEF Init
<1> QED BY <1>6, <1>7 DEF Abstract!AbsInit, Init

(* What IInv says of the current state, in the form the steps below use.      *)
LEMMA RingFacts ==
    ASSUME IInv, ~hung
    PROVE  /\ Linked = Active /\ currentScheduleEntry \in Linked /\ Linked \subseteq Rows
           /\ \A e \in Linked : scheduleBuf[e].next \in Linked
           /\ \A e \in Rows : scheduleBuf[e] \in ScheduleEntry
           /\ \A e \in Linked : scheduleBuf[e].slotOffset \in Nat
           /\ \A e \in Linked : scheduleBuf[e].slotOffset \in Abstract!SlotOffsets
           /\ \A e, f \in Linked : e # f =>
                /\ scheduleBuf[e].slotOffset # scheduleBuf[f].slotOffset
                /\ ~Inside(scheduleBuf[e].slotOffset, scheduleBuf[f].slotOffset,
                           scheduleBuf[scheduleBuf[e].next].slotOffset)
           /\ NoRow \notin Rows /\ Rows \subseteq Nat
<1> USE SizeAssumption
<1>1. /\ Linked = Active /\ currentScheduleEntry \in Linked /\ Linked \subseteq Rows
      /\ \A e \in Linked : scheduleBuf[e].next \in Linked
  BY DEF IInv, RingInv, RowsLinked, Linked
<1>2. \A e \in Rows : scheduleBuf[e] \in ScheduleEntry
  BY DEF IInv, TypeOK
<1>3. \A e \in Linked : scheduleBuf[e].slotOffset \in SlotOffsets
  BY <1>1, <1>2 DEF ScheduleEntry
<1>4. SlotOffsets \subseteq Nat /\ SlotOffsets = Abstract!SlotOffsets
  BY DEF SlotOffsets, Abstract!SlotOffsets
<1>5. NoRow \notin Rows /\ Rows \subseteq Nat
  BY DEF NoRow, Rows
<1>6. \A e, f \in Linked : e # f =>
          /\ scheduleBuf[e].slotOffset # scheduleBuf[f].slotOffset
          /\ ~Inside(scheduleBuf[e].slotOffset, scheduleBuf[f].slotOffset,
                     scheduleBuf[scheduleBuf[e].next].slotOffset)
  BY DEF IInv, RingInv, OffsetsDistinct, RingSorted
<1> QED BY <1>1, <1>2, <1>3, <1>4, <1>5, <1>6

LEMMA CellOffset ==
    ASSUME NEW e
    PROVE  CellOf(e).slotOffset = scheduleBuf[e].slotOffset
BY DEF CellOf

LEMMA OffsetsOfCells ==
    Abstract!OffsetsOf({CellOf(f) : f \in Linked}) = {scheduleBuf[f].slotOffset : f \in Linked}
BY CellOffset, Zenon DEF Abstract!OffsetsOf

(* The link of a row leads to the cell the abstract cursor would visit next.  *)
LEMMA NextIsCyclicNext ==
    ASSUME IInv, ~hung, NEW e \in Linked
    PROVE  Abstract!CyclicNext(Abstract!OffsetsOf({CellOf(f) : f \in Linked}),
                               scheduleBuf[e].slotOffset)
             = scheduleBuf[scheduleBuf[e].next].slotOffset
<1> DEFINE S == {scheduleBuf[f].slotOffset : f \in Linked}
           a == scheduleBuf[e].slotOffset
           b == scheduleBuf[scheduleBuf[e].next].slotOffset
<1>1. Abstract!OffsetsOf({CellOf(f) : f \in Linked}) = S
  BY OffsetsOfCells
<1>2. S \subseteq Nat /\ a \in Nat /\ b \in S
  BY RingFacts
<1>3. \A x \in S \ {a} : ~Inside(a, x, b)
  BY RingFacts
<1> HIDE DEF S, a, b
<1>4. CyclicNext(S, a) = b
  BY <1>2, <1>3, CyclicNextIs
<1>5. Abstract!CyclicNext(S, a) = CyclicNext(S, a)
  BY DEF Abstract!CyclicNext, CyclicNext, Abstract!Inside, Inside
<1> QED BY <1>1, <1>4, <1>5 DEF a, b

LEMMA AddRefines ==
    ASSUME IInv, NEW s \in SlotOffsets, NEW type \in {"TX", "RX"}, NEW nb \in Neighbors,
           AddActiveSlot(s, type, FALSE, nb)
    PROVE  Abstract!AbsNext
<1> USE SizeAssumption
<1> DEFINE r == MinRow(Rows \ Active)
           entry == [slotOffset |-> s, type |-> type, shared |-> FALSE,
                     neighbor |-> nb, next |-> NoRow]
           filled == [scheduleBuf EXCEPT ![r] = entry]
           c == [slotOffset |-> s, type |-> type, shared |-> FALSE, neighbor |-> nb]
<1>1. ~hung /\ LinkRow(r, entry)
  BY DEF AddActiveSlot
<1>2. r \in Rows /\ r \notin Linked
  <2>1. Rows \ Active \subseteq Nat /\ Rows \ Active # {}
    BY <1>1, RingFacts DEF AddActiveSlot
  <2> HIDE DEF r
  <2> QED BY <1>1, <2>1, RingFacts, MinRowMember DEF r
<1>3. scheduleBuf = [e \in Rows |-> scheduleBuf[e]]
  BY DEF IInv, TypeOK
<1>4. c \in Abstract!Cell
  <2>1. s \in Abstract!SlotOffsets
    BY DEF Abstract!SlotOffsets, SlotOffsets
  <2>2. type \in Abstract!CellTypes /\ nb \in Abstract!Addresses
    BY DEF Abstract!CellTypes, Abstract!Addresses
  <2> QED BY <2>1, <2>2 DEF Abstract!Cell
<1>5. currentScheduleEntry # NoRow
  BY <1>1, RingFacts
<1> HIDE DEF r
<1>6. CASE /\ \E p \in InsertionPoints(entry.slotOffset) :
                scheduleBuf' = [filled EXCEPT ![r].next = scheduleBuf[p].next, ![p].next = r]
           /\ UNCHANGED <<currentScheduleEntry, hung>>
  <2>1. PICK p \in InsertionPoints(s) :
               scheduleBuf' = [filled EXCEPT ![r].next = scheduleBuf[p].next, ![p].next = r]
    BY <1>6
  <2>2. p \in Linked /\ p \in Rows /\ p # r /\ scheduleBuf[p].next \in Rows
    BY <1>1, <1>2, RingFacts DEF InsertionPoints
  <2>3. scheduleBuf' = [e \in Rows |-> IF e = r THEN [entry EXCEPT !.next = scheduleBuf[p].next]
                                       ELSE IF e = p THEN [scheduleBuf[p] EXCEPT !.next = r]
                                       ELSE scheduleBuf[e]]
    BY <1>2, <1>3, <2>1, <2>2
  <2>4. \A e \in Rows :
          /\ e # r => CellOf(e)' = CellOf(e)
          /\ e = r => CellOf(e)' = c
          /\ scheduleBuf'[e].next = IF e = r THEN scheduleBuf[p].next
                                    ELSE IF e = p THEN r ELSE scheduleBuf[e].next
          /\ scheduleBuf'[e].slotOffset = IF e = r THEN s ELSE scheduleBuf[e].slotOffset
    BY <1>1, <2>2, <2>3, RingFacts, ZenonT(30) DEF CellOf, ScheduleEntry
  <2>5. Linked' = Linked \cup {r}
    BY <1>1, <1>2, <2>2, <2>4, RingFacts DEF Linked
  <2>6. {CellOf(e) : e \in Linked}' = {CellOf(e) : e \in Linked} \cup {c}
    <3>1. \A e \in Linked : CellOf(e)' = CellOf(e)
      BY <1>1, <1>2, <2>4, RingFacts
    <3>2. \A e \in Linked' : e = r => CellOf(e)' = c
      BY <1>2, <2>4
    <3> HIDE DEF c
    <3>3. ASSUME NEW x
          PROVE  x \in {CellOf(e) : e \in Linked}' <=> x \in {CellOf(e) : e \in Linked} \cup {c}
      BY <2>5, <3>1, <3>2
    <3> QED BY <3>3
  <2>7. \A f \in Linked : scheduleBuf[f].slotOffset # s
    <3>1. IInv' /\ ~hung'
      BY <1>1, <1>6, AddIInv
    <3>2. \A e, f \in Linked' : scheduleBuf'[e].slotOffset = scheduleBuf'[f].slotOffset => e = f
      BY <3>1 DEF IInv, RingInv, OffsetsDistinct
    <3> QED BY <1>1, <1>2, <2>4, <2>5, <3>2, RingFacts
  <2>8. s \notin Abstract!OffsetsOf({CellOf(e) : e \in Linked})
    BY <2>7, OffsetsOfCells
  <2>9. (scheduleBuf[currentScheduleEntry].slotOffset)'
          = scheduleBuf[currentScheduleEntry].slotOffset
    BY <1>1, <1>2, <1>6, <2>4, RingFacts
  <2>10. Abstract!Install(c)
    BY <1>1, <1>6, <2>6, <2>8, <2>9 DEF Abstract!Install
  <2> QED BY <1>4, <2>10 DEF Abstract!AbsNext
<1>7. CASE /\ InsertionPoints(entry.slotOffset) = {}
           /\ scheduleBuf' = filled
           /\ hung' = TRUE
           /\ UNCHANGED currentScheduleEntry
  <2>1. \A e \in Rows : scheduleBuf'[e] = IF e = r THEN entry ELSE scheduleBuf[e]
    BY <1>2, <1>3, <1>7
  <2>2. Linked' = Linked /\ r \notin Linked
    BY <1>2, <2>1, RingFacts DEF Linked
  <2>3. {CellOf(e) : e \in Linked}' = {CellOf(e) : e \in Linked}
    BY <1>1, <2>1, <2>2, RingFacts DEF CellOf
  <2>4. (scheduleBuf[currentScheduleEntry].slotOffset)'
          = scheduleBuf[currentScheduleEntry].slotOffset
    BY <1>1, <1>7, <2>1, <2>2, RingFacts
  <2>5. s \in Abstract!OffsetsOf({CellOf(e) : e \in Linked})
    <3>1. \E e \in Linked : scheduleBuf[e].slotOffset = s
      BY <1>1, <1>7, InsertionPointExists
    <3> QED BY <3>1, OffsetsOfCells
  <2>6. Abstract!Diverge(s, TRUE)
    BY <1>1, <1>7, <2>3, <2>4, <2>5 DEF Abstract!Diverge
  <2> QED BY <2>6 DEF Abstract!AbsNext, Abstract!SlotOffsets, SlotOffsets
<1> QED BY <1>1, <1>5, <1>6, <1>7 DEF LinkRow

LEMMA RemoveRefines ==
    ASSUME IInv, NEW s \in SlotOffsets, NEW nb \in Neighbors, RemoveActiveSlot(s, nb)
    PROVE  Abstract!AbsNext
<1> USE SizeAssumption
<1> DEFINE r == MinRow(Matching(s, nb))
           after == scheduleBuf[r].next
<1>1. ~hung
  BY DEF RemoveActiveSlot
<1>2. r \in Rows
  <2>1. Matching(s, nb) \subseteq Nat /\ Matching(s, nb) # {} /\ Matching(s, nb) \subseteq Rows
    BY <1>1, RingFacts DEF Matching, RemoveActiveSlot
  <2> HIDE DEF r
  <2> QED BY <2>1, MinRowMember DEF r
<1>3. currentScheduleEntry' \in Linked' /\ currentScheduleEntry' # NoRow /\ UNCHANGED hung
  <2>1. IInv' /\ UNCHANGED hung
    BY RemoveIInv DEF RemoveActiveSlot
  <2>2. currentScheduleEntry' \in Linked' /\ Linked' \subseteq Rows
    BY <1>1, <2>1 DEF IInv, RingInv, RowsLinked, Linked
  <2> QED BY <1>1, <2>1, <2>2, RingFacts
<1> HIDE DEF r
<1>4. PICK p \in Linked :
             /\ scheduleBuf[p].next = r
             /\ scheduleBuf' = [scheduleBuf EXCEPT ![p].next = after, ![r] = OffEntry]
             /\ after # r
             /\ currentScheduleEntry' =
                    IF currentScheduleEntry = r THEN after ELSE currentScheduleEntry
  BY <1>3 DEF RemoveActiveSlot, r
<1>5. r \in Linked /\ p # r /\ p \in Rows /\ after \in Linked
  BY <1>1, <1>4, RingFacts
<1>6. scheduleBuf' = [e \in Rows |-> IF e = r THEN OffEntry
                                     ELSE IF e = p THEN [scheduleBuf[p] EXCEPT !.next = after]
                                     ELSE scheduleBuf[e]]
  BY <1>2, <1>4, <1>5 DEF IInv, TypeOK
<1>7. \A e \in Rows : e # r =>
        /\ CellOf(e)' = CellOf(e)
        /\ scheduleBuf'[e].slotOffset = scheduleBuf[e].slotOffset
        /\ scheduleBuf'[e].next = IF e = p THEN after ELSE scheduleBuf[e].next
  BY <1>1, <1>5, <1>6, RingFacts DEF CellOf, ScheduleEntry
<1>8. scheduleBuf'[r].next = NoRow
  BY <1>2, <1>6 DEF OffEntry
<1>9. Linked' = Linked \ {r}
  BY <1>1, <1>5, <1>7, <1>8, RingFacts DEF Linked
<1>10. \A e \in Linked : e # r => CellOf(e) # CellOf(r)
  BY <1>1, <1>5, RingFacts DEF CellOf
<1>11. {CellOf(e) : e \in Linked}' = {CellOf(e) : e \in Linked} \ {CellOf(r)}
  <2>1. {CellOf(e) : e \in Linked}' = {CellOf(e) : e \in Linked \ {r}}
    BY <1>1, <1>7, <1>9, RingFacts
  <2> QED BY <1>5, <1>10, <2>1
<1>12. Abstract!CyclicNext(Abstract!OffsetsOf({CellOf(f) : f \in Linked}), scheduleBuf[r].slotOffset)
         = scheduleBuf[after].slotOffset
  BY <1>1, <1>5, NextIsCyclicNext
<1>13. (scheduleBuf[currentScheduleEntry].slotOffset)' =
         IF scheduleBuf[currentScheduleEntry].slotOffset = CellOf(r).slotOffset
         THEN Abstract!CyclicNext(Abstract!OffsetsOf({CellOf(f) : f \in Linked}),
                         scheduleBuf[currentScheduleEntry].slotOffset)
         ELSE scheduleBuf[currentScheduleEntry].slotOffset
  <2>1. CellOf(r).slotOffset = scheduleBuf[r].slotOffset
    BY DEF CellOf
  <2>2. CASE currentScheduleEntry = r
    <3>1. scheduleBuf'[after].slotOffset = scheduleBuf[after].slotOffset
      BY <1>1, <1>4, <1>5, <1>7, RingFacts
    <3>2. currentScheduleEntry' = after
      BY <1>4, <2>2
    <3> QED BY <1>12, <2>1, <2>2, <3>1, <3>2
  <2>3. CASE currentScheduleEntry # r
    <3>1. scheduleBuf[currentScheduleEntry].slotOffset # scheduleBuf[r].slotOffset
      BY <1>1, <1>5, <2>3, RingFacts
    <3>2. scheduleBuf'[currentScheduleEntry].slotOffset = scheduleBuf[currentScheduleEntry].slotOffset
      BY <1>1, <1>7, <2>3, RingFacts
    <3>3. currentScheduleEntry' = currentScheduleEntry
      BY <1>4, <2>3
    <3> QED BY <2>1, <3>1, <3>2, <3>3
  <2> QED BY <2>2, <2>3
<1>14. Abstract!Release(CellOf(r))
  <2>1. CellOf(r) \in {CellOf(e) : e \in Linked}
    BY <1>5
  <2> HIDE DEF after
  <2> QED BY <1>1, <1>3, <1>11, <1>13, <2>1, Zenon DEF Abstract!Release
<1> QED BY <1>5, <1>14 DEF Abstract!AbsNext

LEMMA CursorRefines ==
    ASSUME IInv, AdvanceSlot \/ \E s \in SlotOffsets : SyncSlotOffset(s)
    PROVE  Abstract!AbsNext
<1>1. ~hung /\ UNCHANGED scheduleBuf
  BY DEF AdvanceSlot, SyncSlotOffset
<1>2. UNCHANGED {CellOf(e) : e \in Linked}
  BY <1>1 DEF Linked, CellOf
<1>3. CASE AdvanceSlot
  <2>1. (scheduleBuf[currentScheduleEntry].slotOffset)'
          = Abstract!CyclicNext(Abstract!OffsetsOf({CellOf(f) : f \in Linked}),
                                scheduleBuf[currentScheduleEntry].slotOffset)
    <3>1. currentScheduleEntry \in Linked
      BY <1>1, RingFacts
    <3>2. currentScheduleEntry' = scheduleBuf[currentScheduleEntry].next /\ scheduleBuf' = scheduleBuf
      BY <1>3 DEF AdvanceSlot
    <3> QED BY <1>1, <3>1, <3>2, NextIsCyclicNext
  <2>2. UNCHANGED hung
    BY <1>3 DEF AdvanceSlot
  <2>3. Abstract!Advance
    BY <1>1, <1>2, <2>1, <2>2 DEF Abstract!Advance
  <2> QED BY <2>3 DEF Abstract!AbsNext
<1>4. ASSUME NEW s \in SlotOffsets, SyncSlotOffset(s)
      PROVE  Abstract!AbsNext
  <2>1. s \in Abstract!SlotOffsets
    BY DEF SlotOffsets, Abstract!SlotOffsets
  <2>2. s \in Abstract!OffsetsOf({CellOf(e) : e \in Linked})
          <=> \E e \in Linked : scheduleBuf[e].slotOffset = s
    BY OffsetsOfCells
  <2>3. CASE \E e \in Linked : /\ scheduleBuf[e].slotOffset = s
                               /\ currentScheduleEntry' = e
                               /\ UNCHANGED hung
    <3>1. Abstract!MoveTo(s)
      BY <1>1, <1>2, <2>2, <2>3 DEF Abstract!MoveTo
    <3> QED BY <2>1, <3>1 DEF Abstract!AbsNext
  <2>4. CASE /\ \A e \in Linked : scheduleBuf[e].slotOffset # s
             /\ hung' = TRUE
             /\ UNCHANGED currentScheduleEntry
    <3>1. Abstract!Diverge(s, FALSE)
      BY <1>1, <1>2, <2>2, <2>4 DEF Abstract!Diverge
    <3> QED BY <2>1, <3>1 DEF Abstract!AbsNext
  <2> QED BY <1>4, <2>3, <2>4 DEF SyncSlotOffset
<1> QED BY <1>3, <1>4

(* For every table size, frame length and set of neighbours, the table of     *)
(* linked rows is a set of cells with a cursor that visits them in the order  *)
(* of the slotframe: schedule.c implements module CellSet.                    *)
THEOREM ScheduleImplementsCellSet == Spec => ImplementsCellSet
<1>1. Init => Abstract!AbsInit
  BY InitRefines
<1>2. IInv /\ [Next]_vars => [Abstract!AbsNext]_(Abstract!absvars)
  <2> SUFFICES ASSUME IInv, [Next]_vars
               PROVE  [Abstract!AbsNext]_(Abstract!absvars)
    OBVIOUS
  <2>1. ASSUME NEW s \in SlotOffsets, NEW t \in {"TX", "RX"}, NEW n \in Neighbors,
               AddActiveSlot(s, t, FALSE, n)
        PROVE  Abstract!AbsNext
    BY <2>1, AddRefines
  <2>2. ASSUME NEW s \in SlotOffsets, NEW n \in Neighbors, RemoveActiveSlot(s, n)
        PROVE  Abstract!AbsNext
    BY <2>2, RemoveRefines
  <2>3. CASE AddActiveSlotOverflow \/ UNCHANGED vars
    <3>1. UNCHANGED vars
      BY <2>3 DEF AddActiveSlotOverflow
    <3> QED BY <3>1 DEF vars, Abstract!absvars, Linked, CellOf
  <2>4. CASE AdvanceSlot \/ \E s \in SlotOffsets : SyncSlotOffset(s)
    BY <2>4, CursorRefines
  <2> QED BY <2>1, <2>2, <2>3, <2>4 DEF Next
<1>3. Spec => []IInv
  BY ScheduleIInv
<1> QED BY <1>1, <1>2, <1>3, PTL DEF Spec, ImplementsCellSet, Abstract!AbsSpec

-----------------------------------------------------------------------------
(* SlotEngine: the state machine that follows the schedule.                   *)

Debt == IF nextActiveSlotOffset = NextActiveSlotOffset THEN 0 ELSE 1

(* A stale cache is a misfire to come.  A change of the schedule makes it     *)
(* stale at most once, and every refresh of it pays the debt; boot leaves one.*)
MisfireBound == misfires + Debt <= changes + 1

(* No walk of the ring goes on for ever: 6top books available offsets only,   *)
(* and the cell of slot 0, where every ADV is sent, is always there.          *)
EngineInv == IInv /\ EngineTypeOK /\ ~hung /\ MisfireBound

LEMMA FollowingIsOffset ==
    ASSUME NEW s \in SlotOffsets
    PROVE  Following(s) \in SlotOffsets
<1>1. FrameLength \in Nat /\ FrameLength > 0
  BY SizeAssumption DEF NumBoot
<1>2. s \in Nat
  BY <1>1 DEF SlotOffsets
<1> QED BY <1>1, <1>2 DEF Following, SlotOffsets

LEMMA ZeroIsOffset == 0 \in SlotOffsets
BY SizeAssumption DEF NumBoot, SlotOffsets

(* What a linked row holds, and the row it leads to.                          *)
LEMMA LinkedOffset ==
    ASSUME IInv, ~hung, NEW e \in Linked
    PROVE  /\ scheduleBuf[e].next \in Linked
           /\ scheduleBuf[e].slotOffset \in SlotOffsets
BY RingFacts DEF ScheduleEntry

LEMMA InitEngineInv ==
    ASSUME EngineInit
    PROVE  EngineInv
<1>1. IInv /\ ~hung
  BY InitIInv DEF EngineInit, Init
<1>2. EngineTypeOK
  <2>1. isDAGroot \in BOOLEAN /\ isSync \in BOOLEAN /\ busy \in BOOLEAN
    BY Zenon DEF EngineInit
  <2>2. /\ slotOffset = 0 /\ nextActiveSlotOffset = 0 /\ ranAt = NoSlot /\ ranCell = NoSlot
        /\ changes = 0 /\ desyncs = 0 /\ misfires = 0
    BY DEF EngineInit
  <2> QED BY <1>1, <2>1, <2>2, EngineAssumption, ZeroIsOffset DEF EngineTypeOK, IInv
<1>3. MisfireBound
  BY DEF EngineInit, MisfireBound, Debt
<1> QED BY <1>1, <1>2, <1>3 DEF EngineInv

(* The steps of a slot that leave the schedule and the cached offset alone.   *)
LEMMA IdleSlot ==
    ASSUME EngineInv, Desynchronize \/ Overrun \/ PassSlot \/ ListenSlot \/ EndSlot
    PROVE  EngineInv'
<1>1. UNCHANGED <<vars, scheduleBuf, currentScheduleEntry, hung, nextActiveSlotOffset,
                  misfires, changes, isDAGroot>>
  BY DEF Desynchronize, Overrun, PassSlot, ListenSlot, EndSlot, RanNothing, vars
<1>2. IInv' /\ ~hung'
  BY <1>1, CursorIInv DEF EngineInv
<1>3. slotOffset' \in SlotOffsets
  BY FollowingIsOffset DEF EngineInv, EngineTypeOK, Desynchronize, Overrun, PassSlot,
                           ListenSlot, EndSlot
<1>4. ranAt' = NoSlot /\ ranCell' = NoSlot
  BY DEF Desynchronize, Overrun, PassSlot, ListenSlot, EndSlot, RanNothing
<1>5. desyncs' \in 0 .. MaxDesyncs
  BY EngineAssumption DEF EngineInv, EngineTypeOK, Desynchronize, Overrun, PassSlot, ListenSlot,
                          EndSlot
<1>6. isSync' \in BOOLEAN /\ busy' \in BOOLEAN
  BY Zenon DEF EngineInv, EngineTypeOK, Desynchronize, Overrun, PassSlot, ListenSlot, EndSlot
<1>7. EngineTypeOK'
  BY <1>1, <1>2, <1>3, <1>4, <1>5, <1>6 DEF EngineInv, EngineTypeOK, IInv
<1>8. MisfireBound'
  BY <1>1 DEF EngineInv, MisfireBound, Debt, NextActiveSlotOffset
<1> QED BY <1>2, <1>7, <1>8 DEF EngineInv

(* A cell is run out of its slot only when the cache was stale, and the cache *)
(* is right again once the schedule has advanced.                             *)
LEMMA RunCellEngineInv ==
    ASSUME EngineInv, RunCell
    PROVE  EngineInv'
<1> DEFINE cell == scheduleBuf[currentScheduleEntry'] 
<1>1. /\ currentScheduleEntry' = scheduleBuf[currentScheduleEntry].next
      /\ UNCHANGED <<scheduleBuf, hung, isDAGroot, isSync, changes, desyncs>>
  BY DEF RunCell, AdvanceSlot
<1>2. IInv' /\ ~hung /\ ~hung'
  BY <1>1, CursorIInv DEF EngineInv, RunCell
<1>3. currentScheduleEntry \in Linked
  BY <1>2, RingFacts DEF EngineInv
<1>4. PICK row : row = scheduleBuf[currentScheduleEntry].next
  OBVIOUS
<1>5. /\ row \in Linked /\ scheduleBuf[row].next \in Linked
      /\ scheduleBuf[row].slotOffset \in SlotOffsets
      /\ scheduleBuf[scheduleBuf[row].next].slotOffset \in SlotOffsets
  BY <1>2, <1>3, <1>4, LinkedOffset DEF EngineInv
<1>6. currentScheduleEntry' = row
  BY <1>1, <1>4
<1>7. /\ Following(slotOffset) = nextActiveSlotOffset
      /\ nextActiveSlotOffset' = scheduleBuf[scheduleBuf[row].next].slotOffset
      /\ ranAt' = Following(slotOffset)
      /\ ranCell' = scheduleBuf[row].slotOffset
      /\ misfires' = misfires + (IF scheduleBuf[row].slotOffset = ranAt' THEN 0 ELSE 1)
      /\ busy' \in MayStayBusy(scheduleBuf[row].type)
      /\ slotOffset' \in {(slotOffset + NumSerialRx) % FrameLength, Following(slotOffset)}
  BY <1>6 DEF RunCell, OffsetAfter
<1>8. (slotOffset + NumSerialRx) % FrameLength \in SlotOffsets
  <2>1. FrameLength \in Nat /\ FrameLength > 0
    BY SizeAssumption DEF NumBoot
  <2>2. slotOffset + NumSerialRx \in Nat
    BY <2>1, EngineAssumption DEF EngineInv, EngineTypeOK, SlotOffsets
  <2> QED BY <2>1, <2>2 DEF SlotOffsets
<1>9. misfires' \in Nat
  BY <1>7 DEF EngineInv, EngineTypeOK
<1>10. busy' \in BOOLEAN
  BY <1>7, Zenon DEF MayStayBusy
<1>11. EngineTypeOK'
  <2>1. slotOffset' \in SlotOffsets /\ ranAt' \in SlotOffsets
    BY <1>7, <1>8, FollowingIsOffset DEF EngineInv, EngineTypeOK
  <2> QED BY <1>1, <1>2, <1>5, <1>7, <1>9, <1>10, <2>1 DEF EngineInv, EngineTypeOK, IInv
<1>12. MisfireBound'
  <2>1. NextActiveSlotOffset = scheduleBuf[row].slotOffset
    BY <1>4 DEF NextActiveSlotOffset
  <2>2. misfires' = misfires + Debt
    BY <1>7, <2>1 DEF Debt
  <2>3. NextActiveSlotOffset' = scheduleBuf[scheduleBuf[row].next].slotOffset
    BY <1>1, <1>6 DEF NextActiveSlotOffset
  <2>4. Debt' = 0
    BY <1>7, <2>3 DEF Debt
  <2> QED BY <1>1, <1>9, <2>2, <2>4 DEF EngineInv, EngineTypeOK, MisfireBound
<1> QED BY <1>2, <1>11, <1>12 DEF EngineInv

(* An ADV is answered in slot 0, and schedule_init's cell of slot 0 is in the *)
(* ring: schedule_syncSlotOffset stops, and the cache is refreshed.           *)
LEMMA StoreFromAdvEngineInv ==
    ASSUME EngineInv, StoreFromAdv
    PROVE  EngineInv'
<1>1. PICK i \in Rows : scheduleBuf[i].slotOffset = 0 /\ scheduleBuf[i].type = "ADV"
  <2>1. 0 \in 0 .. (NumBoot - 1) /\ BootEntry(0).type = "ADV"
    BY SizeAssumption DEF NumBoot, BootEntry
  <2> QED BY <2>1 DEF EngineInv, IInv, BootCellsKept
<1>2. i \in Linked
  BY <1>1, RingFacts DEF EngineInv, Active
<1>3. PICK e \in Linked : currentScheduleEntry' = e
  BY <1>1, <1>2 DEF StoreFromAdv, SyncSlotOffset
<1>4. UNCHANGED <<scheduleBuf, hung, isDAGroot, changes, desyncs, misfires>>
  BY <1>1, <1>2 DEF StoreFromAdv, SyncSlotOffset, RanNothing
<1>5. IInv' /\ ~hung /\ ~hung'
  BY <1>4, CursorIInv, ZeroIsOffset DEF EngineInv, StoreFromAdv
<1>6. scheduleBuf[scheduleBuf[e].next].slotOffset \in SlotOffsets
  BY <1>5, LinkedOffset DEF EngineInv
<1>7. /\ nextActiveSlotOffset' = scheduleBuf[scheduleBuf[e].next].slotOffset
      /\ slotOffset' \in {0, Following(0)}
      /\ isSync' = TRUE /\ busy' = FALSE /\ ranAt' = NoSlot /\ ranCell' = NoSlot
  BY <1>3 DEF StoreFromAdv, RanNothing
<1>8. EngineTypeOK'
  <2>1. slotOffset' \in SlotOffsets
    BY <1>7, ZeroIsOffset, FollowingIsOffset
  <2> QED BY <1>4, <1>5, <1>6, <1>7, <2>1 DEF EngineInv, EngineTypeOK, IInv
<1>9. MisfireBound'
  <2>1. NextActiveSlotOffset' = nextActiveSlotOffset'
    BY <1>3, <1>4, <1>7 DEF NextActiveSlotOffset
  <2> QED BY <1>4, <2>1 DEF EngineInv, EngineTypeOK, MisfireBound, Debt
<1> QED BY <1>5, <1>8, <1>9 DEF EngineInv

(* A booking of an available offset finds its place, so it never hangs; a     *)
(* change may make the cache stale, and is counted.                           *)
LEMMA ChangeEngineInv ==
    ASSUME EngineInv, ChangeSchedule
    PROVE  EngineInv'
<1>1. IInv' /\ ~hung'
  <2>1. ASSUME NEW s \in SlotOffsets, NEW t \in {"TX", "RX"}, NEW n \in Neighbors,
               SlotOffsetAvailable(s), AddActiveSlot(s, t, FALSE, n)
        PROVE  IInv' /\ ~hung'
    <3>1. IInv'
      BY <2>1, AddIInv DEF EngineInv
    <3>2. InsertionPoints(s) # {}
      BY <2>1, InsertionPointExists DEF EngineInv, SlotOffsetAvailable
    <3>3. UNCHANGED hung
      BY <2>1, <3>2, Zenon DEF AddActiveSlot, LinkRow
    <3> QED BY <3>1, <3>3 DEF EngineInv
  <2>2. ASSUME NEW s \in SlotOffsets, NEW n \in Neighbors, RemoveActiveSlot(s, n)
        PROVE  IInv' /\ ~hung'
    BY <2>2, RemoveIInv DEF EngineInv, RemoveActiveSlot
  <2> QED BY <2>1, <2>2 DEF ChangeSchedule
<1>2. /\ changes' = changes + 1 /\ changes < MaxChanges
      /\ ranAt' = NoSlot /\ ranCell' = NoSlot
      /\ UNCHANGED <<isDAGroot, isSync, slotOffset, nextActiveSlotOffset, busy, desyncs, misfires>>
  BY DEF ChangeSchedule, RanNothing
<1>3. changes' \in 0 .. MaxChanges
  BY <1>2, EngineAssumption DEF EngineInv, EngineTypeOK
<1>4. EngineTypeOK'
  BY <1>1, <1>2, <1>3 DEF EngineInv, EngineTypeOK, IInv
<1>5. MisfireBound'
  <2>1. Debt \in {0, 1} /\ Debt' \in {0, 1}
    BY DEF Debt
  <2>2. misfires \in Nat /\ changes \in Nat /\ misfires + Debt <= changes + 1
    BY EngineAssumption DEF EngineInv, EngineTypeOK, MisfireBound
  <2>3. misfires + Debt' <= (changes + 1) + 1
    <3>1. ASSUME NEW c \in Nat, NEW m \in Nat, NEW d \in {0, 1}, NEW e \in {0, 1}, m + d <= c + 1
          PROVE  m + e <= (c + 1) + 1
      BY <3>1
    <3> QED BY <2>1, <2>2, <3>1
  <2> QED BY <1>2, <2>3 DEF MisfireBound
<1> QED BY <1>1, <1>4, <1>5 DEF EngineInv

(* The state machine and the schedule it walks keep EngineInv.                *)
THEOREM SlotEngineInvariant == EngineSpec => []EngineInv
<1>1. EngineInit => EngineInv
  BY InitEngineInv
<1>2. EngineInv /\ [EngineNext]_allVars => EngineInv'
  <2> SUFFICES ASSUME EngineInv, [EngineNext]_allVars PROVE EngineInv'
    OBVIOUS
  <2>1. CASE UNCHANGED allVars
    <3>1. UNCHANGED <<vars, scheduleBuf, currentScheduleEntry, hung, isDAGroot, isSync, slotOffset,
                      nextActiveSlotOffset, busy, ranAt, ranCell, changes, desyncs, misfires>>
      BY <2>1 DEF allVars, vars, engineVars
    <3>2. IInv'
      BY <3>1, CursorIInv DEF EngineInv
    <3> QED BY <3>1, <3>2 DEF EngineInv, EngineTypeOK, IInv, MisfireBound, Debt,
                              NextActiveSlotOffset
  <2>2. CASE NewSlot \/ EndSlot
    BY <2>2, IdleSlot, RunCellEngineInv DEF NewSlot
  <2>3. CASE Join \/ ReceiveAdv
    BY <2>3, StoreFromAdvEngineInv DEF Join, ReceiveAdv
  <2>4. CASE ChangeSchedule
    BY <2>4, ChangeEngineInv
  <2> QED BY <2>1, <2>2, <2>3, <2>4 DEF EngineNext
<1> QED BY <1>1, <1>2, PTL DEF EngineSpec

(* The state machine keeps its type.                                          *)
THEOREM SlotEngineType == EngineSpec => []EngineTypeOK
BY SlotEngineInvariant, PTL DEF EngineInv

(* At most one cell is run out of its slot for each change of the schedule,   *)
(* and one more at boot, for every frame length, table and serial slot.       *)
THEOREM SlotEngineMisfires == EngineSpec => []OneMisfirePerChange
<1>1. EngineInv => OneMisfirePerChange
  BY DEF EngineInv, EngineTypeOK, MisfireBound, Debt, OneMisfirePerChange
<1> QED BY <1>1, SlotEngineInvariant, PTL

(* No booking or resynchronisation of the state machine hangs the mote.       *)
THEOREM SlotEngineNeverHangs == EngineSpec => [](~hung)
BY SlotEngineInvariant, PTL DEF EngineInv
==============================================================================
