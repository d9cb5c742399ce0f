------------------------------- MODULE Cells --------------------------------
(***************************************************************************)
(* The cells of a TSCH slotframe and their cyclic order, as the conditions *)
(* of openstack/02b-MAChigh/schedule.c compute it.  A cell is what one     *)
(* active row of scheduleBuf holds, without its statistics and its link.   *)
(***************************************************************************)
EXTENDS Naturals

CONSTANTS
    Neighbors,   \* the 64-bit addresses 6top books cells with
    NoAddr,      \* an open_addr_t of type ADDR_NONE
    Anycast      \* an open_addr_t of type ADDR_ANYCAST

ASSUME AddrAssumption ==
    /\ NoAddr \notin Neighbors \cup {Anycast}
    /\ Anycast \notin Neighbors

Addresses == Neighbors \cup {NoAddr, Anycast}

\* packetfunctions_sameAddress: an address of type ADDR_NONE equals nothing,
\* not even another one (the default branch of the switch returns FALSE).
SameAddress(a, b) == a = b /\ a # NoAddr

\* Mutant: <= where the walk has <, so an offset equal to p fits after it.
FitsBetweenLoose(p, s, n) ==
    \/ p <= s /\ s < n
    \/ p <= s /\ n <= p
    \/ s < n /\ n <= p

\* schedule_addActiveSlot's three conditions: walking the ring, an entry at
\* offset s goes between a linked entry at offset p and its successor at n.
FitsBetween(p, s, n) ==
    \/ p < s /\ s < n
    \/ p < s /\ n <= p
    \/ s < n /\ n <= p

\* x lies strictly inside the cyclic interval that runs from a to b; when a = b
\* the interval is the whole frame but a.
Inside(a, x, b) ==
    IF a < b THEN a < x /\ x < b ELSE a < x \/ x < b

\* The member of the set of offsets S that follows a in the slotframe (a itself
\* when it is the only one).
CyclicNext(S, a) == CHOOSE b \in S : \A x \in S \ {a} : ~Inside(a, x, b)

=============================================================================
