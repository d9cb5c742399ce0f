------------------------------ MODULE MacProofs ------------------------------
(***************************************************************************)
(* For every slotframe, queue length and retry bound, no interleaving of   *)
(* the slot interrupts with the tasks loses track of a packet buffer: the  *)
(* MAC's pointers, the owners of the buffers, the pending tasks and the    *)
(* retry counters stay in step with each other.                            *)
(***************************************************************************)
EXTENDS Mac, FiniteSetTheorems, WellFoundedInduction, TLAPS

-----------------------------------------------------------------------------
(* The smallest member of a set of buffers, and the powers of two that bound *)
(* the backoff: 2^n counts the subsets of 1..n.                              *)

LEMMA MinIsMember ==
    ASSUME NEW S, S \subseteq Nat, S # {}
    PROVE  Min(S) \in S
<1>1. IsWellFoundedOn(OpToRel(<, Nat), Nat)
  BY NatLessThanWellFounded, Zenon
<1>2. PICK m \in S : \A y \in S : ~(<<y, m>> \in OpToRel(<, Nat))
  BY <1>1, WFMin, Zenon
<1>3. \A y \in S : ~(y < m)
  BY <1>2, Zenon DEF OpToRel
<1>4. \A y \in S : m =< y
  BY <1>3, SMT
<1> QED BY <1>4, Zenon DEF Min

LEMMA PowersOfTwo ==
    ASSUME NEW m \in Nat, NEW n \in Nat, m <= n
    PROVE  2 ^ m \in Nat /\ 1 <= 2 ^ m /\ 2 ^ m <= 2 ^ n
<1>1. \A k \in Nat : IsFiniteSet(1 .. k) /\ Cardinality(1 .. k) = k
  BY FS_Interval, SMT
<1>2. \A k \in Nat : /\ IsFiniteSet(SUBSET (1 .. k))
                     /\ Cardinality(SUBSET (1 .. k)) = 2 ^ k
  BY <1>1, FS_SUBSET, Zenon
<1>3. \A k \in Nat : 2 ^ k \in Nat
  BY <1>2, FS_CardinalityType, Zenon
<1>4. 2 ^ m <= 2 ^ n
  <2>1. 1 .. m \subseteq 1 .. n
    BY SMT
  <2>2. SUBSET (1 .. m) \in SUBSET (SUBSET (1 .. n))
    BY <2>1, Zenon
  <2>3. Cardinality(SUBSET (1 .. m)) <= Cardinality(SUBSET (1 .. n))
    BY <1>2, <2>2, FS_Subset
  <2> QED BY <1>2, <2>3, Zenon
<1>5. 2 ^ m # 0
  <2>1. {} \in SUBSET (1 .. m)
    BY Zenon
  <2> QED BY <1>2, <2>1, FS_EmptySet, Zenon
<1> QED BY <1>3, <1>4, <1>5, SMT

-----------------------------------------------------------------------------
(* The inductive invariant.  What a slot does to a buffer depends on who the   *)
(* buffer belongs to, so every buffer is tied to exactly one holder: the free  *)
(* list, the task that fills it, a pointer of the MAC, the queue or 6top.      *)

Begun(b) == IF queue[b].owner = "MAC" THEN 1 ELSE 0

\* The retries and attempts of a packet that is to be sent.
Counted(b) ==
    /\ queue[b].retriesLeft > 0
    /\ queue[b].attempts + queue[b].retriesLeft = Retries(queue[b].broadcast) + Begun(b)

BufferHeld(b) ==
    LET p == queue[b] IN
    /\ p.creator = "NULL" <=> p.owner = "NULL"
    /\ p.owner = "MAKER" <=> b = making
    /\ p.owner = "MAC" <=> b \in {dataToSend, dataReceived, ackToSend}
    /\ b \in {dataReceived, ackToSend} => p.creator = "MAC"
    /\ p.owner = "MAKER" => p.creator # "MAC" /\ p.attempts = 0
    /\ p.owner = "TO_MAC" \/ b = dataToSend => p.creator # "MAC" /\ Counted(b)

\* Which pointers are set follows from the state, and a mote that is not
\* synchronized holds no buffer.
PointersFollowState ==
    /\ dataToSend # NoBuffer <=> state \in TxStates
    /\ dataReceived # NoBuffer <=> state \in AckStates \cup {"TXACKOFFSET"}
    /\ ackToSend # NoBuffer <=> state \in AckStates
    /\ dataReceived = ackToSend => dataReceived = NoBuffer
    /\ ~isSync => state \in {"SLEEP"} \cup SyncStates
    /\ making # NoBuffer <=> task = "submit"

MacInv ==
    /\ MacTypeOK
    /\ \A b \in Buffers : BufferHeld(b)
    /\ PointersFollowState
    /\ EveryPacketHasTask

LEMMA Constants ==
    /\ QueueLength \in Nat \ {0} /\ TxRetries \in Nat \ {0}
    /\ MinBE \in Nat \ {0} /\ MaxBE \in Nat /\ MinBE <= MaxBE
    /\ MaxDesyncs \in Nat /\ Len(Frame) \in Nat \ {0}
    /\ Buffers \subseteq Nat /\ IsFiniteSet(Buffers) /\ NoBuffer \notin Buffers
    /\ \A broadcast : Retries(broadcast) \in 1 .. TxRetries
<1>1. QueueLength \in Nat /\ TxRetries \in Nat \ {0} /\ Len(Frame) \in Nat \ {0}
  BY MacAssumption, SMT
<1>2. IsFiniteSet(Buffers)
  BY <1>1, FS_Interval, SMT DEF Buffers
<1>3. \A broadcast : Retries(broadcast) \in 1 .. TxRetries
  BY <1>1, SMT DEF Retries
<1> QED BY <1>1, <1>2, <1>3, MacAssumption, SMT DEF Buffers, NoBuffer

\* The sets the tasks search are finite sets of buffers.
LEMMA HandedUp ==
    /\ SentPackets \subseteq Buffers /\ IsFiniteSet(SentPackets)
    /\ ReceivedPackets \subseteq Buffers /\ IsFiniteSet(ReceivedPackets)
    /\ Cardinality(SentPackets) \in Nat /\ Cardinality(ReceivedPackets) \in Nat
<1>1. SentPackets \subseteq Buffers /\ ReceivedPackets \subseteq Buffers
  BY DEF SentPackets, ReceivedPackets
<1>2. IsFiniteSet(SentPackets) /\ IsFiniteSet(ReceivedPackets)
  BY <1>1, Constants, FS_Subset
<1> QED BY <1>1, <1>2, FS_CardinalityType

\* The buffer the code takes is a free one.
LEMMA FreeBufferTaken ==
    ASSUME FreeBuffers # {}
    PROVE  Min(FreeBuffers) \in Buffers /\ queue[Min(FreeBuffers)].owner = "NULL"
<1>1. FreeBuffers \subseteq Nat
  BY Constants DEF FreeBuffers
<1> QED BY <1>1, MinIsMember DEF FreeBuffers

\* Buffers that do not change hands keep the tasks and the packets in step.
LEMMA SameHandedUp ==
    ASSUME MacInv, queue' \in [Buffers -> Packet],
           \A b \in Buffers : queue'[b].owner = "TO_SIXTOP" \/ queue[b].owner = "TO_SIXTOP"
                                => queue'[b] = queue[b],
           UNCHANGED <<rxTasks, txTasks>>
    PROVE  EveryPacketHasTask'
<1>1. SentPackets' = SentPackets /\ ReceivedPackets' = ReceivedPackets
  BY DEF SentPackets, ReceivedPackets
<1> QED BY <1>1 DEF MacInv, EveryPacketHasTask

-----------------------------------------------------------------------------
(* The end of a slot: each buffer the MAC holds goes to its next holder.      *)

LEMMA AttemptedPacket ==
    ASSUME MacInv, NEW acked \in BOOLEAN, dataToSend # NoBuffer
    PROVE  LET p == queue[dataToSend]
               q == Attempted(p, acked) IN
           /\ dataToSend \in Buffers /\ p \in Packet /\ q \in Packet
           /\ p.owner = "MAC" /\ p.creator \in {"SIXTOP", "UPPER"}
           /\ q.creator = p.creator /\ q.broadcast = p.broadcast /\ q.attempts = p.attempts
           /\ q.owner = IF Reported(acked) THEN "TO_SIXTOP" ELSE "TO_MAC"
           /\ ~Reported(acked) => /\ q.retriesLeft > 0
                                  /\ q.attempts + q.retriesLeft = Retries(q.broadcast)
<1> DEFINE p == queue[dataToSend]
<1>1. dataToSend \in Buffers /\ p \in Packet
  BY DEF MacInv, MacTypeOK
<1>2. /\ p.owner = "MAC" /\ p.creator # "MAC" /\ p.creator # "NULL"
      /\ p.retriesLeft > 0 /\ p.attempts + p.retriesLeft = Retries(p.broadcast) + 1
  BY <1>1, Constants DEF MacInv, BufferHeld, Counted, Begun
<1>3. p.creator \in {"SIXTOP", "UPPER"} /\ p.retriesLeft \in 0 .. TxRetries
      /\ p.attempts \in 0 .. TxRetries /\ p.broadcast \in BOOLEAN
  BY <1>1, <1>2 DEF Packet
<1>4. CASE acked
  BY <1>1, <1>2, <1>3, <1>4 DEF Attempted, Packet, Reported
<1>5. CASE ~acked
  <2>1. Attempted(p, acked) = [p EXCEPT !.retriesLeft = @ - 1,
                                        !.owner = IF p.retriesLeft = 1 THEN "TO_SIXTOP" ELSE "TO_MAC"]
    BY <1>5 DEF Attempted
  <2>2. p.retriesLeft - 1 \in 0 .. TxRetries
    BY <1>2, <1>3, Constants
  <2>3. Reported(acked) <=> p.retriesLeft = 1
    BY <1>5 DEF Reported
  <2> DEFINE q == Attempted(p, acked)
  <2>4. /\ q.creator = p.creator /\ q.broadcast = p.broadcast /\ q.attempts = p.attempts
        /\ q.retriesLeft = p.retriesLeft - 1
        /\ q.owner = IF Reported(acked) THEN "TO_SIXTOP" ELSE "TO_MAC"
    BY <1>1, <2>1, <2>3 DEF Packet
  <2>5. q \in Packet
    BY <1>1, <2>1, <2>2 DEF Packet
  <2>6. ~Reported(acked) => q.retriesLeft > 0 /\ q.attempts + q.retriesLeft = Retries(q.broadcast)
    <3> HIDE DEF q, p
    <3> QED BY <1>2, <1>3, <2>3, <2>4, Constants
  <2> HIDE DEF q
  <2>7. /\ dataToSend \in Buffers /\ p \in Packet /\ q \in Packet
        /\ p.owner = "MAC" /\ p.creator \in {"SIXTOP", "UPPER"}
        /\ q.creator = p.creator /\ q.broadcast = p.broadcast /\ q.attempts = p.attempts
        /\ q.owner = IF Reported(acked) THEN "TO_SIXTOP" ELSE "TO_MAC"
        /\ ~Reported(acked) => /\ q.retriesLeft > 0
                               /\ q.attempts + q.retriesLeft = Retries(q.broadcast)
    BY <1>1, <1>2, <1>3, <2>4, <2>5, <2>6
  <2> QED BY <2>7 DEF q
<1> QED BY <1>4, <1>5

\* A set of packets handed up grows by one packet and one task, or stays.
LEMMA OneMore ==
    ASSUME NEW S, NEW T, NEW b, IsFiniteSet(S)
    PROVE  /\ T = S \cup {b} /\ b \notin S => Cardinality(T) = Cardinality(S) + 1
           /\ T = S \ {b} /\ b \in S => Cardinality(T) = Cardinality(S) - 1
BY FS_AddElement, FS_RemoveElement

LEMMA LeaveKeeps ==
    ASSUME MacInv, NEW acked \in BOOLEAN, NEW received \in Buffers \cup {NoBuffer},
           \/ received = dataReceived
           \/ dataReceived = NoBuffer /\ queue[received].owner = "NULL",
           Leave(acked, received), UNCHANGED making
    PROVE  /\ queue' \in [Buffers -> Packet]
           /\ \A b \in Buffers : BufferHeld(b)'
           /\ EveryPacketHasTask'
           /\ rxTasks' \in Nat /\ txTasks' \in Nat
<1> DEFINE q(b) == CASE b = dataToSend -> Attempted(queue[b], acked)
                     [] b = received   -> MacBuffer("TO_SIXTOP")
                     [] b = ackToSend  -> FreeBuffer
                     [] OTHER          -> queue[b]
<1>1. queue' = [b \in Buffers |-> q(b)]
  BY DEF Leave, LeaveBuffers
<1>2. /\ queue \in [Buffers -> Packet] /\ rxTasks \in Nat /\ txTasks \in Nat
      /\ dataToSend \in Buffers \cup {NoBuffer}
      /\ dataReceived \in Buffers \cup {NoBuffer}
      /\ ackToSend \in Buffers \cup {NoBuffer}
  BY DEF MacInv, MacTypeOK
<1>3. \A b \in Buffers : BufferHeld(b)
  BY DEF MacInv
<1>4. \A b \in Buffers : b = received => /\ queue[b].owner \in {"MAC", "NULL"}
                                        /\ b # dataToSend /\ b # ackToSend
  <2> SUFFICES ASSUME NEW b \in Buffers, b = received
               PROVE  queue[b].owner \in {"MAC", "NULL"} /\ b # dataToSend /\ b # ackToSend
    OBVIOUS
  <2>1. CASE received = dataReceived
    <3>1. dataReceived # NoBuffer
      BY <2>1, Constants
    <3>2. dataToSend = NoBuffer /\ dataReceived # ackToSend
      BY <3>1 DEF MacInv, PointersFollowState, TxStates, AckStates
    <3> QED BY <1>3, <2>1, <3>1, <3>2, Constants DEF BufferHeld
  <2>2. CASE dataReceived = NoBuffer /\ queue[received].owner = "NULL"
    BY <1>3, <2>2 DEF BufferHeld
  <2> QED BY <2>1, <2>2
<1>5. \A b \in Buffers : b = ackToSend => b # dataToSend /\ b # dataReceived /\ queue[b].owner = "MAC"
  BY <1>3, Constants DEF MacInv, PointersFollowState, TxStates, AckStates, BufferHeld
<1>6. \A b \in Buffers : b = dataToSend => b # dataReceived
  BY Constants DEF MacInv, PointersFollowState, TxStates, AckStates
<1>7. ASSUME NEW b \in Buffers
      PROVE  /\ b = dataToSend => queue'[b] = Attempted(queue[b], acked)
             /\ b = received   => queue'[b] = MacBuffer("TO_SIXTOP")
             /\ b = ackToSend  => queue'[b] = FreeBuffer
             /\ b \notin {dataToSend, received, ackToSend} => queue'[b] = queue[b]
  <2>1. queue'[b] = q(b)
    BY <1>1
  <2>2. CASE b = dataToSend
    BY <1>4, <1>5, <2>1, <2>2
  <2>3. CASE b = received
    BY <1>4, <2>1, <2>3
  <2>4. CASE b = ackToSend
    BY <1>4, <1>5, <2>1, <2>4
  <2>5. CASE b \notin {dataToSend, received, ackToSend}
    BY <2>1, <2>5
  <2> QED BY <2>2, <2>3, <2>4, <2>5
<1>8. MacBuffer("TO_SIXTOP") \in Packet /\ FreeBuffer \in Packet
  <2>1. 0 \in 0 .. TxRetries
    BY Constants
  <2>2. FreeBuffer \in Packet
    BY <2>1 DEF FreeBuffer, Packet
  <2> QED BY <2>2 DEF MacBuffer, Packet
<1>9. queue' \in [Buffers -> Packet]
  <2>1. \A b \in Buffers : queue'[b] \in Packet
    BY <1>2, <1>7, <1>8, AttemptedPacket, Constants
  <2> QED BY <1>1, <2>1
<1>10. dataToSend' = NoBuffer /\ dataReceived' = NoBuffer /\ ackToSend' = NoBuffer
  BY DEF Leave
<1>11. ASSUME NEW b \in Buffers
       PROVE  BufferHeld(b)'
  <2>1. b \notin {dataToSend, dataReceived, ackToSend}'
    BY <1>10, Constants
  <2>2. BufferHeld(b)
    BY <1>3
  <2>3. CASE b = dataToSend
    <3>1. dataToSend # NoBuffer /\ queue'[b] = Attempted(queue[b], acked)
      BY <1>7, <2>3, Constants
    <3>2. b # making /\ queue[b].creator # "NULL"
      BY <2>2, <2>3, <3>1, AttemptedPacket DEF BufferHeld
    <3>3. queue'[b].owner \in {"TO_SIXTOP", "TO_MAC"} /\ queue'[b].creator \in {"SIXTOP", "UPPER"}
      BY <2>3, <3>1, AttemptedPacket
    <3>4. queue'[b].owner = "TO_MAC"
             => /\ queue'[b].retriesLeft > 0
                /\ queue'[b].attempts + queue'[b].retriesLeft = Retries(queue'[b].broadcast)
      BY <2>3, <3>1, AttemptedPacket
    <3>5. queue'[b].attempts + queue'[b].retriesLeft = Retries(queue'[b].broadcast)
             => queue'[b].attempts + queue'[b].retriesLeft = Retries(queue'[b].broadcast) + 0
      BY Constants
    <3> QED
      BY <2>1, <3>2, <3>3, <3>4, <3>5 DEF BufferHeld, Counted, Begun
  <2>4. CASE b = received
    <3>1. queue'[b] = MacBuffer("TO_SIXTOP")
      BY <1>7, <2>4
    <3>2. b # making
      BY <1>4, <2>2, <2>4 DEF BufferHeld
    <3> QED
      BY <2>1, <3>1, <3>2 DEF BufferHeld, MacBuffer, FreeBuffer
  <2>5. CASE b = ackToSend
    <3>1. queue'[b] = FreeBuffer
      BY <1>7, <2>5
    <3>2. b # making
      BY <1>5, <2>2, <2>5 DEF BufferHeld
    <3> QED
      BY <2>1, <3>1, <3>2 DEF BufferHeld, FreeBuffer
  <2>6. CASE b \notin {dataToSend, received, ackToSend}
    <3>1. queue'[b] = queue[b]
      BY <1>7, <2>6
    <3>2. b # dataReceived
      BY <2>6, Constants
    <3> QED
      BY <2>1, <2>2, <2>6, <3>1, <3>2 DEF BufferHeld, Counted, Begun
  <2> QED BY <2>3, <2>4, <2>5, <2>6
<1>12. EveryPacketHasTask' /\ rxTasks' \in Nat /\ txTasks' \in Nat
  <2>1. Cardinality(SentPackets) <= txTasks /\ Cardinality(ReceivedPackets) = rxTasks
    BY DEF MacInv, EveryPacketHasTask
  <2>2. /\ txTasks' = txTasks + (IF Reported(acked) THEN 1 ELSE 0)
        /\ rxTasks' = rxTasks + (IF received # NoBuffer THEN 1 ELSE 0)
    BY DEF Leave, TasksForSlot
  <2>3. SentPackets' = IF Reported(acked) THEN SentPackets \cup {dataToSend} ELSE SentPackets
    <3>1. ASSUME NEW b \in Buffers
          PROVE  b \in SentPackets' <=> b \in SentPackets \/ (Reported(acked) /\ b = dataToSend)
      <4>1. b \in SentPackets' <=> queue'[b].owner = "TO_SIXTOP" /\ queue'[b].creator # "MAC"
        BY DEF SentPackets
      <4>2. b \in SentPackets <=> queue[b].owner = "TO_SIXTOP" /\ queue[b].creator # "MAC"
        BY DEF SentPackets
      <4>3. CASE b = dataToSend
        <5>1. dataToSend # NoBuffer /\ queue'[b] = Attempted(queue[b], acked)
          BY <1>7, <4>3, Constants
        <5> QED BY <4>1, <4>2, <4>3, <5>1, AttemptedPacket
      <4>4. CASE b = received
        <5>1. queue'[b] = MacBuffer("TO_SIXTOP") /\ b # dataToSend
          BY <1>4, <1>7, <4>4
        <5> QED BY <1>4, <4>1, <4>2, <4>4, <5>1 DEF MacBuffer, FreeBuffer
      <4>5. CASE b = ackToSend
        <5>1. queue'[b] = FreeBuffer /\ b # dataToSend
          BY <1>5, <1>7, <4>5
        <5> QED BY <1>5, <4>1, <4>2, <4>5, <5>1 DEF FreeBuffer
      <4>6. CASE b \notin {dataToSend, received, ackToSend}
        BY <1>7, <4>1, <4>2, <4>6
      <4> QED BY <4>3, <4>4, <4>5, <4>6
    <3>2. SentPackets' \subseteq Buffers /\ SentPackets \subseteq Buffers
      BY DEF SentPackets
    <3>3. Reported(acked) => dataToSend \in Buffers
      BY <1>2 DEF Reported
    <3> QED BY <3>1, <3>2, <3>3
  <2>4. Reported(acked) => dataToSend \notin SentPackets
    BY <1>2, AttemptedPacket DEF Reported, SentPackets
  <2>5. Cardinality(SentPackets') <= txTasks'
    <3>1. CASE Reported(acked)
      <4>1. Cardinality(SentPackets') = Cardinality(SentPackets) + 1
        BY <2>3, <2>4, <3>1, HandedUp, OneMore
      <4> QED BY <1>2, <2>1, <2>2, <3>1, <4>1, HandedUp
    <3>2. CASE ~Reported(acked)
      BY <1>2, <2>1, <2>2, <2>3, <3>2
    <3> QED BY <3>1, <3>2
  <2>6. ReceivedPackets' = IF received # NoBuffer THEN ReceivedPackets \cup {received}
                                                   ELSE ReceivedPackets
    <3>1. ASSUME NEW b \in Buffers
          PROVE  b \in ReceivedPackets' <=> b \in ReceivedPackets \/ b = received
      <4>1. b \in ReceivedPackets' <=> queue'[b].owner = "TO_SIXTOP" /\ queue'[b].creator = "MAC"
        BY DEF ReceivedPackets
      <4>2. b \in ReceivedPackets <=> queue[b].owner = "TO_SIXTOP" /\ queue[b].creator = "MAC"
        BY DEF ReceivedPackets
      <4>3. CASE b = dataToSend
        <5>1. dataToSend # NoBuffer /\ queue'[b] = Attempted(queue[b], acked) /\ b # received
          BY <1>4, <1>7, <4>3, Constants
        <5> QED BY <4>1, <4>2, <4>3, <5>1, AttemptedPacket
      <4>4. CASE b = received
        <5>1. queue'[b] = MacBuffer("TO_SIXTOP")
          BY <1>7, <4>4
        <5> QED BY <4>1, <4>4, <5>1 DEF MacBuffer, FreeBuffer
      <4>5. CASE b = ackToSend
        <5>1. queue'[b] = FreeBuffer /\ b # received
          BY <1>4, <1>7, <4>5
        <5> QED BY <1>5, <4>1, <4>2, <4>5, <5>1 DEF FreeBuffer
      <4>6. CASE b \notin {dataToSend, received, ackToSend}
        BY <1>7, <4>1, <4>2, <4>6
      <4> QED BY <4>3, <4>4, <4>5, <4>6
    <3>2. ReceivedPackets' \subseteq Buffers /\ ReceivedPackets \subseteq Buffers
      BY DEF ReceivedPackets
    <3> QED BY <3>1, <3>2, Constants
  <2>7. received \notin ReceivedPackets
    BY <1>4, Constants DEF ReceivedPackets
  <2>8. Cardinality(ReceivedPackets') = rxTasks'
    <3>1. CASE received # NoBuffer
      <4>1. Cardinality(ReceivedPackets') = Cardinality(ReceivedPackets) + 1
        BY <2>6, <2>7, <3>1, HandedUp, OneMore
      <4> QED BY <1>2, <2>1, <2>2, <3>1, <4>1, HandedUp
    <3>2. CASE received = NoBuffer
      BY <1>2, <2>1, <2>2, <2>6, <3>2
    <3> QED BY <3>1, <3>2
  <2> QED BY <1>2, <2>2, <2>5, <2>8 DEF EveryPacketHasTask
<1> QED BY <1>9, <1>11, <1>12

-----------------------------------------------------------------------------
(* The backoff stays below the largest window.                               *)

BackoffTyped ==
    /\ backoffExponent \in (MinBE - 1) .. MaxBE
    /\ backoff \in 0 .. (2 ^ MaxBE - 1)

LEMMA IndicateTxType ==
    ASSUME MacInv, NEW acked \in BOOLEAN, NEW e \in (MinBE - 1) .. MaxBE, IndicateTx(acked, e)
    PROVE  BackoffTyped'
<1>1. 2 ^ MaxBE \in Nat /\ 1 <= 2 ^ MaxBE
  BY Constants, PowersOfTwo
<1>2. backoff \in 0 .. (2 ^ MaxBE - 1)
  BY DEF MacInv, MacTypeOK
<1>3. CASE Frame[cell] # "TXRX"
  BY <1>2, <1>3 DEF IndicateTx, BackoffTyped
<1>4. CASE Frame[cell] = "TXRX" /\ acked
  BY <1>1, <1>4, Constants DEF IndicateTx, BackoffTyped
<1>5. CASE Frame[cell] = "TXRX" /\ ~acked
  <2>1. backoffExponent' = (IF e < MaxBE THEN e + 1 ELSE e) /\ backoff' \in 0 .. (2 ^ backoffExponent' - 1)
    BY <1>5 DEF IndicateTx
  <2>2. backoffExponent' \in (MinBE - 1) .. MaxBE /\ backoffExponent' \in Nat
    BY <2>1, Constants
  <2>3. 2 ^ backoffExponent' \in Nat /\ 2 ^ backoffExponent' <= 2 ^ MaxBE
    <3>1. \A m \in (MinBE - 1) .. MaxBE : 2 ^ m \in Nat /\ 2 ^ m <= 2 ^ MaxBE
      BY Constants, PowersOfTwo
    <3> QED BY <2>2, <3>1, Zenon
  <2>4. \A w, v \in Nat : w <= v => \A x \in 0 .. (w - 1) : x \in 0 .. (v - 1)
    OBVIOUS
  <2> QED BY <1>1, <2>1, <2>2, <2>3, <2>4 DEF BackoffTyped
<1> QED BY <1>3, <1>4, <1>5

LEMMA EndSlotKeeps ==
    ASSUME MacInv, NEW acked \in BOOLEAN, NEW received \in Buffers \cup {NoBuffer},
           \/ received = dataReceived
           \/ dataReceived = NoBuffer /\ queue[received].owner = "NULL",
           EndSlotWith(acked, received), UNCHANGED <<isSync, cell, taskVars, desyncs>>
    PROVE  MacInv'
<1>1. Leave(acked, received) /\ UNCHANGED making
  BY DEF EndSlotWith, taskVars
<1>2. BackoffTyped'
  BY IndicateTxType DEF EndSlotWith, BackoffTyped, backoffVars, MacInv, MacTypeOK
<1>3. /\ state' = "SLEEP" /\ dataToSend' = NoBuffer /\ dataReceived' = NoBuffer
      /\ ackToSend' = NoBuffer
  BY <1>1 DEF Leave
<1>4. MacTypeOK'
  BY <1>1, <1>2, <1>3, LeaveKeeps
     DEF MacInv, MacTypeOK, BackoffTyped, taskVars, SyncStates, TxStates, RxStates, AckStates
<1>5. PointersFollowState'
  BY <1>3 DEF MacInv, PointersFollowState, taskVars, TxStates, AckStates
<1> QED BY <1>1, <1>4, <1>5, LeaveKeeps DEF MacInv

LEMMA MoveKeeps ==
    ASSUME MacInv, NEW s, MoveTo(s),
           s \in {"SLEEP", "TXACKOFFSET"} \cup SyncStates \cup TxStates \cup RxStates \cup AckStates,
           s \in TxStates <=> state \in TxStates,
           s \in AckStates <=> state \in AckStates,
           s = "TXACKOFFSET" <=> state = "TXACKOFFSET",
           ~isSync => s \in {"SLEEP"} \cup SyncStates,
           UNCHANGED <<isSync, cell, taskVars, desyncs>>
    PROVE  MacInv'
<1>1. MacTypeOK'
  BY DEF MacInv, MacTypeOK, MoveTo, backoffVars, pointers, taskVars
<1>2. \A b \in Buffers : BufferHeld(b)'
  BY DEF MacInv, BufferHeld, Counted, Begun, MoveTo, pointers, taskVars
<1>3. PointersFollowState'
  BY DEF MacInv, PointersFollowState, MoveTo, pointers, taskVars
<1>4. EveryPacketHasTask'
  BY DEF MacInv, EveryPacketHasTask, SentPackets, ReceivedPackets, MoveTo
<1> QED BY <1>1, <1>2, <1>3, <1>4 DEF MacInv

\* A buffer changes hands among the free list, the task, the queue and the MAC.
LEMMA HandKeeps ==
    ASSUME MacInv, NEW b \in Buffers, NEW p \in Packet,
           queue' = [queue EXCEPT ![b] = p],
           queue[b].owner # "TO_SIXTOP", p.owner # "TO_SIXTOP",
           UNCHANGED <<rxTasks, txTasks>>,
           \A c \in Buffers \ {b} : /\ c = making' <=> c = making
                                    /\ c = dataToSend' <=> c = dataToSend
                                    /\ c = dataReceived' <=> c = dataReceived
                                    /\ c = ackToSend' <=> c = ackToSend,
           BufferHeld(b)'
    PROVE  /\ queue' \in [Buffers -> Packet]
           /\ \A c \in Buffers : BufferHeld(c)'
           /\ EveryPacketHasTask'
<1>1. queue \in [Buffers -> Packet]
  BY DEF MacInv, MacTypeOK
<1>2. queue' \in [Buffers -> Packet]
  BY <1>1
<1>3. \A c \in Buffers : queue'[c] = IF c = b THEN p ELSE queue[c]
  BY <1>1
<1>4. ASSUME NEW c \in Buffers, c # b
      PROVE  BufferHeld(c)'
  <2>1. BufferHeld(c)
    BY DEF MacInv
  <2>2. queue'[c] = queue[c]
    BY <1>3, <1>4
  <2>3. /\ c = making' <=> c = making
        /\ c = dataToSend' <=> c = dataToSend
        /\ c = dataReceived' <=> c = dataReceived
        /\ c = ackToSend' <=> c = ackToSend
    BY <1>4
  <2> QED BY <2>1, <2>2, <2>3 DEF BufferHeld, Counted, Begun
<1>5. EveryPacketHasTask'
  BY <1>2, <1>3, SameHandedUp
<1> QED BY <1>2, <1>4, <1>5

-----------------------------------------------------------------------------
(* The interrupts. *)

LEMMA RunCellKeeps ==
    ASSUME MacInv, RunCell
    PROVE  MacInv'
<1> DEFINE type == Frame[cell']
<1>1. /\ isSync /\ state = "SLEEP" /\ cell \in 1 .. Len(Frame)
      /\ queue \in [Buffers -> Packet]
      /\ dataToSend = NoBuffer /\ dataReceived = NoBuffer /\ ackToSend = NoBuffer
  BY DEF RunCell, MacInv, MacTypeOK, PointersFollowState, TxStates, AckStates
<1>2. cell' \in 1 .. Len(Frame)
  BY <1>1, Constants DEF RunCell
<1>3. BackoffTyped'
  <2>1. backoff \in 0 .. (2 ^ MaxBE - 1) /\ backoff' = BackoffAt(type)
    BY DEF MacInv, MacTypeOK, RunCell
  <2>2. 2 ^ MaxBE \in Nat
    BY Constants, PowersOfTwo
  <2>3. backoff' \in 0 .. (2 ^ MaxBE - 1)
    BY <2>1, <2>2 DEF BackoffAt
  <2> QED BY <2>3 DEF BackoffTyped, MacInv, MacTypeOK, RunCell
<1>4. CASE Candidates(type) # {} /\ OkToSend(type)
  <2>0. PICK b \in Buffers : b = Min(Candidates(type)) /\ b \in Candidates(type)
    <3>1. Candidates(type) \subseteq Nat /\ Candidates(type) \subseteq Buffers
      BY Constants DEF Candidates
    <3> QED BY <1>4, <3>1, MinIsMember
  <2>1. /\ dataToSend' = b
        /\ queue' = [queue EXCEPT ![b].owner = "MAC", ![b].attempts = @ + 1]
        /\ state' = "TXDATAOFFSET"
    BY <1>4, <2>0 DEF RunCell
  <2>2. b \in Buffers /\ queue[b].owner = "TO_MAC"
    BY <2>0 DEF Candidates
  <2>3. BufferHeld(b) /\ queue[b] \in Packet
    BY <1>1, <2>2 DEF MacInv
  <2>4. /\ queue[b].creator \notin {"MAC", "NULL"} /\ queue[b].retriesLeft > 0 /\ b # making
        /\ queue[b].attempts + queue[b].retriesLeft = Retries(queue[b].broadcast)
    <3>1. queue[b].attempts + queue[b].retriesLeft = Retries(queue[b].broadcast) + 0
      BY <2>2, <2>3 DEF BufferHeld, Counted, Begun
    <3> QED BY <2>2, <2>3, <3>1, Constants DEF BufferHeld, Counted
  <2>5. queue[b].attempts \in Nat /\ queue[b].retriesLeft \in Nat /\ queue[b].attempts + 1 \in 0 .. TxRetries
    <3>1. queue[b].attempts \in 0 .. TxRetries /\ queue[b].retriesLeft \in 0 .. TxRetries
      BY <2>3 DEF Packet
    <3> QED BY <2>4, <3>1, Constants
  <2> DEFINE p == [queue[b] EXCEPT !.owner = "MAC", !.attempts = @ + 1]
  <2>6. queue' = [queue EXCEPT ![b] = p]
    BY <1>1, <2>1, <2>2
  <2>7. /\ p \in Packet
        /\ p.owner = "MAC" /\ p.attempts = queue[b].attempts + 1
        /\ p.creator = queue[b].creator /\ p.broadcast = queue[b].broadcast
        /\ p.retriesLeft = queue[b].retriesLeft
    BY <2>3, <2>5 DEF Packet
  <2> HIDE DEF p
  <2>8. queue'[b] = p /\ dataReceived' = NoBuffer /\ ackToSend' = NoBuffer /\ making' = making
    BY <1>1, <2>2, <2>6 DEF RunCell, taskVars
  <2>9. p.attempts + p.retriesLeft = Retries(p.broadcast) + 1
    BY <2>4, <2>5, <2>7
  <2>10. BufferHeld(b)'
    BY <2>1, <2>2, <2>4, <2>7, <2>8, <2>9, Constants DEF BufferHeld, Counted, Begun
  <2>11. UNCHANGED <<rxTasks, txTasks, making, dataReceived, ackToSend>>
    BY DEF RunCell, taskVars
  <2>12. /\ queue' \in [Buffers -> Packet]
         /\ \A c \in Buffers : BufferHeld(c)'
         /\ EveryPacketHasTask'
    <3>1. \A c \in Buffers \ {b} : c = dataToSend' <=> c = dataToSend
      BY <1>1, <2>1, Constants
    <3>2. queue[b].owner # "TO_SIXTOP" /\ p.owner # "TO_SIXTOP"
      BY <2>2, <2>7
    <3> QED BY <2>2, <2>6, <2>7, <2>10, <2>11, <3>1, <3>2, HandKeeps
  <2>13. MacTypeOK'
    BY <1>2, <1>3, <2>1, <2>2, <2>12
       DEF MacInv, MacTypeOK, BackoffTyped, RunCell, taskVars, TxStates
  <2>14. PointersFollowState'
    BY <1>1, <2>1, <2>2, <2>11, Constants
       DEF MacInv, PointersFollowState, RunCell, taskVars, TxStates, AckStates
  <2> QED BY <2>12, <2>13, <2>14 DEF MacInv
<1>5. CASE ~(Candidates(type) # {} /\ OkToSend(type))
  <2>1. UNCHANGED <<dataToSend, queue>> /\ state' \in {"SLEEP", "RXDATAOFFSET"}
    BY <1>5 DEF RunCell
  <2>2. UNCHANGED <<isSync, backoffExponent, dataReceived, ackToSend, rxTasks, txTasks, taskVars, desyncs>>
    BY DEF RunCell
  <2>3. MacTypeOK'
    BY <1>2, <1>3, <2>1, <2>2 DEF MacInv, MacTypeOK, BackoffTyped, taskVars, RxStates
  <2>4. \A c \in Buffers : BufferHeld(c)'
    BY <2>1, <2>2 DEF MacInv, BufferHeld, Counted, Begun, taskVars
  <2>5. PointersFollowState'
    BY <1>1, <2>1, <2>2 DEF MacInv, PointersFollowState, taskVars, TxStates, AckStates
  <2>6. EveryPacketHasTask'
    BY <2>1, <2>2 DEF MacInv, EveryPacketHasTask, SentPackets, ReceivedPackets
  <2> QED BY <2>3, <2>4, <2>5, <2>6 DEF MacInv
<1> QED BY <1>4, <1>5

LEMMA DesynchronizeKeeps ==
    ASSUME MacInv, Desynchronize
    PROVE  MacInv'
<1>1. Leave(FALSE, dataReceived) /\ UNCHANGED making /\ dataReceived \in Buffers \cup {NoBuffer}
  BY DEF Desynchronize, taskVars, MacInv, MacTypeOK
<1>2. BackoffTyped'
  <2>1. MinBE - 1 \in (MinBE - 1) .. MaxBE /\ 0 \in 0 .. (2 ^ MaxBE - 1)
    BY Constants, PowersOfTwo
  <2> QED BY <2>1, IndicateTxType DEF Desynchronize, BackoffTyped
<1>3. /\ state' = "SLEEP" /\ dataToSend' = NoBuffer /\ dataReceived' = NoBuffer
      /\ ackToSend' = NoBuffer
  BY <1>1 DEF Leave
<1>4. /\ queue' \in [Buffers -> Packet]
      /\ \A b \in Buffers : BufferHeld(b)'
      /\ EveryPacketHasTask' /\ rxTasks' \in Nat /\ txTasks' \in Nat
  BY <1>1, LeaveKeeps
<1>5. desyncs' \in 0 .. MaxDesyncs /\ isSync' = FALSE /\ cell' = cell /\ UNCHANGED taskVars
  BY Constants DEF Desynchronize, MacInv, MacTypeOK
<1>6. MacTypeOK'
  BY <1>2, <1>3, <1>4, <1>5 DEF MacInv, MacTypeOK, BackoffTyped, taskVars
<1>7. PointersFollowState'
  BY <1>3, <1>5 DEF MacInv, PointersFollowState, taskVars, TxStates, AckStates
<1> QED BY <1>4, <1>6, <1>7 DEF MacInv

\* The MAC takes a free buffer for a frame or an acknowledgement.
LEMMA TakeKeeps ==
    ASSUME MacInv, FreeBuffers # {}, isSync,
           queue' = [queue EXCEPT ![Min(FreeBuffers)] = MacBuffer("MAC")],
           UNCHANGED <<isSync, cell, backoffVars, dataToSend, rxTasks, txTasks, taskVars, desyncs>>,
           \/ /\ state = "RXDATA" /\ state' = "TXACKOFFSET"
              /\ dataReceived' = Min(FreeBuffers) /\ UNCHANGED ackToSend
           \/ /\ state = "TXACKOFFSET" /\ state' = "TXACKREADY"
              /\ ackToSend' = Min(FreeBuffers) /\ UNCHANGED dataReceived
    PROVE  MacInv'
<1>1. PICK b \in Buffers : b = Min(FreeBuffers) /\ queue[b].owner = "NULL"
  BY FreeBufferTaken
<1>2. MacBuffer("MAC") \in Packet
  <2>1. FreeBuffer \in Packet
    BY Constants DEF FreeBuffer, Packet
  <2> QED BY <2>1 DEF MacBuffer, Packet
<1>3. queue' = [queue EXCEPT ![b] = MacBuffer("MAC")] /\ queue'[b] = MacBuffer("MAC")
  BY <1>1 DEF MacInv, MacTypeOK
<1>4. /\ MacBuffer("MAC").owner = "MAC" /\ MacBuffer("MAC").creator = "MAC"
  BY DEF MacBuffer, FreeBuffer
<1>5. /\ b # making /\ b \notin {dataToSend, dataReceived, ackToSend}
  BY <1>1 DEF MacInv, BufferHeld
<1>6. BufferHeld(b)'
  BY <1>1, <1>3, <1>4, <1>5 DEF BufferHeld, taskVars
<1>7. /\ dataToSend = NoBuffer /\ ackToSend = NoBuffer
      /\ state = "RXDATA" => dataReceived = NoBuffer
  BY DEF MacInv, PointersFollowState, TxStates, AckStates
<1>8. /\ queue' \in [Buffers -> Packet]
      /\ \A c \in Buffers : BufferHeld(c)'
      /\ EveryPacketHasTask'
  <2>1. \A c \in Buffers \ {b} : /\ c = making' <=> c = making
                                 /\ c = dataToSend' <=> c = dataToSend
                                 /\ c = dataReceived' <=> c = dataReceived
                                 /\ c = ackToSend' <=> c = ackToSend
    BY <1>1, <1>7, Constants DEF taskVars
  <2>2. queue[b].owner # "TO_SIXTOP" /\ MacBuffer("MAC").owner # "TO_SIXTOP"
    BY <1>1, <1>4
  <2> QED BY <1>2, <1>3, <1>6, <2>1, <2>2, HandKeeps
<1>9. MacTypeOK'
  BY <1>1, <1>8 DEF MacInv, MacTypeOK, backoffVars, taskVars, AckStates
<1>10. PointersFollowState'
  BY <1>1, <1>5, <1>7, Constants
     DEF MacInv, PointersFollowState, taskVars, TxStates, AckStates
<1> QED BY <1>8, <1>9, <1>10 DEF MacInv

LEMMA EndSlotStepKeeps ==
    ASSUME MacInv, EndSlot, UNCHANGED <<isSync, cell, taskVars, desyncs>>
    PROVE  MacInv'
<1>1. dataReceived \in Buffers \cup {NoBuffer}
  BY DEF MacInv, MacTypeOK
<1> QED BY <1>1, EndSlotKeeps DEF EndSlot

LEMMA TimerKeeps ==
    ASSUME MacInv, Timer
    PROVE  MacInv'
<1>1. isSync /\ UNCHANGED <<isSync, cell, taskVars, desyncs>>
  BY DEF Timer
<1>2. CASE state \in DOMAIN TimerLeadsTo /\ MoveTo(TimerLeadsTo[state])
  <2>1. TimerLeadsTo[state] \in TxStates \cup RxStates \cup AckStates
        /\ (TimerLeadsTo[state] \in TxStates <=> state \in TxStates)
        /\ (TimerLeadsTo[state] \in AckStates <=> state \in AckStates)
        /\ TimerLeadsTo[state] # "TXACKOFFSET" /\ state # "TXACKOFFSET"
    BY <1>2 DEF TimerLeadsTo, TxStates, RxStates, AckStates
  <2> QED BY <1>1, <1>2, <2>1, MoveKeeps
<1>3. CASE state = "TXACKOFFSET" /\ PrepareAck
  <2>1. CASE FreeBuffers = {}
    BY <1>1, <1>3, <2>1, EndSlotStepKeeps DEF PrepareAck
  <2>2. CASE FreeBuffers # {}
    BY <1>1, <1>3, <2>2, TakeKeeps DEF PrepareAck
  <2> QED BY <2>1, <2>2
<1>4. CASE EndSlot
  BY <1>1, <1>4, EndSlotStepKeeps
<1> QED BY <1>2, <1>3, <1>4 DEF Timer

LEMMA StartOfFrameKeeps ==
    ASSUME MacInv, StartOfFrame
    PROVE  MacInv'
<1>1. UNCHANGED <<isSync, cell, taskVars, desyncs>>
  BY DEF StartOfFrame
<1>2. CASE isSync /\ state \in DOMAIN FrameLeadsTo /\ MoveTo(FrameLeadsTo[state])
  <2>1. FrameLeadsTo[state] \in TxStates \cup RxStates \cup AckStates
        /\ (FrameLeadsTo[state] \in TxStates <=> state \in TxStates)
        /\ (FrameLeadsTo[state] \in AckStates <=> state \in AckStates)
        /\ FrameLeadsTo[state] # "TXACKOFFSET" /\ state # "TXACKOFFSET"
    BY <1>2 DEF FrameLeadsTo, TxStates, RxStates, AckStates
  <2> QED BY <1>1, <1>2, <2>1, MoveKeeps
<1>3. CASE isSync /\ EndSlot
  BY <1>1, <1>3, EndSlotStepKeeps
<1>4. CASE ~isSync /\ MoveTo(IF state = "SYNCLISTEN" THEN "SYNCRX" ELSE state)
  <2> DEFINE s == IF state = "SYNCLISTEN" THEN "SYNCRX" ELSE state
  <2>1. state \in {"SLEEP"} \cup SyncStates
    BY <1>4 DEF MacInv, PointersFollowState
  <2>2. /\ s \in {"SLEEP"} \cup SyncStates /\ s # "TXACKOFFSET" /\ state # "TXACKOFFSET"
        /\ s \notin TxStates /\ state \notin TxStates
        /\ s \notin AckStates /\ state \notin AckStates
    BY <2>1 DEF SyncStates, TxStates, AckStates
  <2> HIDE DEF s
  <2>3. MoveTo(s)
    BY <1>4 DEF s
  <2> QED BY <1>1, <2>2, <2>3, MoveKeeps
<1> QED BY <1>2, <1>3, <1>4 DEF StartOfFrame

LEMMA EndOfFrameKeeps ==
    ASSUME MacInv, EndOfFrame
    PROVE  MacInv'
<1>1. isSync /\ UNCHANGED <<isSync, cell, taskVars, desyncs>>
  BY DEF EndOfFrame
<1>2. state \notin {"TXACKOFFSET"} \cup AckStates => dataReceived = NoBuffer
  BY DEF MacInv, PointersFollowState
<1>3. CASE DataSent
  <2>1. dataReceived = NoBuffer
    BY <1>2, <1>3 DEF DataSent, AckStates
  <2>2. CASE EndSlotWith(TRUE, NoBuffer)
    BY <1>1, <2>1, <2>2, EndSlotKeeps
  <2>3. CASE MoveTo("RXACKOFFSET")
    BY <1>1, <1>3, <2>3, MoveKeeps DEF DataSent, TxStates, AckStates
  <2> QED BY <1>3, <2>2, <2>3 DEF DataSent
<1>4. CASE AckReceived
  <2>1. dataReceived = NoBuffer
    BY <1>2, <1>4 DEF AckReceived, AckStates
  <2>2. CASE EndSlotWith(TRUE, NoBuffer)
    BY <1>1, <2>1, <2>2, EndSlotKeeps
  <2>3. CASE EndSlot
    BY <1>1, <2>3, EndSlotStepKeeps
  <2> QED BY <1>4, <2>2, <2>3 DEF AckReceived
<1>5. CASE FrameReceived
  <2>1. dataReceived = NoBuffer /\ state = "RXDATA"
    BY <1>2, <1>5 DEF FrameReceived, AckStates
  <2>2. CASE EndSlot
    BY <1>1, <2>2, EndSlotStepKeeps
  <2>3. CASE /\ FreeBuffers # {}
             /\ dataReceived' = Min(FreeBuffers)
             /\ queue' = [queue EXCEPT ![Min(FreeBuffers)] = MacBuffer("MAC")]
             /\ state' = "TXACKOFFSET"
             /\ UNCHANGED <<backoffVars, dataToSend, ackToSend, rxTasks, txTasks>>
    BY <1>1, <2>1, <2>3, TakeKeeps
  <2>4. CASE FreeBuffers # {} /\ EndSlotWith(FALSE, Min(FreeBuffers))
    BY <1>1, <2>1, <2>4, FreeBufferTaken, EndSlotKeeps
  <2> QED BY <1>5, <2>2, <2>3, <2>4 DEF FrameReceived
<1>6. CASE OtherEndOfFrame
  BY <1>1, <1>6, EndSlotStepKeeps DEF OtherEndOfFrame
<1> QED BY <1>3, <1>4, <1>5, <1>6 DEF EndOfFrame

LEMMA SynchronizeKeeps ==
    ASSUME MacInv, Synchronize
    PROVE  MacInv'
<1>1. Leave(FALSE, Min(FreeBuffers)) /\ UNCHANGED making
  BY DEF Synchronize, taskVars
<1>2. dataReceived = NoBuffer
  BY DEF Synchronize, MacInv, PointersFollowState, SyncStates, AckStates
<1>3. /\ queue' \in [Buffers -> Packet]
      /\ \A b \in Buffers : BufferHeld(b)'
      /\ EveryPacketHasTask' /\ rxTasks' \in Nat /\ txTasks' \in Nat
  BY <1>1, <1>2, FreeBufferTaken, LeaveKeeps DEF Synchronize
<1>4. /\ state' = "SLEEP" /\ dataToSend' = NoBuffer /\ dataReceived' = NoBuffer
      /\ ackToSend' = NoBuffer
  BY <1>1 DEF Leave
<1>5. /\ isSync' = TRUE /\ cell' = 1 /\ 1 \in 1 .. Len(Frame)
      /\ UNCHANGED <<backoffVars, taskVars, desyncs>>
  BY Constants DEF Synchronize
<1>6. MacTypeOK'
  BY <1>3, <1>4, <1>5 DEF MacInv, MacTypeOK, backoffVars, taskVars
<1>7. PointersFollowState'
  BY <1>4, <1>5 DEF MacInv, PointersFollowState, taskVars, TxStates, AckStates
<1> QED BY <1>3, <1>6, <1>7 DEF MacInv

LEMMA InterruptKeeps ==
    ASSUME MacInv, Interrupt
    PROVE  MacInv'
<1>1. CASE NewSlot
  <2>1. CASE RunCell
    BY <2>1, RunCellKeeps
  <2>2. CASE Overrun
    BY <2>2, EndSlotStepKeeps DEF Overrun
  <2>3. CASE Desynchronize
    BY <2>3, DesynchronizeKeeps
  <2>4. CASE ListenForAdv
    <3> DEFINE s == IF state = "SYNCRX" THEN "SYNCRX" ELSE "SYNCLISTEN"
    <3>1. /\ state \in {"SLEEP"} \cup SyncStates
          /\ MoveTo(s) /\ UNCHANGED <<isSync, cell, taskVars, desyncs>>
      BY <2>4 DEF ListenForAdv, MacInv, PointersFollowState
    <3>2. /\ s \in {"SLEEP"} \cup SyncStates /\ s # "TXACKOFFSET" /\ state # "TXACKOFFSET"
          /\ s \notin TxStates /\ state \notin TxStates
          /\ s \notin AckStates /\ state \notin AckStates
      BY <3>1 DEF SyncStates, TxStates, AckStates
    <3> HIDE DEF s
    <3> QED BY <3>1, <3>2, MoveKeeps
  <2> QED BY <1>1, <2>1, <2>2, <2>3, <2>4 DEF NewSlot
<1>2. CASE NotSynchronized
  <2> SUFFICES ASSUME NEW s \in {"SLEEP", "SYNCLISTEN"}, MoveTo(s)
               PROVE  MacInv'
    BY <1>2 DEF NotSynchronized
  <2>1. /\ state \in {"SLEEP"} \cup SyncStates
        /\ UNCHANGED <<isSync, cell, taskVars, desyncs>>
    BY <1>2 DEF NotSynchronized, MacInv, PointersFollowState
  <2>2. /\ s \in {"SLEEP"} \cup SyncStates /\ s # "TXACKOFFSET" /\ state # "TXACKOFFSET"
        /\ s \notin TxStates /\ state \notin TxStates
        /\ s \notin AckStates /\ state \notin AckStates
    BY <2>1 DEF SyncStates, TxStates, AckStates
  <2> QED BY <2>1, <2>2, MoveKeeps
<1> QED
  BY <1>1, <1>2, TimerKeeps, StartOfFrameKeeps, EndOfFrameKeeps, SynchronizeKeeps DEF Interrupt

-----------------------------------------------------------------------------
(* The tasks. *)

\* What the tasks leave alone keeps its type.
LEMMA TaskStepKeeps ==
    ASSUME MacInv, UNCHANGED macVars,
           queue' \in [Buffers -> Packet], \A b \in Buffers : BufferHeld(b)', EveryPacketHasTask',
           rxTasks' \in Nat, txTasks' \in Nat,
           making' \in Buffers \cup {NoBuffer}, busySendingKA' \in BOOLEAN, made' \in Nat,
           task' \in {"none", "sendEB", "sendKA", "sendData", "submit"},
           making' # NoBuffer <=> task' = "submit"
    PROVE  MacInv'
<1>1. MacTypeOK'
  BY DEF MacInv, MacTypeOK, macVars, backoffVars, pointers
<1>2. PointersFollowState'
  BY DEF MacInv, PointersFollowState, macVars, pointers
<1> QED BY <1>1, <1>2 DEF MacInv

\* A task that only moves on.
LEMMA OnlyTaskMoves ==
    ASSUME MacInv, UNCHANGED <<macVars, queue, rxTasks, txTasks, making, busySendingKA, made>>,
           task # "submit",
           task' \in {"none", "sendEB", "sendKA", "sendData"}
    PROVE  MacInv'
<1>1. \A b \in Buffers : BufferHeld(b)'
  BY DEF MacInv, BufferHeld, Counted, Begun, macVars, pointers
<1>2. EveryPacketHasTask'
  BY DEF MacInv, EveryPacketHasTask, SentPackets, ReceivedPackets
<1> QED BY <1>1, <1>2, TaskStepKeeps DEF MacInv, MacTypeOK, PointersFollowState

LEMMA PurgeKeeps ==
    ASSUME MacInv, Purge
    PROVE  MacInv'
<1>1. /\ ~isSync /\ task \in {"sendEB", "sendKA"} /\ task' = "none"
      /\ UNCHANGED <<macVars, rxTasks, txTasks, making, made>>
      /\ making = NoBuffer
      /\ queue \in [Buffers -> Packet] /\ rxTasks \in Nat /\ txTasks \in Nat
  BY DEF Purge, MacInv, MacTypeOK, PointersFollowState
<1>2. dataToSend = NoBuffer /\ dataReceived = NoBuffer /\ ackToSend = NoBuffer
  BY <1>1 DEF MacInv, PointersFollowState, SyncStates, TxStates, AckStates
<1>3. \A b \in Buffers : queue'[b] = IF queue[b].creator = "SIXTOP" THEN FreeBuffer ELSE queue[b]
  BY DEF Purge
<1>4. queue' \in [Buffers -> Packet]
  <2>1. FreeBuffer \in Packet
    BY Constants DEF FreeBuffer, Packet
  <2> QED BY <1>1, <2>1 DEF Purge
<1>5. ASSUME NEW b \in Buffers
      PROVE  BufferHeld(b)'
  <2>1. BufferHeld(b) /\ b \notin {dataToSend, dataReceived, ackToSend, making}'
    BY <1>1, <1>2, Constants DEF MacInv, macVars, pointers
  <2>2. CASE queue'[b] = FreeBuffer
    BY <2>1, <2>2 DEF BufferHeld, FreeBuffer
  <2>3. CASE queue'[b] = queue[b]
    BY <1>1, <1>2, <2>1, <2>3 DEF BufferHeld, Counted, Begun
  <2> QED BY <1>3, <2>2, <2>3
<1>6. EveryPacketHasTask'
  <2>1. SentPackets' \subseteq SentPackets
    BY <1>3 DEF SentPackets, FreeBuffer
  <2>2. ReceivedPackets' = ReceivedPackets
    BY <1>3 DEF ReceivedPackets, FreeBuffer
  <2>3. Cardinality(SentPackets') <= Cardinality(SentPackets) /\ Cardinality(SentPackets') \in Nat
    <3>1. IsFiniteSet(SentPackets')
      BY <2>1, HandedUp, FS_Subset
    <3> QED BY <2>1, <3>1, HandedUp, FS_Subset, FS_CardinalityType
  <2> QED BY <1>1, <2>2, <2>3, HandedUp DEF MacInv, EveryPacketHasTask
<1>7. busySendingKA' \in BOOLEAN
  BY DEF Purge, MacInv, MacTypeOK
<1> QED BY <1>1, <1>4, <1>5, <1>6, <1>7, TaskStepKeeps DEF MacInv, MacTypeOK

LEMMA AllocateKeeps ==
    ASSUME MacInv, Allocate
    PROVE  MacInv'
<1>1. /\ FreeBuffers # {} /\ task \in {"sendEB", "sendKA", "sendData"} /\ task' = "submit"
      /\ making' = Min(FreeBuffers) /\ made' = made + 1
      /\ UNCHANGED <<macVars, rxTasks, txTasks, busySendingKA>>
      /\ making = NoBuffer
  BY DEF Allocate, MacInv, PointersFollowState
<1>2. PICK b \in Buffers : b = Min(FreeBuffers) /\ queue[b].owner = "NULL"
  BY <1>1, FreeBufferTaken
<1>3. PICK broadcast \in BOOLEAN :
         queue' = [queue EXCEPT ![b] =
                      [creator |-> IF task = "sendData" THEN "UPPER" ELSE "SIXTOP",
                       owner |-> "MAKER", broadcast |-> broadcast,
                       retriesLeft |-> 0, attempts |-> 0]]
  BY <1>1, <1>2 DEF Allocate
<1> DEFINE p == [creator |-> IF task = "sendData" THEN "UPPER" ELSE "SIXTOP",
                 owner |-> "MAKER", broadcast |-> broadcast, retriesLeft |-> 0, attempts |-> 0]
<1>4. /\ p \in Packet /\ p.owner = "MAKER" /\ p.creator \in {"UPPER", "SIXTOP"} /\ p.attempts = 0
  BY Constants DEF Packet
<1>5. queue' = [queue EXCEPT ![b] = p] /\ queue'[b] = p
  BY <1>3 DEF MacInv, MacTypeOK
<1> HIDE DEF p
<1>6. b \notin {dataToSend, dataReceived, ackToSend} /\ UNCHANGED <<dataToSend, dataReceived, ackToSend>>
  BY <1>1, <1>2 DEF MacInv, BufferHeld, macVars, pointers
<1>7. BufferHeld(b)'
  BY <1>1, <1>2, <1>4, <1>5, <1>6 DEF BufferHeld
<1>8. /\ queue' \in [Buffers -> Packet]
      /\ \A c \in Buffers : BufferHeld(c)'
      /\ EveryPacketHasTask'
  <2>1. \A c \in Buffers \ {b} : c = making' <=> c = making
    BY <1>1, <1>2, Constants
  <2>2. queue[b].owner # "TO_SIXTOP" /\ p.owner # "TO_SIXTOP"
    BY <1>2, <1>4
  <2> QED BY <1>1, <1>4, <1>5, <1>6, <1>7, <2>1, <2>2, HandKeeps
<1>9. making' \in Buffers /\ making' # NoBuffer /\ made' \in Nat
  <2>1. made \in Nat
    BY DEF MacInv, MacTypeOK
  <2>2. making' \in Buffers /\ made' = made + 1
    BY <1>1, <1>2
  <2> QED BY <2>1, <2>2, Constants
<1> QED BY <1>1, <1>8, <1>9, TaskStepKeeps DEF MacInv, MacTypeOK

LEMMA SubmitKeeps ==
    ASSUME MacInv, Submit
    PROVE  MacInv'
<1>1. /\ task = "submit" /\ task' = "none" /\ making' = NoBuffer
      /\ UNCHANGED <<macVars, rxTasks, txTasks, made>>
      /\ making \in Buffers /\ queue \in [Buffers -> Packet]
  BY DEF Submit, MacInv, MacTypeOK, PointersFollowState
<1>2. PICK b \in Buffers : b = making
  BY <1>1
<1>3. /\ queue[b].owner = "MAKER" /\ queue[b].creator \notin {"MAC", "NULL"}
      /\ queue[b].attempts = 0 /\ queue[b] \in Packet
      /\ b \notin {dataToSend, dataReceived, ackToSend}
  <2>1. BufferHeld(b)
    BY DEF MacInv
  <2> QED BY <1>1, <1>2, <2>1 DEF BufferHeld
<1> DEFINE p == [queue[b] EXCEPT !.owner = "TO_MAC", !.retriesLeft = Retries(queue[b].broadcast)]
<1>4. queue' = [queue EXCEPT ![b] = p]
  BY <1>1, <1>2 DEF Submit
<1>5. /\ p \in Packet /\ p.owner = "TO_MAC" /\ p.creator = queue[b].creator
      /\ p.attempts = 0 /\ p.retriesLeft = Retries(p.broadcast)
  <2>1. Retries(queue[b].broadcast) \in 0 .. TxRetries
    BY Constants
  <2> QED BY <1>3, <2>1 DEF Packet
<1> HIDE DEF p
<1>6. queue'[b] = p /\ UNCHANGED <<dataToSend, dataReceived, ackToSend>>
  BY <1>1, <1>4 DEF macVars, pointers
<1>7. p.retriesLeft > 0 /\ p.attempts + p.retriesLeft = Retries(p.broadcast) + 0
  BY <1>5, Constants
<1>8. BufferHeld(b)'
  BY <1>1, <1>3, <1>5, <1>6, <1>7, Constants DEF BufferHeld, Counted, Begun
<1>9. /\ queue' \in [Buffers -> Packet]
      /\ \A c \in Buffers : BufferHeld(c)'
      /\ EveryPacketHasTask'
  <2>1. \A c \in Buffers \ {b} : c = making' <=> c = making
    BY <1>1, <1>2, Constants
  <2>2. queue[b].owner # "TO_SIXTOP" /\ p.owner # "TO_SIXTOP"
    BY <1>3, <1>5
  <2> QED BY <1>1, <1>4, <1>5, <1>6, <1>8, <2>1, <2>2, HandKeeps
<1>10. busySendingKA' \in BOOLEAN
  BY DEF Submit, MacInv, MacTypeOK, IsKA
<1> QED BY <1>1, <1>9, <1>10, TaskStepKeeps DEF MacInv, MacTypeOK

\* A packet handed up is collected: its buffer is free again.
LEMMA CollectKeeps ==
    ASSUME MacInv, NEW b \in Buffers, queue[b].owner = "TO_SIXTOP",
           queue' = [queue EXCEPT ![b] = FreeBuffer],
           UNCHANGED <<dataToSend, dataReceived, ackToSend, making>>
    PROVE  /\ queue' \in [Buffers -> Packet]
           /\ \A c \in Buffers : BufferHeld(c)'
           /\ SentPackets' = SentPackets \ {b} /\ ReceivedPackets' = ReceivedPackets \ {b}
<1>1. queue \in [Buffers -> Packet] /\ FreeBuffer \in Packet
  BY Constants DEF MacInv, MacTypeOK, FreeBuffer, Packet
<1>2. queue' \in [Buffers -> Packet]
  BY <1>1
<1>3. \A c \in Buffers : queue'[c] = IF c = b THEN FreeBuffer ELSE queue[c]
  BY <1>1
<1>4. FreeBuffer.owner = "NULL" /\ FreeBuffer.creator = "NULL"
  BY DEF FreeBuffer
<1>5. ASSUME NEW c \in Buffers
      PROVE  BufferHeld(c)'
  <2>1. BufferHeld(c)
    BY DEF MacInv
  <2>2. CASE c = b
    BY <1>3, <1>4, <2>1, <2>2 DEF BufferHeld
  <2>3. CASE c # b
    <3>1. queue'[c] = queue[c]
      BY <1>3, <2>3
    <3> QED BY <2>1, <3>1 DEF BufferHeld, Counted, Begun
  <2> QED BY <2>2, <2>3
<1>6. SentPackets' = SentPackets \ {b} /\ ReceivedPackets' = ReceivedPackets \ {b}
  BY <1>3, <1>4 DEF SentPackets, ReceivedPackets
<1> QED BY <1>2, <1>5, <1>6

LEMMA NotifReceiveKeeps ==
    ASSUME MacInv, NotifReceive
    PROVE  MacInv'
<1>1. /\ rxTasks > 0 /\ rxTasks' = rxTasks - 1 /\ rxTasks \in Nat
      /\ queue' = [queue EXCEPT ![Min(ReceivedPackets)] = FreeBuffer]
      /\ UNCHANGED <<macVars, txTasks, taskVars>>
      /\ Cardinality(SentPackets) <= txTasks /\ Cardinality(ReceivedPackets) = rxTasks
  BY DEF NotifReceive, MacInv, MacTypeOK, EveryPacketHasTask
<1>2. ReceivedPackets # {}
  BY <1>1, FS_EmptySet
<1>3. PICK b \in Buffers : b = Min(ReceivedPackets) /\ b \in ReceivedPackets
  <2>1. ReceivedPackets \subseteq Nat
    BY HandedUp, Constants
  <2> QED BY <1>2, <2>1, MinIsMember, HandedUp
<1>4. queue[b].owner = "TO_SIXTOP" /\ queue[b].creator = "MAC" /\ b \notin SentPackets
  BY <1>3 DEF ReceivedPackets, SentPackets
<1>5. /\ queue' \in [Buffers -> Packet]
      /\ \A c \in Buffers : BufferHeld(c)'
      /\ SentPackets' = SentPackets \ {b} /\ ReceivedPackets' = ReceivedPackets \ {b}
  BY <1>1, <1>3, <1>4, CollectKeeps DEF macVars, pointers, taskVars
<1>6. EveryPacketHasTask'
  <2>1. SentPackets' = SentPackets
    BY <1>4, <1>5
  <2>2. Cardinality(ReceivedPackets') = Cardinality(ReceivedPackets) - 1
    BY <1>3, <1>5, HandedUp, OneMore
  <2> QED BY <1>1, <2>1, <2>2 DEF EveryPacketHasTask
<1> QED BY <1>1, <1>5, <1>6, TaskStepKeeps DEF MacInv, MacTypeOK, PointersFollowState, taskVars

LEMMA NotifSendDoneKeeps ==
    ASSUME MacInv, NotifSendDone
    PROVE  MacInv'
<1>1. /\ txTasks > 0 /\ txTasks' = txTasks - 1 /\ rxTasks = 0 /\ rxTasks \in Nat /\ txTasks \in Nat
      /\ UNCHANGED <<macVars, rxTasks, task, making, made>>
      /\ Cardinality(SentPackets) <= txTasks /\ Cardinality(ReceivedPackets) = rxTasks
  BY DEF NotifSendDone, MacInv, MacTypeOK, EveryPacketHasTask
<1>2. CASE SentPackets = {}
  <2>1. UNCHANGED <<queue, busySendingKA>>
    BY <1>2 DEF NotifSendDone
  <2>2. \A b \in Buffers : BufferHeld(b)'
    BY <1>1, <2>1 DEF MacInv, BufferHeld, Counted, Begun, macVars, pointers
  <2>3. SentPackets' = {} /\ ReceivedPackets' = ReceivedPackets
    BY <1>2, <2>1 DEF SentPackets, ReceivedPackets
  <2>4. EveryPacketHasTask'
    BY <1>1, <2>3, FS_EmptySet DEF EveryPacketHasTask
  <2> QED BY <1>1, <2>1, <2>2, <2>4, TaskStepKeeps DEF MacInv, MacTypeOK, PointersFollowState
<1>3. CASE SentPackets # {}
  <2>1. PICK b \in Buffers : b = Min(SentPackets) /\ b \in SentPackets
    <3>1. SentPackets \subseteq Nat
      BY HandedUp, Constants
    <3> QED BY <1>3, <3>1, MinIsMember, HandedUp
  <2>2. /\ queue' = [queue EXCEPT ![b] = FreeBuffer]
        /\ busySendingKA' = (busySendingKA /\ ~IsKA(queue[b]))
    BY <1>3, <2>1 DEF NotifSendDone
  <2>3. queue[b].owner = "TO_SIXTOP" /\ queue[b].creator # "MAC" /\ b \notin ReceivedPackets
    BY <2>1 DEF ReceivedPackets, SentPackets
  <2>4. /\ queue' \in [Buffers -> Packet]
        /\ \A c \in Buffers : BufferHeld(c)'
        /\ SentPackets' = SentPackets \ {b} /\ ReceivedPackets' = ReceivedPackets \ {b}
    BY <1>1, <2>2, <2>3, CollectKeeps DEF macVars, pointers
  <2>5. EveryPacketHasTask'
    <3>1. ReceivedPackets' = ReceivedPackets
      BY <2>3, <2>4
    <3>2. Cardinality(SentPackets') = Cardinality(SentPackets) - 1
      BY <2>1, <2>4, HandedUp, OneMore
    <3> QED BY <1>1, <3>1, <3>2, HandedUp DEF EveryPacketHasTask
  <2>6. busySendingKA' \in BOOLEAN
    BY <2>2 DEF MacInv, MacTypeOK, IsKA
  <2> QED BY <1>1, <2>4, <2>5, <2>6, TaskStepKeeps DEF MacInv, MacTypeOK, PointersFollowState
<1> QED BY <1>2, <1>3

-----------------------------------------------------------------------------
LEMMA InitMacInv == Init => MacInv
<1> SUFFICES ASSUME Init
             PROVE  MacInv
  OBVIOUS
<1>1. \A b \in Buffers : queue[b] = FreeBuffer /\ queue[b].owner = "NULL" /\ queue[b].creator = "NULL"
  BY DEF Init, FreeBuffer
<1>2. MacTypeOK
  <2>1. FreeBuffer \in Packet
    BY Constants DEF FreeBuffer, Packet
  <2>2. backoffExponent \in (MinBE - 1) .. MaxBE /\ backoff \in 0 .. (2 ^ MaxBE - 1)
    BY Constants, PowersOfTwo DEF Init
  <2>3. queue \in [Buffers -> Packet]
    BY <2>1 DEF Init
  <2>4. 1 \in 1 .. Len(Frame) /\ 0 \in 0 .. MaxDesyncs
    BY Constants
  <2> QED BY <2>2, <2>3, <2>4 DEF Init, MacTypeOK
<1>3. \A b \in Buffers : BufferHeld(b)
  BY <1>1, Constants DEF Init, BufferHeld
<1>4. PointersFollowState
  BY DEF Init, PointersFollowState, TxStates, AckStates
<1>5. EveryPacketHasTask
  <2>1. SentPackets = {} /\ ReceivedPackets = {}
    BY <1>1 DEF SentPackets, ReceivedPackets
  <2> QED BY <2>1, FS_EmptySet DEF Init, EveryPacketHasTask
<1> QED BY <1>2, <1>3, <1>4, <1>5 DEF MacInv

LEMMA NextMacInv == MacInv /\ [Next]_vars => MacInv'
<1> SUFFICES ASSUME MacInv, [Next]_vars
             PROVE  MacInv'
  OBVIOUS
<1>1. CASE Interrupt
  BY <1>1, InterruptKeeps
<1>2. ASSUME NEW t \in {"sendEB", "sendKA", "sendData"}, PickTask(t)
      PROVE  MacInv'
  BY <1>2, OnlyTaskMoves DEF PickTask
<1>3. CASE MakePacket
  <2>1. CASE GiveUp
    BY <2>1, OnlyTaskMoves DEF GiveUp
  <2> QED BY <1>3, <2>1, PurgeKeeps, AllocateKeeps, SubmitKeeps DEF MakePacket
<1>4. CASE UNCHANGED vars
  BY <1>4 DEF vars, backoffVars, pointers, taskVars, MacInv, MacTypeOK, PointersFollowState,
              BufferHeld, Counted, Begun, EveryPacketHasTask, SentPackets, ReceivedPackets
<1> QED BY <1>1, <1>2, <1>3, <1>4, NotifReceiveKeeps, NotifSendDoneKeeps DEF Next

\* The inductive invariant of the MAC holds in every reachable state.
THEOREM MacInvariant == Spec => []MacInv
BY InitMacInv, NextMacInv, PTL DEF Spec

\* No path through a slot, its overrun or a desynchronization takes a variable of
\* the slot state machine or a packet buffer out of its type: the backoff stays
\* below 2^MAXBE and a retry counter never falls below zero.
THEOREM MacType == Spec => []MacTypeOK
<1>1. MacInv => MacTypeOK
  BY DEF MacInv
<1> QED BY <1>1, MacInvariant, PTL

\* The MAC owns exactly the buffers its three pointers name, and the state says
\* which of them it holds: endSlot and the error paths of the activities neither
\* forget a buffer nor keep a pointer to one they have given away.
THEOREM MacHoldsWhatItOwns == Spec => []HoldsWhatItOwns
<1>1. MacInv => HoldsWhatItOwns
  <2> SUFFICES ASSUME MacInv
               PROVE  HoldsWhatItOwns
    OBVIOUS
  <2>1. {dataToSend, dataReceived, ackToSend} \subseteq Buffers \cup {NoBuffer}
    BY DEF MacInv, MacTypeOK
  <2>2. \A b \in Buffers : queue[b].owner = "MAC" <=> b \in {dataToSend, dataReceived, ackToSend}
    BY DEF MacInv, BufferHeld
  <2>3. {b \in Buffers : queue[b].owner = "MAC"} = {dataToSend, dataReceived, ackToSend} \ {NoBuffer}
    BY <2>1, <2>2, Constants
  <2> QED BY <2>3 DEF HoldsWhatItOwns, MacInv, PointersFollowState
<1> QED BY <1>1, MacInvariant, PTL

\* As many received frames wait for 6top as tasks to collect them, and no packet
\* whose transmission is over waits without a task, however many interrupts come
\* between two tasks and whatever a purge removes in between.
THEOREM MacEveryPacketHasTask == Spec => []EveryPacketHasTask
<1>1. MacInv => EveryPacketHasTask
  BY DEF MacInv
<1> QED BY <1>1, MacInvariant, PTL

\* Every attempt costs one retry, whichever way its slot ends: a packet is sent
\* at most TXRETRIES times, a broadcast one once.
THEOREM MacRetriesCountAttempts == Spec => []RetriesCountAttempts
<1>1. MacInv => RetriesCountAttempts
  <2> SUFFICES ASSUME MacInv, NEW b \in Buffers,
                      queue[b].creator \in {"SIXTOP", "UPPER"}, queue[b].owner \in {"TO_MAC", "MAC"}
               PROVE  queue[b].attempts + queue[b].retriesLeft
                        = Retries(queue[b].broadcast) + IF queue[b].owner = "MAC" THEN 1 ELSE 0
    BY DEF RetriesCountAttempts
  <2>1. BufferHeld(b)
    BY DEF MacInv
  <2> QED BY <2>1 DEF BufferHeld, Counted, Begun
<1> QED BY <1>1, MacInvariant, PTL
==============================================================================
