---------------------------- MODULE SixtopProofs ----------------------------
(***************************************************************************)
(* The 6top negotiation of sixtop.c and otf.c, for every set of motes,     *)
(* every shape of network and every queue: no mote waits for an answer     *)
(* that nothing will end, and no loss but that of an acknowledgement makes *)
(* the two ends of a link disagree about a cell.                           *)
(***************************************************************************)
EXTENDS Sixtop, WellFoundedInduction, FiniteSetTheorems, TLAPS

-----------------------------------------------------------------------------
LEMMA LeastMember ==
    ASSUME NEW S, S \subseteq Nat, S # {}
    PROVE  \E m \in S : \A x \in S : m <= x
<1>1. IsWellFoundedOn(OpToRel(<, Nat), Nat)
  BY NatLessThanWellFounded, Zenon
<1>2. PICK m \in S : \A y \in S : ~(<<y, m>> \in OpToRel(<, Nat))
  BY <1>1, WFMin, Zenon
<1>3. \A y \in S : ~(y < m)
  BY <1>2, Zenon DEF OpToRel
<1> QED BY <1>3, SMT

(* The scan of OpenQueue for a buffer of an owner returns one of its buffers. *)
LEMMA FirstIsOwned ==
    ASSUME NEW m \in Motes, NEW o, Owned(m, o) # {}
    PROVE  FirstOwned(m, o) \in Owned(m, o)
<1>1. Owned(m, o) \subseteq Nat
  BY SixtopAssumption DEF Owned, Buffers
<1>2. PICK b \in Owned(m, o) : \A c \in Owned(m, o) : b =< c
  BY <1>1, LeastMember
<1> QED BY <1>2, Zenon DEF FirstOwned, Min

-----------------------------------------------------------------------------
(* The inductive invariant.  A packet the MAC still tries has attempts left,  *)
(* and a packet that has been acknowledged or received names a mote: without  *)
(* that, neither the count of attempts nor the cells booked from a packet     *)
(* keep their type.                                                           *)

GoodPackets ==
    {p \in Packet : /\ p.owner = "TO_MAC" => p.retriesLeft > 0
                    /\ p.owner = "RECEIVED" => p.neighbor \in Motes
                    /\ p.owner = "SENT" /\ p.success => p.neighbor \in Motes}

Contents == GoodPackets \cup {FreeBuffer}
PacketsOK == queue \in [Motes -> [Buffers -> Contents]]

SixtopInv == SixtopTypeOK /\ PacketsOK /\ WaitsAreGuarded

Waiting == {"WAIT_ADDREQUEST_SENDDONE", "WAIT_ADDRESPONSE", "ADDRESPONSE_RECEIVED",
            "WAIT_REMOVEREQUEST_SENDDONE"}

IsResponse(p) == p.owner \in {"TO_MAC", "SENT"} /\ p.opcode = "RESPONSE"

(* The two halves of WaitsAreGuarded, for one mote.                           *)
TimeoutPending(m) == six2six_state[m] \in Waiting => timer[m] \/ timeoutTasks[m] > 0
ResponseUnderWay(m) ==
    six2six_state[m] = "WAIT_ADDRESPONSE_SENDDONE" => \E b \in Buffers : IsResponse(queue[m][b])

LEMMA WaitsByMote ==
    WaitsAreGuarded <=> \A m \in Motes : ~hung[m] => TimeoutPending(m) /\ ResponseUnderWay(m)
BY Zenon DEF WaitsAreGuarded, TimeoutPending, ResponseUnderWay, Waiting, IsResponse

LEMMA ConstantFacts ==
    /\ QueueLength \in Nat /\ TxRetries \in Nat /\ TxRetries > 0
    /\ Networks \subseteq [Motes -> Motes \cup {NoMote}]
BY SixtopAssumption

(* A buffer is of one owner, and only one without an owner is free.           *)
LEMMA BufferFacts ==
    ASSUME PacketsOK, NEW m \in Motes, NEW b \in Buffers, NEW o, b \in Owned(m, o)
    PROVE  /\ queue[m][b].owner = o
           /\ o # "NULL" => queue[m][b] \in GoodPackets
           /\ o = "NULL" => queue[m][b] = FreeBuffer
           /\ FreeBuffer.owner = "NULL"
<1>1. queue[m][b] \in Contents /\ queue[m][b].owner = o
  BY DEF PacketsOK, Owned
<1>2. FreeBuffer.owner = "NULL"
  BY DEF FreeBuffer
<1>3. \A p \in GoodPackets : p.owner # "NULL"
  BY DEF GoodPackets, Packet
<1> QED BY <1>1, <1>2, <1>3 DEF Contents

LEMMA NewPacketGood ==
    ASSUME NEW op \in {"ADD", "RESPONSE", "REMOVE"}, NEW n \in Motes \cup {NoMote},
           NEW S \in SUBSET FreeSlots
    PROVE  /\ NewPacket(op, n, S) \in GoodPackets
           /\ NewPacket(op, n, S).owner = "TO_MAC"
           /\ NewPacket(op, n, S).opcode = op
BY ConstantFacts DEF NewPacket, GoodPackets, Packet

(* A free buffer that takes a packet, or one that gives its packet up.        *)
LEMMA BufferChange ==
    ASSUME PacketsOK, NEW m \in Motes, NEW b \in Buffers,
           NEW p \in Contents, queue' = [queue EXCEPT ![m][b] = p]
    PROVE  /\ PacketsOK'
           /\ queue'[m][b] = p
           /\ \A d \in Buffers : d # b => queue'[m][d] = queue[m][d]
           /\ \A x \in Motes : x # m => queue'[x] = queue[x]
BY DEF PacketsOK

Put(f, m, b, p) == [f EXCEPT ![m][b] = p]

(* Two buffers at once, of the same mote or of two.                           *)
LEMMA TwoBuffersChange ==
    ASSUME PacketsOK, NEW m \in Motes, NEW b \in Buffers, NEW n \in Motes, NEW d \in Buffers,
           NEW p \in Contents, NEW q \in Contents, m # n \/ b # d,
           queue' = Put(Put(queue, m, b, p), n, d, q)
    PROVE  /\ PacketsOK'
           /\ queue'[m][b] = p /\ queue'[n][d] = q
           /\ \A x \in Motes, y \in Buffers :
                (x # m \/ y # b) /\ (x # n \/ y # d) => queue'[x][y] = queue[x][y]
<1>1. PICK g : g = Put(queue, m, b, p)
  OBVIOUS
<1>2. PICK h : h = Put(g, n, d, q) /\ queue' = h
  BY <1>1, Zenon
<1>3. queue \in [Motes -> [Buffers -> Contents]]
  BY DEF PacketsOK
<1>4. /\ g \in [Motes -> [Buffers -> Contents]] /\ g[m][b] = p
      /\ \A x \in Motes, y \in Buffers : (x # m \/ y # b) => g[x][y] = queue[x][y]
  BY ONLY <1>1, <1>3, m \in Motes, b \in Buffers, p \in Contents DEF Put
<1>5. h = Put(g, n, d, q) /\ queue' = h
  BY <1>2
<1>6. /\ h \in [Motes -> [Buffers -> Contents]] /\ h[n][d] = q
      /\ \A x \in Motes, y \in Buffers : (x # n \/ y # d) => h[x][y] = g[x][y]
  BY ONLY <1>5, <1>4, n \in Motes, d \in Buffers, q \in Contents DEF Put
<1>7. queue' = h
  BY <1>5
<1>8. /\ h[m][b] = p
      /\ \A x \in Motes, y \in Buffers :
           (x # m \/ y # b) /\ (x # n \/ y # d) => h[x][y] = queue[x][y]
  BY ONLY <1>4, <1>6, m \in Motes, b \in Buffers, m # n \/ b # d
<1> QED BY ONLY <1>6, <1>7, <1>8 DEF PacketsOK

(* What a step of mote m must show, the other motes being untouched but for   *)
(* buffers they may have taken.                                               *)
LEMMA GuardsKept ==
    ASSUME SixtopInv, NEW m \in Motes,
           \A x \in Motes : x # m => /\ six2six_state'[x] = six2six_state[x]
                                     /\ timer'[x] = timer[x]
                                     /\ timeoutTasks'[x] = timeoutTasks[x]
                                     /\ hung'[x] = hung[x],
           \A x \in Motes : x # m => \A d \in Buffers :
               IsResponse(queue[x][d]) => IsResponse(queue'[x][d]),
           ~hung'[m] => TimeoutPending(m)' /\ ResponseUnderWay(m)'
    PROVE  WaitsAreGuarded'
<1>1. ASSUME NEW x \in Motes, ~hung'[x]
      PROVE  TimeoutPending(x)' /\ ResponseUnderWay(x)'
  <2>1. CASE x # m
    <3>1. ~hung[x] /\ TimeoutPending(x) /\ ResponseUnderWay(x)
      BY <1>1, <2>1, WaitsByMote DEF SixtopInv
    <3>2. TimeoutPending(x)'
      BY <2>1, <3>1, Zenon DEF TimeoutPending
    <3>3. ResponseUnderWay(x)'
      BY <2>1, <3>1, Zenon DEF ResponseUnderWay
    <3> QED BY <3>2, <3>3
  <2> QED BY <1>1, <2>1
<1>2. WaitsAreGuarded' <=> \A x \in Motes : ~hung'[x] => TimeoutPending(x)' /\ ResponseUnderWay(x)'
  BY Zenon DEF WaitsAreGuarded, TimeoutPending, ResponseUnderWay, Waiting, IsResponse
<1> QED BY <1>1, <1>2

(* The type of the state, variable by variable.                               *)
LEMMA TypeFacts ==
    ASSUME SixtopInv
    PROVE  /\ six2six_state \in [Motes -> SixStates]
           /\ timer \in [Motes -> BOOLEAN]
           /\ timeoutTasks \in [Motes -> Nat]
           /\ otfTasks \in [Motes -> Seq({"add", "remove"})]
           /\ cells \in [Motes -> SUBSET Cell]
           /\ hung \in [Motes -> BOOLEAN]
           /\ preferredParent \in [Motes -> Motes \cup {NoMote}]
           /\ PacketsOK
BY ConstantFacts DEF SixtopInv, SixtopTypeOK

(* ... and what a step must show to keep it.                                  *)
LEMMA TypeKept ==
    ASSUME six2six_state' \in [Motes -> SixStates],
           timer' \in [Motes -> BOOLEAN],
           timeoutTasks' \in [Motes -> Nat],
           otfTasks' \in [Motes -> Seq({"add", "remove"})],
           cells' \in [Motes -> SUBSET Cell],
           hung' \in [Motes -> BOOLEAN],
           preferredParent' \in Networks,
           {calls', framesLost', acksLost', timeouts', switches'} \subseteq Nat,
           PacketsOK'
    PROVE  SixtopTypeOK'
<1>1. Contents \subseteq Packet \cup {FreeBuffer}
  BY DEF Contents, GoodPackets
<1>2. queue' \in [Motes -> [Buffers -> Packet \cup {FreeBuffer}]]
  BY <1>1 DEF PacketsOK
<1> QED BY <1>2 DEF SixtopTypeOK

LEMMA WaitingStates == Waiting \subseteq SixStates /\ "WAIT_ADDRESPONSE_SENDDONE" \notin Waiting
BY DEF Waiting, SixStates

(* A request that is queued is guarded by the timeout armed with it.          *)
LEMMA RequestStep ==
    ASSUME SixtopInv, NEW m \in Motes, NEW op \in {"ADD", "REMOVE"},
           NEW S \in SUBSET FreeSlots, NEW waiting \in Waiting,
           Request(m, op, S, waiting), UNCHANGED <<timeoutTasks, hung>>
    PROVE  /\ PacketsOK' /\ WaitsAreGuarded'
           /\ six2six_state' \in [Motes -> SixStates]
           /\ timer' \in [Motes -> BOOLEAN]
<1>1. CASE UNCHANGED <<queue, six2six_state, timer>>
  <2>1. PacketsOK'
    BY <1>1, TypeFacts DEF PacketsOK
  <2>2. WaitsAreGuarded'
    BY <1>1, Zenon DEF SixtopInv, WaitsAreGuarded
  <2> QED BY <1>1, <2>1, <2>2, TypeFacts
<1>2. CASE /\ Owned(m, "NULL") # {}
           /\ queue' = [queue EXCEPT ![m][FirstOwned(m, "NULL")] =
                            NewPacket(op, preferredParent[m], S)]
           /\ six2six_state' = [six2six_state EXCEPT ![m] = waiting]
           /\ timer' = [timer EXCEPT ![m] = TRUE]
  <2>1. PICK b \in Buffers : b = FirstOwned(m, "NULL")
    BY <1>2, FirstIsOwned DEF Owned
  <2>2. PICK p \in Contents : p = NewPacket(op, preferredParent[m], S)
    BY TypeFacts, NewPacketGood DEF Contents
  <2>3. queue' = [queue EXCEPT ![m][b] = p]
    BY <1>2, <2>1, <2>2
  <2>4. PacketsOK' /\ \A x \in Motes : x # m => queue'[x] = queue[x]
    BY <2>3, TypeFacts, BufferChange
  <2>5. /\ six2six_state' \in [Motes -> SixStates] /\ six2six_state'[m] = waiting
        /\ timer' \in [Motes -> BOOLEAN] /\ timer'[m] = TRUE
        /\ \A x \in Motes : x # m => /\ six2six_state'[x] = six2six_state[x]
                                     /\ timer'[x] = timer[x]
    BY <1>2, TypeFacts, WaitingStates
  <2>6. TimeoutPending(m)' /\ ResponseUnderWay(m)'
    BY <2>5, WaitingStates DEF TimeoutPending, ResponseUnderWay
  <2>7. WaitsAreGuarded'
    BY <2>4, <2>5, <2>6, GuardsKept
  <2> QED BY <2>4, <2>5, <2>7
<1> QED BY <1>1, <1>2 DEF Request, Arm

LEMMA CandidatesAreFree ==
    ASSUME SixtopInv, NEW m \in Motes, NEW n
    PROVE  CandidateAdd(m) \in SUBSET FreeSlots /\ CandidateRemove(m, n) \in SUBSET FreeSlots
<1>1. \A c \in cells[m] : c.slotOffset \in FreeSlots
  BY TypeFacts DEF Cell
<1> QED BY <1>1 DEF CandidateAdd, CandidateRemove

LEMMA AskStep ==
    ASSUME SixtopInv, NEW m \in Motes, AddCells(m) \/ RemoveCell(m),
           UNCHANGED <<timeoutTasks, hung>>
    PROVE  /\ PacketsOK' /\ WaitsAreGuarded'
           /\ six2six_state' \in [Motes -> SixStates]
           /\ timer' \in [Motes -> BOOLEAN]
<1>1. CASE AddCells(m)
  <2>1. CandidateAdd(m) \in SUBSET FreeSlots /\ "WAIT_ADDREQUEST_SENDDONE" \in Waiting
    BY CandidatesAreFree DEF Waiting
  <2> QED BY <1>1, <2>1, RequestStep DEF AddCells
<1>2. CASE RemoveCell(m)
  <2>1. /\ CandidateRemove(m, preferredParent[m]) \in SUBSET FreeSlots
        /\ "WAIT_REMOVEREQUEST_SENDDONE" \in Waiting
    BY CandidatesAreFree DEF Waiting
  <2> QED BY <1>2, <2>1, RequestStep DEF RemoveCell
<1> QED BY <1>1, <1>2

LEMMA C6tRequestInv ==
    ASSUME SixtopInv, NEW m \in Motes, C6tRequest(m)
    PROVE  SixtopInv'
<1>1. UNCHANGED <<preferredParent, timeoutTasks, otfTasks, cells, hung, framesLost, acksLost,
                  timeouts, switches>> /\ calls' = calls + 1
  BY DEF C6tRequest
<1>2. /\ PacketsOK' /\ WaitsAreGuarded'
      /\ six2six_state' \in [Motes -> SixStates] /\ timer' \in [Motes -> BOOLEAN]
  BY <1>1, AskStep DEF C6tRequest
<1>3. SixtopTypeOK'
  BY <1>1, <1>2, TypeFacts, TypeKept DEF SixtopInv, SixtopTypeOK
<1> QED BY <1>2, <1>3 DEF SixtopInv

LEMMA OtfTaskInv ==
    ASSUME SixtopInv, NEW m \in Motes, OtfTask(m)
    PROVE  SixtopInv'
<1>1. UNCHANGED <<preferredParent, timeoutTasks, cells, hung, calls, framesLost, acksLost,
                  timeouts, switches>>
  BY DEF OtfTask, bounds
<1>2. /\ PacketsOK' /\ WaitsAreGuarded'
      /\ six2six_state' \in [Motes -> SixStates] /\ timer' \in [Motes -> BOOLEAN]
  BY <1>1, AskStep DEF OtfTask
<1>3. otfTasks' \in [Motes -> Seq({"add", "remove"})]
  <2>1. otfTasks[m] \in Seq({"add", "remove"}) /\ otfTasks[m] # << >>
    BY TypeFacts DEF OtfTask
  <2>2. Tail(otfTasks[m]) \in Seq({"add", "remove"})
    BY <2>1
  <2> QED BY <2>2, TypeFacts DEF OtfTask
<1>4. SixtopTypeOK'
  BY <1>1, <1>2, <1>3, TypeFacts, TypeKept DEF SixtopInv, SixtopTypeOK
<1> QED BY <1>2, <1>4 DEF SixtopInv

(* A step that takes no buffer from a response keeps it under way.            *)
KeepsResponses ==
    \A x \in Motes : \A d \in Buffers : IsResponse(queue[x][d]) => IsResponse(queue'[x][d])

LEMMA GuardsKeptLocally ==
    ASSUME SixtopInv, NEW m \in Motes, KeepsResponses,
           \A x \in Motes : x # m => /\ six2six_state'[x] = six2six_state[x]
                                     /\ timer'[x] = timer[x]
                                     /\ timeoutTasks'[x] = timeoutTasks[x]
                                     /\ hung'[x] = hung[x],
           ~hung'[m] => TimeoutPending(m)' /\ ResponseUnderWay(m)'
    PROVE  WaitsAreGuarded'
BY GuardsKept DEF KeepsResponses

LEMMA UnguardedByMote ==
    ASSUME SixtopInv, NEW m \in Motes, ~hung[m]
    PROVE  TimeoutPending(m) /\ ResponseUnderWay(m)
BY WaitsByMote DEF SixtopInv

(* The buffer of a command is freed once the command is handled.              *)
LEMMA FreeReceived ==
    ASSUME SixtopInv, NEW m \in Motes, NEW b \in Owned(m, "RECEIVED"), queue' = Free(m, b)
    PROVE  PacketsOK' /\ KeepsResponses
<1>1. b \in Buffers /\ queue[m][b].owner = "RECEIVED" /\ FreeBuffer \in Contents
  BY DEF Owned, Contents
<1>2. /\ PacketsOK'
      /\ \A d \in Buffers : d # b => queue'[m][d] = queue[m][d]
      /\ \A x \in Motes : x # m => queue'[x] = queue[x]
  BY <1>1, TypeFacts, BufferChange, ZenonT(30) DEF Free
<1>3. KeepsResponses
  <2> SUFFICES ASSUME NEW x \in Motes, NEW d \in Buffers, IsResponse(queue[x][d])
               PROVE  IsResponse(queue'[x][d])
    BY DEF KeepsResponses
  <2>1. x # m \/ d # b
    BY <1>1 DEF IsResponse
  <2>2. queue'[x][d] = queue[x][d]
    BY <1>2, <2>1
  <2> QED BY <2>2
<1> QED BY <1>2, <1>3

LEMMA ReceivedFacts ==
    ASSUME SixtopInv, NEW m \in Motes, NEW b \in Owned(m, "RECEIVED")
    PROVE  /\ b \in Buffers
           /\ queue[m][b] \in GoodPackets
           /\ queue[m][b].neighbor \in Motes
           /\ queue[m][b].cells \in SUBSET FreeSlots
<1>1. b \in Buffers /\ queue[m][b] \in GoodPackets /\ queue[m][b].owner = "RECEIVED"
  BY TypeFacts, BufferFacts DEF Owned
<1> QED BY <1>1 DEF GoodPackets, Packet

LEMMA BookTyped ==
    ASSUME SixtopInv, NEW m \in Motes, NEW S \in SUBSET FreeSlots, NEW type \in {"TX", "RX"},
           NEW n \in Motes, Book(m, S, type, n)
    PROVE  /\ cells' \in [Motes -> SUBSET Cell]
           /\ hung' \in [Motes -> BOOLEAN]
           /\ \A x \in Motes : x # m => hung'[x] = hung[x]
           /\ hung[m] => hung'[m]
<1>1. PICK B : B = {[slotOffset |-> s, type |-> type, neighbor |-> n] : s \in S}
  OBVIOUS
<1>2. B \in SUBSET Cell
  BY <1>1 DEF Cell
<1>3. CASE cells' = [cells EXCEPT ![m] = @ \cup B] /\ UNCHANGED hung
  BY <1>2, <1>3, TypeFacts
<1>4. CASE hung' = [hung EXCEPT ![m] = TRUE] /\ UNCHANGED cells
  BY <1>4, TypeFacts
<1> QED BY <1>1, <1>3, <1>4 DEF Book

LEMMA ReleaseTyped ==
    ASSUME SixtopInv, NEW m \in Motes, NEW S, NEW n, Release(m, S, n)
    PROVE  cells' \in [Motes -> SUBSET Cell]
BY TypeFacts DEF Release

LEMMA PushTyped ==
    ASSUME SixtopInv, NEW m \in Motes, NEW t \in {"add", "remove"},
           otfTasks' = [otfTasks EXCEPT ![m] = <<t>> \o @]
    PROVE  otfTasks' \in [Motes -> Seq({"add", "remove"})]
<1>1. <<t>> \in Seq({"add", "remove"}) /\ otfTasks[m] \in Seq({"add", "remove"})
  BY TypeFacts
<1>2. <<t>> \o otfTasks[m] \in Seq({"add", "remove"})
  BY <1>1
<1> QED BY <1>2, TypeFacts

(* The responder waits only while its response is in the queue.               *)
LEMMA ReceiveAddRequestStep ==
    ASSUME SixtopInv, NEW m \in Motes, NEW b \in Owned(m, "RECEIVED"), ~hung[m],
           ReceiveAddRequest(m, b), UNCHANGED timeoutTasks
    PROVE  /\ PacketsOK' /\ WaitsAreGuarded'
           /\ six2six_state' \in [Motes -> SixStates]
<1>1. UNCHANGED <<timer, timeoutTasks, hung>>
  BY DEF ReceiveAddRequest
<1>2. CASE /\ Owned(m, "NULL") # {}
           /\ queue' = [Free(m, b) EXCEPT ![m][FirstOwned(m, "NULL")] =
                  NewPacket("RESPONSE", queue[m][b].neighbor, Granted(m, queue[m][b].cells))]
           /\ six2six_state' = [six2six_state EXCEPT ![m] = "WAIT_ADDRESPONSE_SENDDONE"]
  <2>1. PICK d \in Buffers : d = FirstOwned(m, "NULL") /\ d \in Owned(m, "NULL")
    BY <1>2, FirstIsOwned DEF Owned
  <2>2. /\ b \in Buffers /\ queue[m][b].owner = "RECEIVED" /\ queue[m][d].owner = "NULL"
        /\ b # d
    BY <2>1 DEF Owned
  <2>3. PICK p \in Contents : /\ p = NewPacket("RESPONSE", queue[m][b].neighbor,
                                               Granted(m, queue[m][b].cells))
                              /\ IsResponse(p)
    <3>1. /\ queue[m][b].neighbor \in Motes \cup {NoMote}
          /\ Granted(m, queue[m][b].cells) \in SUBSET FreeSlots
      BY ReceivedFacts DEF Granted
    <3> QED BY <3>1, NewPacketGood DEF Contents, IsResponse
  <2>4. queue' = [queue EXCEPT ![m][b] = FreeBuffer, ![m][d] = p]
    BY <1>2, <2>1, <2>3 DEF Free
  <2>5. /\ PacketsOK' /\ queue'[m][d] = p
        /\ \A x \in Motes, y \in Buffers :
             (x # m \/ y # b) /\ (x # m \/ y # d) => queue'[x][y] = queue[x][y]
    <3>1. FreeBuffer \in Contents
      BY DEF Contents
    <3>2. PacketsOK /\ (m # m \/ b # d)
      BY <2>2, TypeFacts
    <3>3. queue' = Put(Put(queue, m, b, FreeBuffer), m, d, p)
      BY <2>4, Zenon DEF Put
    <3>4. /\ PacketsOK'
          /\ queue'[m][b] = FreeBuffer /\ queue'[m][d] = p
          /\ \A x \in Motes, y \in Buffers :
               (x # m \/ y # b) /\ (x # m \/ y # d) => queue'[x][y] = queue[x][y]
      BY <2>2, <3>1, <3>2, <3>3, TwoBuffersChange
    <3> QED BY <3>4
  <2>6. KeepsResponses
    <3> SUFFICES ASSUME NEW x \in Motes, NEW y \in Buffers, IsResponse(queue[x][y])
                 PROVE  IsResponse(queue'[x][y])
      BY DEF KeepsResponses
    <3>1. (x # m \/ y # b) /\ (x # m \/ y # d)
      BY <2>2 DEF IsResponse
    <3>2. queue'[x][y] = queue[x][y]
      BY <2>5, <3>1
    <3> QED BY <3>2
  <2>7. /\ six2six_state' \in [Motes -> SixStates]
        /\ six2six_state'[m] = "WAIT_ADDRESPONSE_SENDDONE"
        /\ \A x \in Motes : x # m => six2six_state'[x] = six2six_state[x]
    BY <1>2, TypeFacts DEF SixStates
  <2>8. TimeoutPending(m)' /\ ResponseUnderWay(m)'
    BY <2>3, <2>5, <2>7, WaitingStates DEF TimeoutPending, ResponseUnderWay
  <2>9. WaitsAreGuarded'
    BY <1>1, <2>6, <2>7, <2>8, GuardsKeptLocally
  <2> QED BY <2>5, <2>7, <2>9
<1>3. CASE /\ queue' = Free(m, b)
           /\ six2six_state' = [six2six_state EXCEPT ![m] = "ADDREQUEST_RECEIVED"]
  <2>1. PacketsOK' /\ KeepsResponses
    BY <1>3, FreeReceived
  <2>2. /\ six2six_state' \in [Motes -> SixStates]
        /\ six2six_state'[m] = "ADDREQUEST_RECEIVED"
        /\ \A x \in Motes : x # m => six2six_state'[x] = six2six_state[x]
    BY <1>3, TypeFacts DEF SixStates
  <2>3. TimeoutPending(m)' /\ ResponseUnderWay(m)'
    BY <2>2 DEF TimeoutPending, ResponseUnderWay, Waiting
  <2>4. WaitsAreGuarded'
    BY <1>1, <2>1, <2>2, <2>3, GuardsKeptLocally
  <2> QED BY <2>1, <2>2, <2>4
<1> QED BY <1>2, <1>3 DEF ReceiveAddRequest

(* The timer is stopped only in the step that leaves the waiting states.      *)
LEMMA ReceiveAddResponseStep ==
    ASSUME SixtopInv, NEW m \in Motes, NEW b \in Owned(m, "RECEIVED"), ~hung[m],
           ReceiveAddResponse(m, b), UNCHANGED timeoutTasks
    PROVE  /\ PacketsOK' /\ WaitsAreGuarded'
           /\ six2six_state' \in [Motes -> SixStates]
           /\ timer' \in [Motes -> BOOLEAN]
           /\ cells' \in [Motes -> SUBSET Cell]
           /\ hung' \in [Motes -> BOOLEAN]
<1>1. PacketsOK' /\ KeepsResponses /\ six2six_state[m] = "WAIT_ADDRESPONSE"
  BY FreeReceived DEF ReceiveAddResponse
<1>2. CASE /\ six2six_state' = [six2six_state EXCEPT ![m] = "ADDRESPONSE_RECEIVED"]
           /\ UNCHANGED <<timer, cells, hung>>
  <2>1. TimeoutPending(m)
    BY UnguardedByMote
  <2>2. /\ six2six_state' \in [Motes -> SixStates]
        /\ six2six_state'[m] = "ADDRESPONSE_RECEIVED"
        /\ \A x \in Motes : x # m => six2six_state'[x] = six2six_state[x]
    BY <1>2, TypeFacts DEF SixStates
  <2>3. TimeoutPending(m)' /\ ResponseUnderWay(m)'
    BY <1>1, <1>2, <2>1, <2>2, Zenon DEF TimeoutPending, ResponseUnderWay, Waiting
  <2>4. WaitsAreGuarded'
    BY <1>1, <1>2, <2>2, <2>3, GuardsKeptLocally
  <2> QED BY <1>1, <1>2, <2>2, <2>4, TypeFacts
<1>3. CASE /\ \/ Book(m, queue[m][b].cells, "TX", queue[m][b].neighbor)
              \/ UNCHANGED <<cells, hung>>
           /\ six2six_state' = [six2six_state EXCEPT ![m] = "IDLE"]
           /\ timer' = [timer EXCEPT ![m] = FALSE]
  <2>1. /\ cells' \in [Motes -> SUBSET Cell] /\ hung' \in [Motes -> BOOLEAN]
        /\ \A x \in Motes : x # m => hung'[x] = hung[x]
    BY <1>3, TypeFacts, BookTyped, ReceivedFacts
  <2>2. /\ six2six_state' \in [Motes -> SixStates] /\ six2six_state'[m] = "IDLE"
        /\ timer' \in [Motes -> BOOLEAN]
        /\ \A x \in Motes : x # m => /\ six2six_state'[x] = six2six_state[x]
                                     /\ timer'[x] = timer[x]
    BY <1>3, TypeFacts DEF SixStates
  <2>3. TimeoutPending(m)' /\ ResponseUnderWay(m)'
    BY <2>2 DEF TimeoutPending, ResponseUnderWay, Waiting
  <2>4. WaitsAreGuarded'
    BY <1>1, <2>1, <2>2, <2>3, GuardsKeptLocally
  <2> QED BY <1>1, <2>1, <2>2, <2>4
<1> QED BY <1>2, <1>3 DEF ReceiveAddResponse

(* A command that changes no negotiation leaves every guard in place.         *)
LEMMA QuietReceive ==
    ASSUME SixtopInv, NEW m \in Motes, NEW b \in Owned(m, "RECEIVED"), queue' = Free(m, b),
           UNCHANGED <<six2six_state, timer, timeoutTasks, hung>>, ~hung[m]
    PROVE  PacketsOK' /\ WaitsAreGuarded'
<1>1. PacketsOK' /\ KeepsResponses
  BY FreeReceived
<1>2. TimeoutPending(m) /\ ResponseUnderWay(m)
  BY UnguardedByMote
<1>3. TimeoutPending(m)' /\ ResponseUnderWay(m)'
  BY <1>1, <1>2, Zenon DEF TimeoutPending, ResponseUnderWay, KeepsResponses
<1>4. WaitsAreGuarded'
  BY <1>1, <1>3, GuardsKeptLocally
<1> QED BY <1>1, <1>4

LEMMA NotifReceiveInv ==
    ASSUME SixtopInv, NEW m \in Motes, NotifReceive(m)
    PROVE  SixtopInv'
<1>1. ~hung[m] /\ UNCHANGED <<timeoutTasks, preferredParent, calls, framesLost, acksLost,
                              timeouts, switches>>
  BY DEF NotifReceive, bounds
<1>2. PICK b \in Owned(m, "RECEIVED") : b = FirstOwned(m, "RECEIVED")
  BY FirstIsOwned DEF NotifReceive
<1>3. CASE ReceiveAddRequest(m, b)
  <2>1. PacketsOK' /\ WaitsAreGuarded' /\ six2six_state' \in [Motes -> SixStates]
    BY <1>1, <1>3, ReceiveAddRequestStep
  <2>2. UNCHANGED <<timer, otfTasks, cells, hung>>
    BY <1>3 DEF ReceiveAddRequest
  <2>3. SixtopTypeOK'
    BY <1>1, <2>1, <2>2, TypeFacts, TypeKept DEF SixtopInv, SixtopTypeOK
  <2> QED BY <2>1, <2>3 DEF SixtopInv
<1>4. CASE ReceiveAddResponse(m, b)
  <2>1. /\ PacketsOK' /\ WaitsAreGuarded' /\ six2six_state' \in [Motes -> SixStates]
        /\ timer' \in [Motes -> BOOLEAN] /\ cells' \in [Motes -> SUBSET Cell]
        /\ hung' \in [Motes -> BOOLEAN]
    BY <1>1, <1>4, ReceiveAddResponseStep
  <2>2. UNCHANGED otfTasks
    BY <1>4 DEF ReceiveAddResponse
  <2>3. SixtopTypeOK'
    BY <1>1, <2>1, <2>2, TypeFacts, TypeKept DEF SixtopInv, SixtopTypeOK
  <2> QED BY <2>1, <2>3 DEF SixtopInv
<1>5. CASE ReceiveRemoveRequest(m, b)
  <2>1. PacketsOK' /\ WaitsAreGuarded'
    BY <1>1, <1>5, QuietReceive DEF ReceiveRemoveRequest
  <2>2. UNCHANGED <<six2six_state, timer, hung>> /\ cells' \in [Motes -> SUBSET Cell]
    BY <1>5, ReleaseTyped DEF ReceiveRemoveRequest
  <2>3. otfTasks' \in [Motes -> Seq({"add", "remove"})]
    BY <1>5, PushTyped DEF ReceiveRemoveRequest
  <2>4. SixtopTypeOK'
    BY <1>1, <2>1, <2>2, <2>3, TypeFacts, TypeKept DEF SixtopInv, SixtopTypeOK
  <2> QED BY <2>1, <2>4 DEF SixtopInv
<1>6. CASE IgnoreCommand(m, b)
  <2>1. PacketsOK' /\ WaitsAreGuarded'
    BY <1>1, <1>6, QuietReceive DEF IgnoreCommand
  <2>2. UNCHANGED <<six2six_state, timer, otfTasks, cells, hung>>
    BY <1>6 DEF IgnoreCommand
  <2>3. SixtopTypeOK'
    BY <1>1, <2>1, <2>2, TypeFacts, TypeKept DEF SixtopInv, SixtopTypeOK
  <2> QED BY <2>1, <2>3 DEF SixtopInv
<1> QED BY <1>2, <1>3, <1>4, <1>5, <1>6 DEF NotifReceive

(* A completed transmission ends the wait it is the end of; the wait for the  *)
(* response that follows a request keeps the request's timeout.               *)
LEMMA NotifSendDoneInv ==
    ASSUME SixtopInv, NEW m \in Motes, NotifSendDone(m)
    PROVE  SixtopInv'
<1>1. ~hung[m] /\ UNCHANGED <<timer, timeoutTasks, preferredParent, calls, framesLost,
                              acksLost, timeouts, switches>>
  BY DEF NotifSendDone, bounds
<1>2. PICK b \in Owned(m, "SENT") : b = FirstOwned(m, "SENT")
  BY FirstIsOwned DEF NotifSendDone
<1>3. b \in Buffers /\ queue[m][b] \in GoodPackets /\ queue[m][b].owner = "SENT"
  BY TypeFacts, BufferFacts DEF Owned
<1>4. PacketsOK' /\ \A x \in Motes : x # m => queue'[x] = queue[x]
  <2>1. FreeBuffer \in Contents
    BY DEF Contents
  <2> QED BY <1>2, <1>3, <2>1, TypeFacts, BufferChange DEF NotifSendDone, Free
<1>5. TimeoutPending(m) /\ ResponseUnderWay(m)
  BY <1>1, UnguardedByMote
<1>6. CASE ~queue[m][b].success
  <2>1. six2six_state' = [six2six_state EXCEPT ![m] = "IDLE"] /\ UNCHANGED <<otfTasks, cells, hung>>
    BY <1>2, <1>6, Zenon DEF NotifSendDone
  <2>2. /\ six2six_state' \in [Motes -> SixStates] /\ six2six_state'[m] = "IDLE"
        /\ \A x \in Motes : x # m => six2six_state'[x] = six2six_state[x]
    BY <2>1, TypeFacts DEF SixStates
  <2>3. TimeoutPending(m)' /\ ResponseUnderWay(m)'
    BY <2>2 DEF TimeoutPending, ResponseUnderWay, Waiting
  <2>4. WaitsAreGuarded'
    BY <1>1, <1>4, <2>1, <2>2, <2>3, GuardsKept
  <2>5. SixtopTypeOK'
    BY <1>1, <1>4, <2>1, <2>2, TypeFacts, TypeKept DEF SixtopInv, SixtopTypeOK
  <2> QED BY <1>4, <2>4, <2>5 DEF SixtopInv
<1>7. CASE queue[m][b].success /\ SendDoneSuccess(m, queue[m][b])
  <2>1. queue[m][b].neighbor \in Motes /\ queue[m][b].cells \in SUBSET FreeSlots
    BY <1>3, <1>7 DEF GoodPackets, Packet
  <2>2. CASE /\ six2six_state[m] = "WAIT_ADDREQUEST_SENDDONE"
             /\ six2six_state' = [six2six_state EXCEPT ![m] = "WAIT_ADDRESPONSE"]
             /\ UNCHANGED <<otfTasks, cells, hung>>
    <3>1. /\ six2six_state' \in [Motes -> SixStates] /\ six2six_state'[m] = "WAIT_ADDRESPONSE"
          /\ \A x \in Motes : x # m => six2six_state'[x] = six2six_state[x]
      BY <2>2, TypeFacts DEF SixStates
    <3>2. TimeoutPending(m)' /\ ResponseUnderWay(m)'
      BY <1>1, <1>5, <2>2, <3>1, Zenon DEF TimeoutPending, ResponseUnderWay, Waiting
    <3>3. WaitsAreGuarded'
      BY <1>1, <1>4, <2>2, <3>1, <3>2, GuardsKept
    <3>4. SixtopTypeOK'
      BY <1>1, <1>4, <2>2, <3>1, TypeFacts, TypeKept DEF SixtopInv, SixtopTypeOK
    <3> QED BY <1>4, <3>3, <3>4 DEF SixtopInv
  <2>3. CASE /\ Book(m, queue[m][b].cells, "RX", queue[m][b].neighbor)
             /\ six2six_state' = [six2six_state EXCEPT ![m] = "IDLE"]
             /\ otfTasks' = [otfTasks EXCEPT ![m] = <<"add">> \o @]
    <3>1. /\ six2six_state' \in [Motes -> SixStates] /\ six2six_state'[m] = "IDLE"
          /\ \A x \in Motes : x # m => six2six_state'[x] = six2six_state[x]
      BY <2>3, TypeFacts DEF SixStates
    <3>2. TimeoutPending(m)' /\ ResponseUnderWay(m)'
      BY <3>1 DEF TimeoutPending, ResponseUnderWay, Waiting
    <3>3. /\ cells' \in [Motes -> SUBSET Cell] /\ hung' \in [Motes -> BOOLEAN]
          /\ \A x \in Motes : x # m => hung'[x] = hung[x]
      BY <2>1, <2>3, BookTyped
    <3>4. otfTasks' \in [Motes -> Seq({"add", "remove"})]
      BY <2>3, PushTyped
    <3>5. WaitsAreGuarded'
      BY <1>1, <1>4, <3>1, <3>2, <3>3, GuardsKept
    <3>6. SixtopTypeOK'
      BY <1>1, <1>4, <3>1, <3>3, <3>4, TypeFacts, TypeKept DEF SixtopInv, SixtopTypeOK
    <3> QED BY <1>4, <3>5, <3>6 DEF SixtopInv
  <2>4. CASE /\ Release(m, queue[m][b].cells, queue[m][b].neighbor)
             /\ six2six_state' = [six2six_state EXCEPT ![m] = "IDLE"]
             /\ UNCHANGED <<otfTasks, hung>>
    <3>1. /\ six2six_state' \in [Motes -> SixStates] /\ six2six_state'[m] = "IDLE"
          /\ \A x \in Motes : x # m => six2six_state'[x] = six2six_state[x]
      BY <2>4, TypeFacts DEF SixStates
    <3>2. TimeoutPending(m)' /\ ResponseUnderWay(m)'
      BY <3>1 DEF TimeoutPending, ResponseUnderWay, Waiting
    <3>3. cells' \in [Motes -> SUBSET Cell]
      BY <2>4, ReleaseTyped
    <3>4. WaitsAreGuarded'
      BY <1>1, <1>4, <2>4, <3>1, <3>2, GuardsKept
    <3>5. SixtopTypeOK'
      BY <1>1, <1>4, <2>4, <3>1, <3>3, TypeFacts, TypeKept DEF SixtopInv, SixtopTypeOK
    <3> QED BY <1>4, <3>4, <3>5 DEF SixtopInv
  <2>5. CASE /\ six2six_state[m] # "WAIT_ADDRESPONSE_SENDDONE"
             /\ UNCHANGED <<six2six_state, otfTasks, cells, hung>>
    <3>1. TimeoutPending(m)' /\ ResponseUnderWay(m)'
      BY <1>1, <1>5, <2>5, Zenon DEF TimeoutPending, ResponseUnderWay
    <3>2. WaitsAreGuarded'
      BY <1>1, <1>4, <2>5, <3>1, GuardsKept
    <3>3. SixtopTypeOK'
      BY <1>1, <1>4, <2>5, TypeFacts, TypeKept DEF SixtopInv, SixtopTypeOK
    <3> QED BY <1>4, <3>2, <3>3 DEF SixtopInv
  <2> QED BY <1>7, <2>2, <2>3, <2>4, <2>5 DEF SendDoneSuccess
<1> QED BY <1>2, <1>6, <1>7 DEF NotifSendDone

(* The interrupt hands its guard over to the task it pushes, and the task     *)
(* ends the wait.                                                             *)
LEMMA TimerInv ==
    ASSUME SixtopInv, NEW m \in Motes, TimerFires(m) \/ TimeoutTask(m)
    PROVE  SixtopInv'
<1>1. /\ UNCHANGED <<preferredParent, otfTasks, queue, cells, hung, calls, framesLost,
                     acksLost, switches>>
      /\ ~hung[m]
  BY DEF TimerFires, TimeoutTask, bounds
<1>2. PacketsOK' /\ KeepsResponses
  BY <1>1, TypeFacts, Zenon DEF PacketsOK, KeepsResponses
<1>3. TimeoutPending(m) /\ ResponseUnderWay(m)
  BY <1>1, UnguardedByMote
<1>4. CASE TimerFires(m)
  <2>1. /\ timer' \in [Motes -> BOOLEAN] /\ timeoutTasks' \in [Motes -> Nat]
        /\ timeoutTasks'[m] > 0
        /\ \A x \in Motes : x # m => timer'[x] = timer[x] /\ timeoutTasks'[x] = timeoutTasks[x]
        /\ UNCHANGED six2six_state /\ timeouts' = timeouts + 1
    BY <1>4, TypeFacts DEF TimerFires
  <2>2. TimeoutPending(m)' /\ ResponseUnderWay(m)'
    BY <1>1, <1>3, <2>1, Zenon DEF TimeoutPending, ResponseUnderWay
  <2>3. WaitsAreGuarded'
    BY <1>1, <1>2, <2>1, <2>2, GuardsKeptLocally
  <2>4. SixtopTypeOK'
    BY <1>1, <1>2, <2>1, TypeFacts, TypeKept DEF SixtopInv, SixtopTypeOK
  <2> QED BY <1>2, <2>3, <2>4 DEF SixtopInv
<1>5. CASE TimeoutTask(m)
  <2>1. /\ timeoutTasks' \in [Motes -> Nat]
        /\ six2six_state' \in [Motes -> SixStates] /\ six2six_state'[m] = "IDLE"
        /\ \A x \in Motes : x # m => /\ six2six_state'[x] = six2six_state[x]
                                     /\ timeoutTasks'[x] = timeoutTasks[x]
        /\ UNCHANGED <<timer, timeouts>>
    BY <1>5, TypeFacts DEF TimeoutTask, SixStates, bounds
  <2>2. TimeoutPending(m)' /\ ResponseUnderWay(m)'
    BY <2>1 DEF TimeoutPending, ResponseUnderWay, Waiting
  <2>3. WaitsAreGuarded'
    BY <1>1, <1>2, <2>1, <2>2, GuardsKeptLocally
  <2>4. SixtopTypeOK'
    BY <1>1, <1>2, <2>1, TypeFacts, TypeKept DEF SixtopInv, SixtopTypeOK
  <2> QED BY <1>2, <2>3, <2>4 DEF SixtopInv
<1> QED BY <1>4, <1>5

(* The attempts of the MAC: a response stays a response, and the last attempt *)
(* leaves it to be notified.                                                  *)
LEMMA AttemptFacts ==
    ASSUME NEW pkt \in GoodPackets, pkt.owner = "TO_MAC"
    PROVE  /\ Unacknowledged(pkt) \in GoodPackets
           /\ IsResponse(pkt) => IsResponse(Unacknowledged(pkt))
           /\ pkt.neighbor \in Motes => Acknowledged(pkt) \in GoodPackets
           /\ IsResponse(pkt) => IsResponse(Acknowledged(pkt))
           /\ \A m \in Motes : Received(m, pkt) \in GoodPackets
<1>1. /\ pkt \in Packet /\ pkt.retriesLeft \in 0 .. TxRetries /\ pkt.retriesLeft > 0
      /\ TxRetries \in Nat
  BY ConstantFacts DEF GoodPackets, Packet
<1>2. pkt.retriesLeft - 1 \in 0 .. TxRetries
  BY <1>1
<1>3. \A o \in {"TO_MAC", "SENT", "RECEIVED"}, n \in Motes \cup {NoMote} :
        [opcode |-> pkt.opcode, neighbor |-> n, cells |-> pkt.cells,
         retriesLeft |-> 0, owner |-> o, success |-> FALSE] \in Packet
  BY <1>1 DEF Packet
<1>4. Unacknowledged(pkt) \in GoodPackets
  <2>1. CASE pkt.retriesLeft = 1
    <3>1. PICK r : r = [pkt EXCEPT !.retriesLeft = 0, !.owner = "SENT", !.success = FALSE]
      OBVIOUS
    <3>2. r \in Packet
      <4>1. r = [opcode |-> pkt.opcode, neighbor |-> pkt.neighbor, cells |-> pkt.cells,
                 retriesLeft |-> 0, owner |-> "SENT", success |-> FALSE]
        BY <1>1, <3>1 DEF Packet
      <4>2. pkt.neighbor \in Motes \cup {NoMote}
        BY <1>1 DEF Packet
      <4> QED BY <4>1, <4>2, <1>3
    <3>3. r.owner = "SENT" /\ r.success = FALSE
      BY <1>1, <3>1 DEF Packet
    <3>4. r \in GoodPackets
      BY <3>2, <3>3 DEF GoodPackets
    <3> QED BY <2>1, <3>1, <3>4 DEF Unacknowledged
  <2>2. CASE pkt.retriesLeft # 1
    BY <1>1, <1>2, <2>2 DEF Unacknowledged, GoodPackets, Packet
  <2> QED BY <2>1, <2>2
<1>5. pkt.neighbor \in Motes => Acknowledged(pkt) \in GoodPackets
  BY <1>1 DEF Acknowledged, GoodPackets, Packet
<1>6. \A m \in Motes : Received(m, pkt) \in GoodPackets
  <2> SUFFICES ASSUME NEW m \in Motes
               PROVE  Received(m, pkt) \in GoodPackets
    OBVIOUS
  <2>1. PICK r : r = Received(m, pkt)
    OBVIOUS
  <2>2. r \in Packet
    <3>1. r = [opcode |-> pkt.opcode, neighbor |-> m, cells |-> pkt.cells,
               retriesLeft |-> 0, owner |-> "RECEIVED", success |-> FALSE]
      BY <1>1, <2>1 DEF Packet, Received
    <3> QED BY <1>1, <3>1, <1>3
  <2>3. r.owner = "RECEIVED" /\ r.neighbor = m
    BY <1>1, <2>1 DEF Packet, Received
  <2>4. r \in GoodPackets
    BY <2>2, <2>3 DEF GoodPackets
  <2> QED BY <2>1, <2>4
<1>7. IsResponse(pkt) => IsResponse(Unacknowledged(pkt)) /\ IsResponse(Acknowledged(pkt))
  BY <1>1 DEF IsResponse, Unacknowledged, Acknowledged, Packet
<1> QED BY <1>4, <1>5, <1>6, <1>7

LEMMA FrameLostInv ==
    ASSUME SixtopInv, NEW m \in Motes, NEW b \in Buffers, FrameLost(m, b)
    PROVE  SixtopInv'
<1>1. /\ UNCHANGED <<six2six_state, timer, timeoutTasks, otfTasks, cells, hung,
                     preferredParent, calls, acksLost, timeouts, switches>>
      /\ ~hung[m] /\ b \in Owned(m, "TO_MAC")
      /\ framesLost' \in {framesLost, framesLost + 1}
  BY DEF FrameLost, MacMaySend
<1>2. queue[m][b] \in GoodPackets /\ queue[m][b].owner = "TO_MAC"
  BY <1>1, TypeFacts, BufferFacts
<1>3. PICK p \in Contents : /\ p = Unacknowledged(queue[m][b])
                            /\ IsResponse(queue[m][b]) => IsResponse(p)
  BY <1>2, AttemptFacts DEF Contents
<1>4. queue' = [queue EXCEPT ![m][b] = p]
  BY <1>3, Zenon DEF FrameLost
<1>5. /\ PacketsOK' /\ queue'[m][b] = p
      /\ \A d \in Buffers : d # b => queue'[m][d] = queue[m][d]
      /\ \A x \in Motes : x # m => queue'[x] = queue[x]
  <2>1. PacketsOK
    BY TypeFacts
  <2> QED BY ONLY <1>4, <2>1, m \in Motes, b \in Buffers, p \in Contents, BufferChange
<1>6. KeepsResponses
  <2> SUFFICES ASSUME NEW x \in Motes, NEW d \in Buffers, IsResponse(queue[x][d])
               PROVE  IsResponse(queue'[x][d])
    BY DEF KeepsResponses
  <2>1. CASE x = m /\ d = b
    BY <1>3, <1>5, <2>1, Zenon
  <2>2. CASE ~(x = m /\ d = b)
    <3>1. queue'[x][d] = queue[x][d]
      BY <1>5, <2>2
    <3> QED BY <3>1
  <2> QED BY <2>1, <2>2
<1>7. TimeoutPending(m) /\ ResponseUnderWay(m)
  BY <1>1, UnguardedByMote
<1>8. TimeoutPending(m)' /\ ResponseUnderWay(m)'
  BY <1>1, <1>6, <1>7, Zenon DEF TimeoutPending, ResponseUnderWay, KeepsResponses
<1>9. WaitsAreGuarded'
  BY <1>1, <1>6, <1>8, GuardsKeptLocally
<1>10. SixtopTypeOK'
  BY <1>1, <1>5, TypeFacts, TypeKept DEF SixtopInv, SixtopTypeOK
<1> QED BY <1>5, <1>9, <1>10 DEF SixtopInv

(* The frame also takes a free buffer of the mote that receives it, which may *)
(* be any mote.                                                               *)
LEMMA FrameDeliveredInv ==
    ASSUME SixtopInv, NEW m \in Motes, NEW b \in Buffers, FrameDelivered(m, b)
    PROVE  SixtopInv'
<1> DEFINE pkt == queue[m][b]
           n == pkt.neighbor
<1>1. /\ UNCHANGED <<six2six_state, timer, timeoutTasks, otfTasks, cells, hung,
                     preferredParent, calls, framesLost, timeouts, switches>>
      /\ ~hung[m] /\ b \in Owned(m, "TO_MAC")
      /\ n \in Motes /\ Owned(n, "NULL") # {}
      /\ acksLost' \in {acksLost, acksLost + 1}
  BY DEF FrameDelivered, MacMaySend, MayReceive
<1>2. pkt \in GoodPackets /\ pkt.owner = "TO_MAC"
  BY <1>1, TypeFacts, BufferFacts
<1>3. PICK d \in Buffers : d = FirstOwned(n, "NULL") /\ queue[n][d].owner = "NULL"
  BY <1>1, FirstIsOwned DEF Owned
<1>4. m # n \/ b # d
  BY <1>2, <1>3
<1>5. PICK q \in Contents : q = Received(m, pkt)
  BY <1>2, AttemptFacts DEF Contents
<1>6. PICK p \in Contents : /\ queue' = Put(Put(queue, m, b, p), n, d, q)
                            /\ IsResponse(pkt) => IsResponse(p)
  <2>1. Acknowledged(pkt) \in Contents /\ Unacknowledged(pkt) \in Contents
    BY <1>1, <1>2, AttemptFacts DEF Contents
  <2>2. /\ IsResponse(pkt) => IsResponse(Acknowledged(pkt))
        /\ IsResponse(pkt) => IsResponse(Unacknowledged(pkt))
    BY <1>2, AttemptFacts
  <2>3. \/ queue' = Put(Put(queue, m, b, Acknowledged(pkt)), n, d, q)
        \/ queue' = Put(Put(queue, m, b, Unacknowledged(pkt)), n, d, q)
    BY <1>3, <1>5, Zenon DEF FrameDelivered, Put
  <2> QED BY <2>1, <2>2, <2>3, Zenon
<1>7. /\ PacketsOK' /\ queue'[m][b] = p
      /\ \A x \in Motes, y \in Buffers :
           (x # m \/ y # b) /\ (x # n \/ y # d) => queue'[x][y] = queue[x][y]
  <2> HIDE DEF n
  <2> QED BY <1>1, <1>4, <1>6, TypeFacts, TwoBuffersChange
<1>8. KeepsResponses
  <2> SUFFICES ASSUME NEW x \in Motes, NEW y \in Buffers, IsResponse(queue[x][y])
               PROVE  IsResponse(queue'[x][y])
    BY DEF KeepsResponses
  <2>1. CASE x = m /\ y = b
    BY <1>6, <1>7, <2>1, Zenon
  <2>2. CASE x # m \/ y # b
    <3>1. x # n \/ y # d
      BY <1>3 DEF IsResponse
    <3>2. queue'[x][y] = queue[x][y]
      BY <1>7, <2>2, <3>1
    <3> QED BY <3>2
  <2> QED BY <2>1, <2>2
<1>9. TimeoutPending(m) /\ ResponseUnderWay(m)
  BY <1>1, UnguardedByMote
<1>10. TimeoutPending(m)' /\ ResponseUnderWay(m)'
  BY <1>1, <1>8, <1>9, Zenon DEF TimeoutPending, ResponseUnderWay, KeepsResponses
<1>11. WaitsAreGuarded'
  BY <1>1, <1>8, <1>10, GuardsKeptLocally
<1>12. SixtopTypeOK'
  BY <1>1, <1>7, TypeFacts, TypeKept DEF SixtopInv, SixtopTypeOK
<1> QED BY <1>7, <1>11, <1>12 DEF SixtopInv

(* A step that touches no mote's negotiation.                                 *)
LEMMA ElsewhereInv ==
    ASSUME SixtopInv, SwitchParent \/ UNCHANGED vars
    PROVE  SixtopInv'
<1>1. /\ UNCHANGED <<six2six_state, timer, timeoutTasks, otfTasks, queue, cells, hung,
                     calls, framesLost, acksLost, timeouts>>
      /\ preferredParent' \in Networks /\ switches' \in Nat
  BY DEF SwitchParent, vars, SixtopInv, SixtopTypeOK
<1>2. PacketsOK' /\ WaitsAreGuarded'
  BY <1>1, Zenon DEF SixtopInv, PacketsOK, WaitsAreGuarded
<1>3. SixtopTypeOK'
  BY <1>1, <1>2, TypeFacts, TypeKept DEF SixtopInv, SixtopTypeOK
<1> QED BY <1>2, <1>3 DEF SixtopInv

LEMMA InitSixtopInv ==
    ASSUME Init
    PROVE  SixtopInv
<1>1. PacketsOK
  BY DEF Init, PacketsOK, Contents
<1>2. SixtopTypeOK
  BY <1>1 DEF Init, SixtopTypeOK, SixStates
<1>3. WaitsAreGuarded
  <2>1. \A m \in Motes : six2six_state[m] = "IDLE"
    BY DEF Init
  <2> QED BY <2>1 DEF WaitsAreGuarded
<1> QED BY <1>1, <1>2, <1>3 DEF SixtopInv

-----------------------------------------------------------------------------
(* 6top keeps its invariant, whatever is lost, late or repeated.              *)
THEOREM SixtopInvariant == Spec => []SixtopInv
<1>1. Init => SixtopInv
  BY InitSixtopInv
<1>2. SixtopInv /\ [Next]_vars => SixtopInv'
  <2> SUFFICES ASSUME SixtopInv, [Next]_vars PROVE SixtopInv'
    OBVIOUS
  <2>1. CASE SwitchParent \/ UNCHANGED vars
    BY <2>1, ElsewhereInv
  <2>2. ASSUME NEW m \in Motes, C6tRequest(m) \/ Task(m) \/ TimerFires(m)
        PROVE  SixtopInv'
    BY <2>2, C6tRequestInv, NotifReceiveInv, NotifSendDoneInv, OtfTaskInv, TimerInv DEF Task
  <2>3. ASSUME NEW m \in Motes, Transmit(m)
        PROVE  SixtopInv'
    BY <2>3, FrameDeliveredInv, FrameLostInv DEF Transmit
  <2> QED BY <2>1, <2>2, <2>3 DEF Next
<1> QED BY <1>1, <1>2, PTL DEF Spec

(* Every mote keeps its type: a count of attempts never passes zero, and a    *)
(* cell is only ever booked with a mote.                                      *)
THEOREM SixtopType == Spec => []SixtopTypeOK
BY SixtopInvariant, PTL DEF SixtopInv

(* No mote waits for something that will not come.                            *)
THEOREM SixtopWaitsAreGuarded == Spec => []WaitsAreGuarded
BY SixtopInvariant, PTL DEF SixtopInv

-----------------------------------------------------------------------------
(* Both ends of a negotiation.  Until a timeout cuts an exchange short, a     *)
(* mote has one packet in the hands of the MAC, and its state says which; so  *)
(* the cells a response grants stay free, and the cell a request releases     *)
(* stays booked, until the packet is notified.                                *)

TxCell(s, r) == [slotOffset |-> s, type |-> "TX", neighbor |-> r]
RxCell(s, m) == [slotOffset |-> s, type |-> "RX", neighbor |-> m]

InMac(p) == p.owner \in {"TO_MAC", "SENT"}

Matches(m, p) ==
    /\ p.opcode = "ADD" => six2six_state[m] = "WAIT_ADDREQUEST_SENDDONE"
    /\ p.opcode = "RESPONSE" => /\ six2six_state[m] = "WAIT_ADDRESPONSE_SENDDONE"
                                /\ \A s \in p.cells : Available(m, s)
    /\ p.opcode = "REMOVE" => /\ six2six_state[m] = "WAIT_REMOVEREQUEST_SENDDONE"
                              /\ \A s \in p.cells : TxCell(s, p.neighbor) \in cells[m]

SenderOK(m) ==
    /\ timeoutTasks[m] = 0 /\ ~hung[m]
    /\ \A b, d \in Buffers : InMac(queue[m][b]) /\ InMac(queue[m][d]) => b = d
    /\ \A b \in Buffers : InMac(queue[m][b]) => Matches(m, queue[m][b])

SendersOK == \A m \in Motes : SenderOK(m)

SlotsOnce == \A m \in Motes : \A c, d \in cells[m] : c.slotOffset = d.slotOffset => c = d

(* Only the list of an add request has more than one cell.                    *)
Single(p) == p.owner # "NULL" /\ p.opcode # "ADD" => \A s, t \in p.cells : s = t
Singles == \A m \in Motes, b \in Buffers : Single(queue[m][b])

(* What claims the cell of m towards r in slot s: the TX cell of m, unless its *)
(* release is acknowledged; a response m has received and not handled; a      *)
(* request to release it that r has received and not handled.                 *)
Retires(p, s) == p.owner = "SENT" /\ p.opcode = "REMOVE" /\ p.success /\ s \in p.cells

CellClaims(m, s, r) ==
    TxCell(s, r) \in cells[m] /\ \A b \in Buffers : ~Retires(queue[m][b], s)

Claims(h, p, m, s, r) ==
    /\ p.owner = "RECEIVED" /\ s \in p.cells
    /\ \/ p.opcode = "RESPONSE" /\ h = m /\ p.neighbor = r
       \/ p.opcode = "REMOVE" /\ h = r /\ p.neighbor = m

(* ... and what answers a claim: the RX cell of r, or its response, once it   *)
(* is acknowledged and only waits for the task that books the cell.           *)
Grants(p, m, s) ==
    p.owner = "SENT" /\ p.opcode = "RESPONSE" /\ p.success /\ p.neighbor = m /\ s \in p.cells

Covered(m, s, r) ==
    RxCell(s, m) \in cells[r] \/ \E b \in Buffers : Grants(queue[r][b], m, s)

(* A lost acknowledgement excuses one claim: X holds the excused cells, Y the *)
(* excused packets.  The other claims on a cell are at most one, and covered. *)
CellCounts(X, m, s, r) == CellClaims(m, s, r) /\ <<m, TxCell(s, r)>> \notin X
CopyCounts(Y, h, b, m, s, r) == Claims(h, queue[h][b], m, s, r) /\ <<h, b>> \notin Y

Balanced(X, Y, m, s, r) ==
    /\ CellCounts(X, m, s, r) =>
         /\ Covered(m, s, r)
         /\ \A h \in Motes, b \in Buffers : ~CopyCounts(Y, h, b, m, s, r)
    /\ \A h \in Motes, b \in Buffers : CopyCounts(Y, h, b, m, s, r) =>
         /\ Covered(m, s, r)
         /\ \A k \in Motes, d \in Buffers : CopyCounts(Y, k, d, m, s, r) => k = h /\ d = b

AllBalanced(X, Y) == \A m, r \in Motes, s \in FreeSlots : Balanced(X, Y, m, s, r)

Within(X, Y, n) ==
    IsFiniteSet(X) /\ IsFiniteSet(Y) /\ Cardinality(X) + Cardinality(Y) <= n

ClaimsAreCovered == \E X, Y : Within(X, Y, acksLost) /\ AllBalanced(X, Y)

AgreementInv ==
    /\ SixtopInv /\ SlotsOnce /\ Singles
    /\ timeouts = 0 => SendersOK /\ ClaimsAreCovered

-----------------------------------------------------------------------------
(* The budget, when an excuse is moved or one is added.                       *)
LEMMA CardinalityNat ==
    ASSUME NEW S, IsFiniteSet(S)
    PROVE  Cardinality(S) \in Nat
BY FS_CardinalityType

LEMMA WithinMoves ==
    ASSUME NEW X, NEW Y, NEW n \in Nat, Within(X, Y, n), NEW x, NEW y
    PROVE  /\ Within(X, Y \cup {y}, n + 1)
           /\ x \in X => Within(X \ {x}, Y \cup {y}, n)
           /\ y \in Y => Within(X \cup {x}, Y \ {y}, n)
<1>1. /\ IsFiniteSet(X) /\ IsFiniteSet(Y) /\ Cardinality(X) \in Nat /\ Cardinality(Y) \in Nat
      /\ Cardinality(X) + Cardinality(Y) <= n
  BY CardinalityNat DEF Within
<1>2. /\ IsFiniteSet(X \cup {x})
      /\ Cardinality(X \cup {x}) \in {Cardinality(X), Cardinality(X) + 1}
  BY <1>1, FS_AddElement
<1>3. /\ IsFiniteSet(Y \cup {y})
      /\ Cardinality(Y \cup {y}) \in {Cardinality(Y), Cardinality(Y) + 1}
  BY <1>1, FS_AddElement
<1>4. IsFiniteSet(X \ {x}) /\ (x \in X => Cardinality(X \ {x}) = Cardinality(X) - 1)
  BY <1>1, FS_RemoveElement
<1>5. IsFiniteSet(Y \ {y}) /\ (y \in Y => Cardinality(Y \ {y}) = Cardinality(Y) - 1)
  BY <1>1, FS_RemoveElement
<1>6. Within(X, Y \cup {y}, n + 1)
  BY <1>1, <1>3 DEF Within
<1>7. x \in X => Within(X \ {x}, Y \cup {y}, n)
  BY <1>1, <1>3, <1>4 DEF Within
<1>8. y \in Y => Within(X \cup {x}, Y \ {y}, n)
  BY <1>1, <1>2, <1>5 DEF Within
<1> QED BY <1>6, <1>7, <1>8

LEMMA WithinSwap ==
    ASSUME NEW X, NEW Y, NEW n \in Nat, Within(X, Y, n), NEW y \in Y, NEW z
    PROVE  Within(X, (Y \ {y}) \cup {z}, n)
<1>1. /\ IsFiniteSet(X) /\ IsFiniteSet(Y) /\ Cardinality(X) \in Nat /\ Cardinality(Y) \in Nat
      /\ Cardinality(X) + Cardinality(Y) <= n
  BY CardinalityNat DEF Within
<1>2. PICK W : W = Y \ {y}
  OBVIOUS
<1>3. IsFiniteSet(W) /\ Cardinality(W) = Cardinality(Y) - 1
  BY <1>1, <1>2, FS_RemoveElement
<1>4. IsFiniteSet(W \cup {z}) /\ Cardinality(W \cup {z}) \in {Cardinality(W), Cardinality(W) + 1}
  BY <1>3, FS_AddElement
<1> QED BY <1>1, <1>2, <1>3, <1>4 DEF Within

(* What a step must show of a cell to keep its claims balanced.               *)
LEMMA BalanceKept ==
    ASSUME NEW X, NEW Y, NEW U, NEW V, NEW m, NEW s, NEW r, Balanced(X, Y, m, s, r),
           CellCounts(U, m, s, r)' => CellCounts(X, m, s, r),
           \A h \in Motes, b \in Buffers :
               CopyCounts(V, h, b, m, s, r)' => CopyCounts(Y, h, b, m, s, r),
           Covered(m, s, r) => Covered(m, s, r)'
    PROVE  Balanced(U, V, m, s, r)'
BY Zenon DEF Balanced

(* A cell that nothing claims is balanced.                                    *)
LEMMA UnclaimedBalanced ==
    ASSUME NEW U, NEW V, NEW m, NEW s, NEW r, ~CellCounts(U, m, s, r)',
           \A h \in Motes, b \in Buffers : ~CopyCounts(V, h, b, m, s, r)'
    PROVE  Balanced(U, V, m, s, r)'
BY Zenon DEF Balanced

-----------------------------------------------------------------------------
(* What the balance says of the cells.                                        *)
LEMMA CellShape ==
    ASSUME NEW c \in Cell
    PROVE  /\ c.slotOffset \in FreeSlots /\ c.neighbor \in Motes /\ c.type \in {"TX", "RX"}
           /\ c = [slotOffset |-> c.slotOffset, type |-> c.type, neighbor |-> c.neighbor]
           /\ c.type = "TX" => c = TxCell(c.slotOffset, c.neighbor)
           /\ c.type = "RX" => c = RxCell(c.slotOffset, c.neighbor)
BY DEF Cell, TxCell, RxCell

LEMMA CellFields ==
    ASSUME NEW s, NEW r
    PROVE  /\ TxCell(s, r).slotOffset = s /\ TxCell(s, r).type = "TX"
           /\ TxCell(s, r).neighbor = r
           /\ RxCell(s, r).slotOffset = s /\ RxCell(s, r).type = "RX"
           /\ RxCell(s, r).neighbor = r
BY DEF TxCell, RxCell

LEMMA HeldClaims ==
    ASSUME SixtopInv, NEW m \in Motes, NEW c \in HeldCells(m), c.type = "TX"
    PROVE  /\ CellClaims(m, c.slotOffset, c.neighbor)
           /\ c.slotOffset \in FreeSlots /\ c.neighbor \in Motes
<1>1. c \in cells[m] /\ c \in Cell
  BY TypeFacts DEF HeldCells
<1>2. /\ c = TxCell(c.slotOffset, c.neighbor)
      /\ c.slotOffset \in FreeSlots /\ c.neighbor \in Motes
  BY <1>1, CellShape
<1>3. \A b \in Buffers : ~Retires(queue[m][b], c.slotOffset)
  BY DEF HeldCells, Owned, Retires
<1> QED BY <1>1, <1>2, <1>3 DEF CellClaims

(* Two motes never hold the same cell of a third one.                         *)
LEMMA BalancedApart ==
    ASSUME AgreementInv, timeouts = 0, acksLost = 0
    PROVE  ~\E m, n \in Motes : Collide(m, n)
<1>1. PICK X, Y : Within(X, Y, 0) /\ AllBalanced(X, Y)
  BY DEF AgreementInv, ClaimsAreCovered
<1>2. X = {}
  <2>1. IsFiniteSet(X) /\ Cardinality(X) \in Nat /\ Cardinality(Y) \in Nat
        /\ Cardinality(X) + Cardinality(Y) <= 0
    BY <1>1, CardinalityNat DEF Within
  <2>2. Cardinality(X) = 0
    BY <2>1
  <2> QED BY <2>1, <2>2, FS_EmptySet
<1>3. SUFFICES ASSUME NEW m \in Motes, NEW n \in Motes, m # n,
                      NEW c \in HeldCells(m) \cap HeldCells(n), c.type = "TX"
               PROVE  FALSE
  BY DEF Collide
<1>4. PICK s \in FreeSlots, r \in Motes : CellClaims(m, s, r) /\ CellClaims(n, s, r)
  BY <1>3, HeldClaims DEF AgreementInv
<1>5. Covered(m, s, r) /\ Covered(n, s, r)
  BY <1>1, <1>2, <1>4 DEF AllBalanced, Balanced, CellCounts
<1>6. SenderOK(r)
  BY DEF AgreementInv, SendersOK
<1>7. \A x, y \in Motes : RxCell(s, x) \in cells[r] /\ RxCell(s, y) \in cells[r] => x = y
  BY CellFields DEF AgreementInv, SlotsOnce
<1>8. \A b, d \in Buffers, x, y \in Motes :
        Grants(queue[r][b], x, s) /\ Grants(queue[r][d], y, s) => x = y
  <2>1. \A b, d \in Buffers, x, y \in Motes :
          Grants(queue[r][b], x, s) /\ Grants(queue[r][d], y, s) => b = d
    BY <1>6 DEF SenderOK, Grants, InMac
  <2> QED BY <2>1 DEF Grants
<1>9. \A b \in Buffers, x, y \in Motes :
        ~(Grants(queue[r][b], x, s) /\ RxCell(s, y) \in cells[r])
  <2>1. \A b \in Buffers, x \in Motes : Grants(queue[r][b], x, s) => Available(r, s)
    BY <1>6 DEF SenderOK, Grants, InMac, Matches
  <2> QED BY <2>1, CellFields DEF Available
<1> QED BY <1>3, <1>5, <1>7, <1>8, <1>9 DEF Covered

(* ... and, once everything has settled, a cell without its other end has     *)
(* been excused.                                                              *)
LEMMA BalancedHears ==
    ASSUME AgreementInv, timeouts = 0, Quiet
    PROVE  Cardinality(DeafCells) <= acksLost
<1>1. PICK X, Y : Within(X, Y, acksLost) /\ AllBalanced(X, Y)
  BY DEF AgreementInv, ClaimsAreCovered
<1>2. \A m \in Motes, b \in Buffers : queue[m][b].owner = "NULL"
  BY DEF Quiet, Owned
<1>3. ASSUME NEW m \in Motes, NEW c \in cells[m], c.type = "TX",
             [slotOffset |-> c.slotOffset, type |-> "RX", neighbor |-> m] \notin cells[c.neighbor]
      PROVE  <<m, c>> \in X
  <2>1. c \in Cell
    BY TypeFacts DEF AgreementInv
  <2>2. /\ c = TxCell(c.slotOffset, c.neighbor)
        /\ c.slotOffset \in FreeSlots /\ c.neighbor \in Motes
    BY <1>3, <2>1, CellShape
  <2>3. CellClaims(m, c.slotOffset, c.neighbor)
    BY <1>2, <2>2 DEF CellClaims, Retires
  <2>4. ~Covered(m, c.slotOffset, c.neighbor)
    BY <1>2, <1>3, <2>2 DEF Covered, Grants, RxCell
  <2> QED BY <1>1, <2>2, <2>3, <2>4 DEF AllBalanced, Balanced, CellCounts
<1>4. DeafCells \in SUBSET X
  <2>1. ASSUME NEW x \in DeafCells
        PROVE  x \in X
    <3>1. PICK m \in Motes : x \in {m} \X {c \in cells[m] :
                     /\ c.type = "TX"
                     /\ [slotOffset |-> c.slotOffset, type |-> "RX", neighbor |-> m]
                          \notin cells[c.neighbor]}
      BY Zenon DEF DeafCells
    <3>2. PICK c \in cells[m] :
            /\ x = <<m, c>> /\ c.type = "TX"
            /\ [slotOffset |-> c.slotOffset, type |-> "RX", neighbor |-> m]
                 \notin cells[c.neighbor]
      BY <3>1
    <3> QED BY <1>3, <3>2
  <2> QED BY <2>1
<1>5. Cardinality(DeafCells) <= Cardinality(X) /\ IsFiniteSet(DeafCells)
  BY <1>1, <1>4, FS_Subset DEF Within
<1>6. /\ Cardinality(X) \in Nat /\ Cardinality(Y) \in Nat /\ Cardinality(DeafCells) \in Nat
      /\ acksLost \in Nat
  BY <1>1, <1>5, CardinalityNat DEF Within, AgreementInv, SixtopInv, SixtopTypeOK
<1>7. Cardinality(X) + Cardinality(Y) <= acksLost
  BY <1>1 DEF Within
<1> QED BY <1>5, <1>6, <1>7

-----------------------------------------------------------------------------
(* What a step of mote m must show: the other motes keep their packets and    *)
(* their cells, but for buffers they may have taken.                          *)
OnlyAt(m) ==
    \A x \in Motes : x # m =>
        /\ six2six_state'[x] = six2six_state[x] /\ cells'[x] = cells[x]
        /\ hung'[x] = hung[x] /\ timeoutTasks'[x] = timeoutTasks[x]
        /\ \A b \in Buffers : InMac(queue'[x][b]) => queue'[x][b] = queue[x][b]

LEMMA SenderKept ==
    ASSUME NEW m, SenderOK(m),
           six2six_state'[m] = six2six_state[m], cells'[m] = cells[m],
           hung'[m] = hung[m], timeoutTasks'[m] = timeoutTasks[m],
           \A b \in Buffers : InMac(queue'[m][b]) => queue'[m][b] = queue[m][b]
    PROVE  SenderOK(m)'
<1>1. \A b \in Buffers : InMac(queue'[m][b]) =>
        queue'[m][b] = queue[m][b] /\ InMac(queue[m][b]) /\ Matches(m, queue[m][b])
  BY Zenon DEF SenderOK
<1>2. \A p : Matches(m, p) =>
        /\ p.opcode = "ADD" => six2six_state'[m] = "WAIT_ADDREQUEST_SENDDONE"
        /\ p.opcode = "RESPONSE" => /\ six2six_state'[m] = "WAIT_ADDRESPONSE_SENDDONE"
                                    /\ \A s \in p.cells : \A c \in cells'[m] : c.slotOffset # s
        /\ p.opcode = "REMOVE" => /\ six2six_state'[m] = "WAIT_REMOVEREQUEST_SENDDONE"
                                  /\ \A s \in p.cells : TxCell(s, p.neighbor) \in cells'[m]
  BY Zenon DEF Matches, Available
<1>3. \A b \in Buffers : InMac(queue'[m][b]) => Matches(m, queue[m][b])'
  BY <1>1, <1>2, Zenon DEF Matches, Available
<1> QED BY <1>1, <1>3, Zenon DEF SenderOK

LEMMA SendersElsewhere ==
    ASSUME SendersOK, NEW m \in Motes, OnlyAt(m), SenderOK(m)'
    PROVE  SendersOK'
<1>1. ASSUME NEW x \in Motes, x # m PROVE SenderOK(x)'
  BY <1>1, SenderKept DEF SendersOK, OnlyAt
<1> QED BY <1>1 DEF SendersOK

LEMMA SenderIdle ==
    ASSUME NEW m, timeoutTasks'[m] = 0, ~hung'[m],
           \A b \in Buffers : ~InMac(queue'[m][b])
    PROVE  SenderOK(m)'
BY DEF SenderOK

LEMMA SenderOne ==
    ASSUME NEW m, timeoutTasks'[m] = 0, ~hung'[m], NEW b \in Buffers, Matches(m, queue[m][b])',
           \A d \in Buffers : d # b => ~InMac(queue'[m][d])
    PROVE  SenderOK(m)'
BY DEF SenderOK

(* A mote in another state has no packet in the hands of the MAC.             *)
LEMMA NonePending ==
    ASSUME SixtopInv, NEW m \in Motes, SenderOK(m),
           six2six_state[m] \notin {"WAIT_ADDREQUEST_SENDDONE", "WAIT_ADDRESPONSE_SENDDONE",
                                    "WAIT_REMOVEREQUEST_SENDDONE"}
    PROVE  \A b \in Buffers : ~InMac(queue[m][b])
<1> SUFFICES ASSUME NEW b \in Buffers, InMac(queue[m][b])
             PROVE  FALSE
  OBVIOUS
<1>1. Matches(m, queue[m][b])
  BY DEF SenderOK
<1>2. queue[m][b].opcode \in {"ADD", "RESPONSE", "REMOVE"}
  <2>1. queue[m][b] \in Contents /\ queue[m][b].owner # "NULL"
    BY TypeFacts DEF PacketsOK, InMac
  <2> QED BY <2>1 DEF Contents, FreeBuffer, GoodPackets, Packet
<1> QED BY <1>1, <1>2 DEF Matches

(* The packets that carry claims: those received, and those acknowledged.     *)
Lasting(p) == p.owner = "SENT" /\ p.success /\ p.opcode # "ADD"

KeepsClaims ==
    \A h \in Motes, b \in Buffers :
        /\ queue'[h][b].owner = "RECEIVED" => queue'[h][b] = queue[h][b]
        /\ Lasting(queue[h][b]) => queue'[h][b] = queue[h][b]

LEMMA KeepsCounts ==
    ASSUME NEW X, NEW Y, NEW m \in Motes, NEW s, NEW r \in Motes, Balanced(X, Y, m, s, r),
           KeepsClaims,
           TxCell(s, r) \in cells'[m] => TxCell(s, r) \in cells[m],
           RxCell(s, m) \in cells[r] => RxCell(s, m) \in cells'[r]
    PROVE  Balanced(X, Y, m, s, r)'
<1>1. CellCounts(X, m, s, r)' => CellCounts(X, m, s, r)
  <2>1. \A b \in Buffers : Retires(queue[m][b], s) => Retires(queue'[m][b], s)
    BY DEF KeepsClaims, Retires, Lasting
  <2> QED BY <2>1, Zenon DEF CellCounts, CellClaims
<1>2. \A h \in Motes, b \in Buffers : CopyCounts(Y, h, b, m, s, r)' => CopyCounts(Y, h, b, m, s, r)
  <2>1. \A h \in Motes, b \in Buffers :
          Claims(h, queue'[h][b], m, s, r) => Claims(h, queue[h][b], m, s, r)
    BY Zenon DEF KeepsClaims, Claims
  <2> QED BY <2>1, Zenon DEF CopyCounts
<1>3. Covered(m, s, r) => Covered(m, s, r)'
  <2>1. \A b \in Buffers : Grants(queue[r][b], m, s) => Grants(queue'[r][b], m, s)
    BY DEF KeepsClaims, Grants, Lasting
  <2> QED BY <2>1, Zenon DEF Covered
<1> QED BY <1>1, <1>2, <1>3, BalanceKept

LEMMA KeepsCovered ==
    ASSUME ClaimsAreCovered, KeepsClaims, UNCHANGED <<cells, acksLost>>
    PROVE  ClaimsAreCovered'
<1>1. PICK X, Y : Within(X, Y, acksLost) /\ AllBalanced(X, Y)
  BY DEF ClaimsAreCovered
<1>2. ASSUME NEW m \in Motes, NEW r \in Motes, NEW s \in FreeSlots
      PROVE  Balanced(X, Y, m, s, r)'
  BY <1>1, KeepsCounts DEF AllBalanced
<1>3. AllBalanced(X, Y)'
  BY <1>2, Zenon DEF AllBalanced
<1>4. Within(X, Y, acksLost')
  BY <1>1
<1> QED BY <1>3, <1>4 DEF ClaimsAreCovered

(* The shape of the packets, buffer by buffer.                                *)
LEMMA SinglesKept ==
    ASSUME Singles,
           \A x \in Motes, b \in Buffers :
               queue'[x][b] = queue[x][b] \/ Single(queue'[x][b])
    PROVE  Singles'
BY Zenon DEF Singles

LEMMA NewPacketFields ==
    ASSUME NEW op, NEW n, NEW S
    PROVE  /\ NewPacket(op, n, S).opcode = op /\ NewPacket(op, n, S).neighbor = n
           /\ NewPacket(op, n, S).cells = S /\ NewPacket(op, n, S).owner = "TO_MAC"
BY DEF NewPacket

LEMMA CandidateFacts ==
    ASSUME SixtopInv, NEW m \in Motes, NEW n
    PROVE  /\ \A s \in CandidateRemove(m, n) : TxCell(s, n) \in cells[m]
           /\ \A s, t \in CandidateRemove(m, n) : s = t
<1>1. \A c \in cells[m] : c.slotOffset \in Nat /\ (c.type = "TX" => c = TxCell(c.slotOffset, c.neighbor))
  BY TypeFacts, CellShape, SixtopAssumption
<1>2. ASSUME NEW s \in CandidateRemove(m, n)
      PROVE  s \in Nat /\ TxCell(s, n) \in cells[m]
  <2>1. PICK c \in cells[m] : c.type = "TX" /\ c.neighbor = n /\ s = c.slotOffset
    BY DEF CandidateRemove
  <2> QED BY <1>1, <2>1
<1>3. \A s, t \in CandidateRemove(m, n) : s <= t
  BY DEF CandidateRemove
<1> QED BY <1>2, <1>3

(* A request is queued only in SIX_IDLE, where nothing else is under way.     *)
LEMMA RequestAgrees ==
    ASSUME AgreementInv, SixtopInv', NEW m \in Motes,
           NEW op \in {"ADD", "REMOVE"}, NEW S, NEW waiting,
           Request(m, op, S, waiting),
           op = "ADD" => waiting = "WAIT_ADDREQUEST_SENDDONE",
           op = "REMOVE" => /\ waiting = "WAIT_REMOVEREQUEST_SENDDONE"
                            /\ \A s \in S : TxCell(s, preferredParent[m]) \in cells[m]
                            /\ \A s, t \in S : s = t,
           UNCHANGED <<timeoutTasks, hung, cells, acksLost, timeouts>>
    PROVE  AgreementInv'
<1>1. SlotsOnce'
  BY DEF AgreementInv, SlotsOnce
<1>2. CASE UNCHANGED <<queue, six2six_state, timer>>
  <2>1. Singles' /\ KeepsClaims
    BY <1>2, Zenon DEF AgreementInv, Singles, KeepsClaims
  <2>2. SendersOK => SendersOK'
    <3>1. ASSUME NEW x \in Motes, SenderOK(x) PROVE SenderOK(x)'
      BY <1>2, <3>1, SenderKept
    <3> QED BY <3>1 DEF SendersOK
  <2>3. ClaimsAreCovered => ClaimsAreCovered'
    BY <2>1, KeepsCovered
  <2> QED BY <1>1, <2>1, <2>2, <2>3 DEF AgreementInv
<1>3. CASE /\ six2six_state[m] = "IDLE" /\ Owned(m, "NULL") # {}
           /\ queue' = [queue EXCEPT ![m][FirstOwned(m, "NULL")] =
                            NewPacket(op, preferredParent[m], S)]
           /\ six2six_state' = [six2six_state EXCEPT ![m] = waiting]
  <2>1. PICK b \in Buffers : b = FirstOwned(m, "NULL") /\ queue[m][b].owner = "NULL"
    BY <1>3, FirstIsOwned DEF Owned
  <2>2. PICK p : p = NewPacket(op, preferredParent[m], S)
    OBVIOUS
  <2>3. queue' = [queue EXCEPT ![m][b] = p]
    BY <1>3, <2>1, <2>2
  <2>4. /\ queue'[m][b] = p
        /\ \A d \in Buffers : d # b => queue'[m][d] = queue[m][d]
        /\ \A x \in Motes : x # m => queue'[x] = queue[x]
    BY <2>3, TypeFacts DEF AgreementInv, PacketsOK
  <2>5. p.opcode = op /\ p.neighbor = preferredParent[m] /\ p.cells = S /\ p.owner = "TO_MAC"
    BY <2>2, NewPacketFields
  <2>6. six2six_state'[m] = waiting /\ \A x \in Motes : x # m => six2six_state'[x] = six2six_state[x]
    BY <1>3, TypeFacts DEF AgreementInv
  <2>7. Singles'
    <3>1. Single(p)
      BY <2>5 DEF Single
    <3> QED BY <2>4, <3>1, SinglesKept DEF AgreementInv
  <2>8. KeepsClaims
    <3>1. ~Lasting(queue[m][b]) /\ p.owner # "RECEIVED"
      BY <2>1, <2>5 DEF Lasting
    <3>2. \A x \in Motes, d \in Buffers : ~(x = m /\ d = b) => queue'[x][d] = queue[x][d]
      BY <2>4
    <3> QED BY <2>4, <3>1, <3>2, Zenon DEF KeepsClaims
  <2>9. SendersOK => SendersOK'
    <3> SUFFICES ASSUME SendersOK PROVE SendersOK'
      OBVIOUS
    <3>1. SenderOK(m) /\ timeoutTasks'[m] = 0 /\ ~hung'[m]
      BY DEF SendersOK, SenderOK
    <3>2. \A d \in Buffers : ~InMac(queue[m][d])
      BY <1>3, <3>1, NonePending DEF AgreementInv
    <3>3. \A d \in Buffers : d # b => ~InMac(queue'[m][d])
      BY <2>4, <3>2
    <3>4. Matches(m, queue[m][b])'
      BY <2>4, <2>5, <2>6 DEF Matches
    <3>5. SenderOK(m)'
      BY <3>1, <3>3, <3>4, SenderOne
    <3>6. OnlyAt(m)
      BY <2>4, <2>6, Zenon DEF OnlyAt
    <3> QED BY <3>5, <3>6, SendersElsewhere
  <2>10. ClaimsAreCovered => ClaimsAreCovered'
    BY <2>8, KeepsCovered
  <2> QED BY <1>1, <2>7, <2>9, <2>10 DEF AgreementInv
<1> QED BY <1>2, <1>3 DEF Request

LEMMA AskAgrees ==
    ASSUME AgreementInv, SixtopInv', NEW m \in Motes, AddCells(m) \/ RemoveCell(m),
           UNCHANGED <<timeoutTasks, hung, cells, acksLost, timeouts>>
    PROVE  AgreementInv'
<1>1. CASE AddCells(m)
  BY <1>1, RequestAgrees DEF AddCells
<1>2. CASE RemoveCell(m)
  <2>1. /\ \A s \in CandidateRemove(m, preferredParent[m]) :
             TxCell(s, preferredParent[m]) \in cells[m]
        /\ \A s, t \in CandidateRemove(m, preferredParent[m]) : s = t
    BY CandidateFacts DEF AgreementInv
  <2> QED BY <1>2, <2>1, RequestAgrees DEF RemoveCell
<1> QED BY <1>1, <1>2

LEMMA C6tRequestAgrees ==
    ASSUME AgreementInv, SixtopInv', NEW m \in Motes, C6tRequest(m)
    PROVE  AgreementInv'
BY AskAgrees DEF C6tRequest

LEMMA OtfTaskAgrees ==
    ASSUME AgreementInv, SixtopInv', NEW m \in Motes, OtfTask(m)
    PROVE  AgreementInv'
BY AskAgrees DEF OtfTask, bounds

-----------------------------------------------------------------------------
(* An attempt of the MAC changes what OpenQueue records of the packet, never  *)
(* the command in it.                                                         *)
SameCommand(p, q) == p.opcode = q.opcode /\ p.neighbor = q.neighbor /\ p.cells = q.cells

LEMMA AttemptKeepsCommand ==
    ASSUME NEW pkt \in GoodPackets, pkt.owner = "TO_MAC"
    PROVE  /\ SameCommand(Unacknowledged(pkt), pkt) /\ SameCommand(Acknowledged(pkt), pkt)
           /\ InMac(Unacknowledged(pkt)) /\ ~Lasting(Unacknowledged(pkt))
           /\ Acknowledged(pkt).owner = "SENT" /\ Acknowledged(pkt).success
           /\ \A m : /\ Received(m, pkt).opcode = pkt.opcode
                     /\ Received(m, pkt).cells = pkt.cells
                     /\ Received(m, pkt).neighbor = m /\ Received(m, pkt).owner = "RECEIVED"
<1>1. pkt \in Packet
  BY DEF GoodPackets
<1>2. SameCommand(Unacknowledged(pkt), pkt) /\ InMac(Unacknowledged(pkt))
      /\ ~Lasting(Unacknowledged(pkt))
  <2>1. CASE pkt.retriesLeft = 1
    <3>1. PICK r : r = [pkt EXCEPT !.retriesLeft = 0, !.owner = "SENT", !.success = FALSE]
      OBVIOUS
    <3>2. /\ r.opcode = pkt.opcode /\ r.neighbor = pkt.neighbor /\ r.cells = pkt.cells
          /\ r.owner = "SENT" /\ r.success = FALSE
      BY <1>1, <3>1 DEF Packet
    <3> QED BY <2>1, <3>1, <3>2 DEF Unacknowledged, SameCommand, InMac, Lasting
  <2>2. CASE pkt.retriesLeft # 1
    BY <1>1, <2>2 DEF Unacknowledged, SameCommand, InMac, Lasting, Packet
  <2> QED BY <2>1, <2>2
<1>3. /\ SameCommand(Acknowledged(pkt), pkt)
      /\ Acknowledged(pkt).owner = "SENT" /\ Acknowledged(pkt).success
  BY <1>1 DEF Acknowledged, SameCommand, Packet
<1>4. ASSUME NEW m
      PROVE  /\ Received(m, pkt).opcode = pkt.opcode /\ Received(m, pkt).cells = pkt.cells
             /\ Received(m, pkt).neighbor = m /\ Received(m, pkt).owner = "RECEIVED"
  BY <1>1 DEF Received, Packet
<1> QED BY <1>2, <1>3, <1>4

LEMMA SenderTries ==
    ASSUME NEW m, SenderOK(m), NEW b \in Buffers, InMac(queue[m][b]),
           NEW p, SameCommand(p, queue[m][b]), queue'[m][b] = p,
           \A d \in Buffers : d # b /\ InMac(queue'[m][d]) => queue'[m][d] = queue[m][d],
           six2six_state'[m] = six2six_state[m], cells'[m] = cells[m],
           hung'[m] = hung[m], timeoutTasks'[m] = timeoutTasks[m]
    PROVE  SenderOK(m)'
<1>1. \A d \in Buffers : d # b => ~InMac(queue'[m][d])
  BY Zenon DEF SenderOK
<1>2. Matches(m, queue[m][b])
  BY Zenon DEF SenderOK
<1>3. Matches(m, queue[m][b])'
  BY <1>2 DEF Matches, SameCommand, Available
<1>4. timeoutTasks'[m] = 0 /\ ~hung'[m]
  BY Zenon DEF SenderOK
<1> QED BY <1>1, <1>3, <1>4, SenderOne

LEMMA SingleCommand ==
    ASSUME NEW p, NEW q, SameCommand(p, q), Single(q), q.owner # "NULL"
    PROVE  Single(p)
BY DEF Single, SameCommand

LEMMA FrameLostAgrees ==
    ASSUME AgreementInv, SixtopInv', NEW m \in Motes, NEW b \in Buffers, FrameLost(m, b)
    PROVE  AgreementInv'
<1>1. /\ UNCHANGED <<six2six_state, timeoutTasks, cells, hung, acksLost, timeouts>>
      /\ b \in Owned(m, "TO_MAC")
  BY DEF FrameLost, MacMaySend
<1>2. queue[m][b] \in GoodPackets /\ queue[m][b].owner = "TO_MAC" /\ PacketsOK
  BY <1>1, TypeFacts, BufferFacts DEF AgreementInv
<1>3. PICK p : /\ p = Unacknowledged(queue[m][b])
               /\ SameCommand(p, queue[m][b]) /\ InMac(p) /\ ~Lasting(p)
  BY <1>2, AttemptKeepsCommand
<1>4. queue' = [queue EXCEPT ![m][b] = p]
  BY <1>3, Zenon DEF FrameLost
<1>5. /\ queue'[m][b] = p
      /\ \A x \in Motes, d \in Buffers : ~(x = m /\ d = b) => queue'[x][d] = queue[x][d]
  BY ONLY <1>2, <1>4, m \in Motes, b \in Buffers DEF PacketsOK
<1>6. SlotsOnce'
  BY <1>1 DEF AgreementInv, SlotsOnce
<1>7. Singles'
  <2>1. Single(queue[m][b]) /\ queue[m][b].owner # "NULL"
    BY <1>2 DEF AgreementInv, Singles
  <2>2. Single(p)
    BY <1>3, <2>1, SingleCommand
  <2> QED BY <1>5, <2>2, SinglesKept DEF AgreementInv
<1>8. KeepsClaims
  <2>1. ~Lasting(queue[m][b]) /\ p.owner # "RECEIVED"
    BY <1>2, <1>3 DEF Lasting, InMac
  <2> QED BY <1>5, <2>1, Zenon DEF KeepsClaims
<1>9. SendersOK => SendersOK'
  <2> SUFFICES ASSUME SendersOK PROVE SendersOK'
    OBVIOUS
  <2>1. InMac(queue[m][b]) /\ SenderOK(m)
    BY <1>2 DEF InMac, SendersOK
  <2>2. SenderOK(m)'
    BY <1>1, <1>3, <1>5, <2>1, SenderTries
  <2>3. OnlyAt(m)
    BY <1>1, <1>5, Zenon DEF OnlyAt
  <2> QED BY <2>2, <2>3, SendersElsewhere
<1>10. ClaimsAreCovered => ClaimsAreCovered'
  BY <1>1, <1>8, KeepsCovered
<1> QED BY <1>1, <1>6, <1>7, <1>9, <1>10 DEF AgreementInv

LEMMA ElsewhereAgrees ==
    ASSUME AgreementInv, SixtopInv', SwitchParent \/ UNCHANGED vars
    PROVE  AgreementInv'
<1>1. UNCHANGED <<six2six_state, timeoutTasks, queue, cells, hung, acksLost, timeouts>>
  BY DEF SwitchParent, vars
<1>2. SlotsOnce' /\ Singles' /\ KeepsClaims
  BY <1>1, Zenon DEF AgreementInv, SlotsOnce, Singles, KeepsClaims
<1>3. SendersOK => SendersOK'
  <2>1. ASSUME NEW x \in Motes, SenderOK(x) PROVE SenderOK(x)'
    BY <1>1, <2>1, SenderKept
  <2> QED BY <2>1 DEF SendersOK
<1>4. ClaimsAreCovered => ClaimsAreCovered'
  BY <1>1, <1>2, KeepsCovered
<1> QED BY <1>1, <1>2, <1>3, <1>4 DEF AgreementInv

-----------------------------------------------------------------------------
(* The cells a task books or releases.                                        *)
LEMMA BookCells ==
    ASSUME SixtopInv, NEW m \in Motes, NEW S, NEW type, NEW n,
           Book(m, S, type, n), \A s \in S : Available(m, s)
    PROVE  /\ UNCHANGED hung
           /\ \A x \in Motes : x # m => cells'[x] = cells[x]
           /\ \A c : c \in cells'[m] <=>
                \/ c \in cells[m]
                \/ \E s \in S : c = [slotOffset |-> s, type |-> type, neighbor |-> n]
           /\ SlotsOnce => SlotsOnce'
<1>1. PICK B : B = {[slotOffset |-> s, type |-> type, neighbor |-> n] : s \in S}
  OBVIOUS
<1>2. cells' = [cells EXCEPT ![m] = @ \cup B] /\ UNCHANGED hung
  BY <1>1, Zenon DEF Book
<1>3. cells'[m] = cells[m] \cup B /\ \A x \in Motes : x # m => cells'[x] = cells[x]
  BY <1>2, TypeFacts
<1>4. \A c : c \in B <=> \E s \in S : c = [slotOffset |-> s, type |-> type, neighbor |-> n]
  BY <1>1
<1>5. SlotsOnce => SlotsOnce'
  <2> SUFFICES ASSUME SlotsOnce, NEW x \in Motes, NEW c \in cells'[x], NEW d \in cells'[x],
                      c.slotOffset = d.slotOffset
               PROVE  c = d
    BY DEF SlotsOnce
  <2>1. CASE x # m
    BY <1>3, <2>1 DEF SlotsOnce
  <2>2. CASE x = m
    <3>1. \A e \in cells[m], s \in S : e.slotOffset # s
      BY DEF Available
    <3>2. \A e \in B : e.slotOffset \in S
                       /\ e = [slotOffset |-> e.slotOffset, type |-> type, neighbor |-> n]
      BY <1>4
    <3>3. CASE c \in cells[m] /\ d \in cells[m]
      BY <2>2, <3>3 DEF SlotsOnce
    <3>4. CASE c \in B /\ d \in B
      BY <3>2, <3>4
    <3>5. ~(c \in cells[m] /\ d \in B) /\ ~(c \in B /\ d \in cells[m])
      BY <3>1, <3>2
    <3> QED BY <1>3, <2>2, <3>3, <3>4, <3>5
  <2> QED BY <2>1, <2>2
<1> QED BY <1>2, <1>3, <1>4, <1>5

LEMMA ReleaseCells ==
    ASSUME SixtopInv, NEW m \in Motes, NEW S, NEW n, Release(m, S, n)
    PROVE  /\ \A x \in Motes : x # m => cells'[x] = cells[x]
           /\ \A c : c \in cells'[m] <=> c \in cells[m] /\ ~(c.slotOffset \in S /\ c.neighbor = n)
           /\ SlotsOnce => SlotsOnce'
<1>1. PICK B : B = {c \in cells[m] : ~(c.slotOffset \in S /\ c.neighbor = n)}
  OBVIOUS
<1>2. cells'[m] = B /\ \A x \in Motes : x # m => cells'[x] = cells[x]
  BY <1>1, TypeFacts DEF Release
<1>3. \A c : c \in B <=> c \in cells[m] /\ ~(c.slotOffset \in S /\ c.neighbor = n)
  BY <1>1
<1>4. SlotsOnce => SlotsOnce'
  BY <1>2, <1>3 DEF SlotsOnce
<1> QED BY <1>2, <1>3, <1>4

-----------------------------------------------------------------------------
(* A command that has been handled leaves its buffer.                         *)
LEMMA FreedCommand ==
    ASSUME SixtopInv, NEW m \in Motes, NEW b \in Buffers, queue' = Free(m, b)
    PROVE  /\ queue'[m][b].owner = "NULL"
           /\ \A x \in Motes, d \in Buffers : ~(x = m /\ d = b) => queue'[x][d] = queue[x][d]
           /\ Singles => Singles'
           /\ \A x \in Motes, d \in Buffers : InMac(queue'[x][d]) => queue'[x][d] = queue[x][d]
<1>1. /\ queue'[m][b] = FreeBuffer
      /\ \A x \in Motes, d \in Buffers : ~(x = m /\ d = b) => queue'[x][d] = queue[x][d]
  BY TypeFacts DEF Free, PacketsOK
<1>2. FreeBuffer.owner = "NULL"
  BY DEF FreeBuffer
<1>3. Singles => Singles'
  <2>1. Single(FreeBuffer)
    BY <1>2 DEF Single
  <2> QED BY <1>1, <2>1, SinglesKept
<1>4. \A x \in Motes, d \in Buffers : InMac(queue'[x][d]) => queue'[x][d] = queue[x][d]
  BY <1>1, <1>2, Zenon DEF InMac
<1> QED BY <1>1, <1>2, <1>3, <1>4

LEMMA IgnoreCommandAgrees ==
    ASSUME AgreementInv, SixtopInv', NEW m \in Motes, NEW b \in Owned(m, "RECEIVED"),
           IgnoreCommand(m, b), UNCHANGED <<timeoutTasks, bounds>>
    PROVE  AgreementInv'
<1>1. /\ UNCHANGED <<six2six_state, timeoutTasks, cells, hung, acksLost, timeouts>>
      /\ queue' = Free(m, b) /\ b \in Buffers /\ queue[m][b].owner = "RECEIVED"
  BY DEF IgnoreCommand, bounds, Owned
<1>2. /\ queue'[m][b].owner = "NULL"
      /\ \A x \in Motes, d \in Buffers : ~(x = m /\ d = b) => queue'[x][d] = queue[x][d]
      /\ Singles'
      /\ \A x \in Motes, d \in Buffers : InMac(queue'[x][d]) => queue'[x][d] = queue[x][d]
  BY <1>1, FreedCommand DEF AgreementInv
<1>3. SlotsOnce'
  BY <1>1, Zenon DEF AgreementInv, SlotsOnce
<1>4. KeepsClaims
  BY <1>1, <1>2 DEF KeepsClaims, Lasting
<1>5. SendersOK => SendersOK'
  <2>1. ASSUME NEW x \in Motes, SenderOK(x) PROVE SenderOK(x)'
    BY <1>1, <1>2, <2>1, SenderKept
  <2> QED BY <2>1 DEF SendersOK
<1>6. ClaimsAreCovered => ClaimsAreCovered'
  BY <1>1, <1>4, KeepsCovered
<1> QED BY <1>1, <1>2, <1>3, <1>5, <1>6 DEF AgreementInv

LEMMA GrantedFacts ==
    ASSUME NEW m, NEW S \in SUBSET FreeSlots
    PROVE  /\ \A s \in Granted(m, S) : Available(m, s)
           /\ \A s, t \in Granted(m, S) : s = t
<1>1. FreeSlots \subseteq Nat
  BY SixtopAssumption
<1>2. \A s \in Granted(m, S) : s \in Nat /\ Available(m, s)
  BY <1>1 DEF Granted
<1>3. \A s, t \in Granted(m, S) : s <= t
  BY DEF Granted
<1> QED BY <1>2, <1>3

(* The responder grants a cell that is free, and keeps it free until the      *)
(* response is notified.                                                      *)
LEMMA ReceiveAddRequestAgrees ==
    ASSUME AgreementInv, SixtopInv', NEW m \in Motes, NEW b \in Owned(m, "RECEIVED"),
           ReceiveAddRequest(m, b), UNCHANGED <<timeoutTasks, bounds>>
    PROVE  AgreementInv'
<1>1. /\ UNCHANGED <<timeoutTasks, cells, hung, acksLost, timeouts>>
      /\ b \in Buffers /\ queue[m][b].owner = "RECEIVED" /\ six2six_state[m] = "IDLE"
  BY DEF ReceiveAddRequest, bounds, Owned
<1>2. SlotsOnce' /\ PacketsOK /\ Singles
  BY <1>1, TypeFacts, Zenon DEF AgreementInv, SlotsOnce
<1>3. SendersOK => /\ timeoutTasks'[m] = 0 /\ ~hung'[m]
                   /\ \A d \in Buffers : ~InMac(queue[m][d])
  <2>1. SendersOK => SenderOK(m)
    BY DEF SendersOK
  <2> QED BY <1>1, <2>1, NonePending DEF AgreementInv, SenderOK
<1>4. CASE /\ Owned(m, "NULL") # {}
           /\ queue' = [Free(m, b) EXCEPT ![m][FirstOwned(m, "NULL")] =
                  NewPacket("RESPONSE", queue[m][b].neighbor, Granted(m, queue[m][b].cells))]
           /\ six2six_state' = [six2six_state EXCEPT ![m] = "WAIT_ADDRESPONSE_SENDDONE"]
  <2>1. PICK d \in Buffers : d = FirstOwned(m, "NULL") /\ d \in Owned(m, "NULL")
    BY <1>4, FirstIsOwned DEF Owned
  <2>2. queue[m][d].owner = "NULL" /\ b # d
    BY <1>1, <2>1 DEF Owned
  <2>3. PICK p : p = NewPacket("RESPONSE", queue[m][b].neighbor, Granted(m, queue[m][b].cells))
    OBVIOUS
  <2>4. /\ p.opcode = "RESPONSE" /\ p.owner = "TO_MAC"
        /\ p.cells = Granted(m, queue[m][b].cells)
    BY <2>3, NewPacketFields
  <2>5. /\ \A s \in p.cells : Available(m, s)
        /\ \A s, t \in p.cells : s = t
    BY <2>4, ReceivedFacts, GrantedFacts DEF AgreementInv
  <2>6. /\ queue'[m][b] = FreeBuffer /\ queue'[m][d] = p
        /\ \A x \in Motes, y \in Buffers :
             ~(x = m /\ y = b) /\ ~(x = m /\ y = d) => queue'[x][y] = queue[x][y]
    <3>1. queue' = [queue EXCEPT ![m][b] = FreeBuffer, ![m][d] = p]
      BY <1>4, <2>1, <2>3 DEF Free
    <3> QED BY <1>1, <1>2, <2>2, <3>1 DEF PacketsOK
  <2>7. FreeBuffer.owner = "NULL"
    BY DEF FreeBuffer
  <2>8. /\ six2six_state'[m] = "WAIT_ADDRESPONSE_SENDDONE"
        /\ \A x \in Motes : x # m => six2six_state'[x] = six2six_state[x]
    BY <1>4, TypeFacts DEF AgreementInv
  <2>9. Singles'
    <3>1. Single(p) /\ Single(FreeBuffer)
      BY <2>5, <2>7 DEF Single
    <3> QED BY <1>2, <2>6, <3>1, SinglesKept
  <2>10. KeepsClaims
    <3>1. ~Lasting(queue[m][b]) /\ ~Lasting(queue[m][d])
      BY <1>1, <2>2 DEF Lasting
    <3> QED BY <2>4, <2>6, <2>7, <3>1 DEF KeepsClaims
  <2>11. SendersOK => SendersOK'
    <3> SUFFICES ASSUME SendersOK PROVE SendersOK'
      OBVIOUS
    <3>1. \A y \in Buffers : y # d => ~InMac(queue'[m][y])
      BY <1>3, <2>6, <2>7 DEF InMac
    <3>2. Matches(m, queue[m][d])'
      BY <1>1, <2>4, <2>5, <2>6, <2>8 DEF Matches, Available
    <3>3. SenderOK(m)'
      BY <1>3, <3>1, <3>2, SenderOne
    <3>4. OnlyAt(m)
      BY <1>1, <2>6, <2>8, Zenon DEF OnlyAt
    <3> QED BY <3>3, <3>4, SendersElsewhere
  <2>12. ClaimsAreCovered => ClaimsAreCovered'
    BY <1>1, <2>10, KeepsCovered
  <2> QED BY <1>1, <1>2, <2>9, <2>11, <2>12 DEF AgreementInv
<1>5. CASE /\ queue' = Free(m, b)
           /\ six2six_state' = [six2six_state EXCEPT ![m] = "ADDREQUEST_RECEIVED"]
  <2>1. /\ queue'[m][b].owner = "NULL"
        /\ \A x \in Motes, d \in Buffers : ~(x = m /\ d = b) => queue'[x][d] = queue[x][d]
        /\ Singles'
        /\ \A x \in Motes, d \in Buffers : InMac(queue'[x][d]) => queue'[x][d] = queue[x][d]
    BY <1>1, <1>5, FreedCommand DEF AgreementInv
  <2>2. \A x \in Motes : x # m => six2six_state'[x] = six2six_state[x]
    BY <1>5, TypeFacts DEF AgreementInv
  <2>3. KeepsClaims
    BY <1>1, <2>1 DEF KeepsClaims, Lasting
  <2>4. SendersOK => SendersOK'
    <3> SUFFICES ASSUME SendersOK PROVE SendersOK'
      OBVIOUS
    <3>1. SenderOK(m)'
      <4>1. \A d \in Buffers : ~InMac(queue'[m][d])
        BY <1>3, <2>1, Zenon
      <4> QED BY <1>3, <4>1, SenderIdle
    <3>2. OnlyAt(m)
      BY <1>1, <2>1, <2>2, Zenon DEF OnlyAt
    <3> QED BY <3>1, <3>2, SendersElsewhere
  <2>5. ClaimsAreCovered => ClaimsAreCovered'
    BY <1>1, <2>3, KeepsCovered
  <2> QED BY <1>1, <1>2, <2>1, <2>4, <2>5 DEF AgreementInv
<1> QED BY <1>4, <1>5 DEF ReceiveAddRequest

-----------------------------------------------------------------------------
(* When a command leaves its buffer, its claim is gone: the excuse it may     *)
(* have had is free for another one.                                          *)
Excuses(X, Y, U, V, h, b) ==
    X \subseteq U /\ Y \ {<<h, b>>} \subseteq V /\ queue'[h][b].owner = "NULL"

LEMMA CountsShrink ==
    ASSUME NEW X, NEW Y, NEW U, NEW V, NEW h0, NEW b0, Excuses(X, Y, U, V, h0, b0),
           KeepsClaims,
           NEW m \in Motes, NEW s, NEW r \in Motes
    PROVE  /\ (TxCell(s, r) \in cells'[m] => TxCell(s, r) \in cells[m]) =>
                (CellCounts(U, m, s, r)' => CellCounts(X, m, s, r))
           /\ \A h \in Motes, b \in Buffers :
                CopyCounts(V, h, b, m, s, r)' => CopyCounts(Y, h, b, m, s, r) /\ ~(h = h0 /\ b = b0)
           /\ (RxCell(s, m) \in cells[r] => RxCell(s, m) \in cells'[r]) =>
                (Covered(m, s, r) => Covered(m, s, r)')
<1>1. (TxCell(s, r) \in cells'[m] => TxCell(s, r) \in cells[m]) =>
        (CellCounts(U, m, s, r)' => CellCounts(X, m, s, r))
  <2> USE DEF Excuses
  <2>1. \A b \in Buffers : Retires(queue[m][b], s) => Retires(queue'[m][b], s)
    BY DEF KeepsClaims, Retires, Lasting
  <2>2. \A a : a \in X => a \in U
    OBVIOUS
  <2> QED BY <2>1, <2>2, Zenon DEF CellCounts, CellClaims
<1>2. ASSUME NEW h \in Motes, NEW b \in Buffers, CopyCounts(V, h, b, m, s, r)'
      PROVE  CopyCounts(Y, h, b, m, s, r) /\ ~(h = h0 /\ b = b0)
  <2> USE DEF Excuses
  <2>1. Claims(h, queue'[h][b], m, s, r) /\ <<h, b>> \notin V
    BY <1>2, Zenon DEF CopyCounts
  <2>2. queue'[h][b].owner = "RECEIVED"
    BY <2>1 DEF Claims
  <2>3. Claims(h, queue[h][b], m, s, r)
    BY <2>1, <2>2, Zenon DEF KeepsClaims
  <2>4. ~(h = h0 /\ b = b0)
    BY <2>2
  <2>5. <<h, b>> \notin Y
    BY <2>1, <2>4
  <2> QED BY <2>3, <2>4, <2>5 DEF CopyCounts
<1>3. (RxCell(s, m) \in cells[r] => RxCell(s, m) \in cells'[r]) =>
        (Covered(m, s, r) => Covered(m, s, r)')
  <2>1. \A b \in Buffers : Grants(queue[r][b], m, s) => Grants(queue'[r][b], m, s)
    BY DEF KeepsClaims, Grants, Lasting
  <2> QED BY <2>1, Zenon DEF Covered
<1> QED BY <1>1, <1>2, <1>3

(* The claim of a response moves to the cell the initiator books from it.     *)
LEMMA BookedClaims ==
    ASSUME SixtopInv, Singles, ClaimsAreCovered, KeepsClaims, UNCHANGED acksLost,
           NEW m \in Motes, NEW b \in Owned(m, "RECEIVED"), queue[m][b].opcode = "RESPONSE",
           queue'[m][b].owner = "NULL", NEW n \in Motes, queue[m][b].neighbor = n,
           \A x \in Motes : x # m => cells'[x] = cells[x],
           \A c : c \in cells'[m] <=>
                \/ c \in cells[m]
                \/ \E s \in queue[m][b].cells :
                     c = [slotOffset |-> s, type |-> "TX", neighbor |-> n]
    PROVE  ClaimsAreCovered'
<1>1. PICK X, Y : Within(X, Y, acksLost) /\ AllBalanced(X, Y)
  BY DEF ClaimsAreCovered
<1>2. b \in Buffers /\ queue[m][b].owner = "RECEIVED" /\ queue[m][b].cells \subseteq FreeSlots
  BY ReceivedFacts DEF Owned
<1>3. PICK S : S = queue[m][b].cells
  OBVIOUS
<1>4. \A s, t \in S : s = t
  BY <1>2, <1>3 DEF Singles, Single
<1>5. \A x \in Motes, s \in FreeSlots, r \in Motes :
        TxCell(s, r) \in cells'[x] => TxCell(s, r) \in cells[x] \/ (x = m /\ s \in S /\ r = n)
  <2>1. ASSUME NEW s, NEW r, NEW t, TxCell(s, r) = [slotOffset |-> t, type |-> "TX", neighbor |-> n]
        PROVE  s = t /\ r = n
    BY <2>1, CellFields DEF TxCell
  <2>2. ASSUME NEW x \in Motes, NEW s \in FreeSlots, NEW r \in Motes,
               TxCell(s, r) \in cells'[x], TxCell(s, r) \notin cells[x]
        PROVE  x = m /\ s \in S /\ r = n
    <3>1. x = m
      BY <2>2, Zenon
    <3>2. PICK t \in S : TxCell(s, r) = [slotOffset |-> t, type |-> "TX", neighbor |-> n]
      BY <1>3, <2>2, <3>1, Zenon
    <3> QED BY <2>1, <3>1, <3>2
  <2> QED BY <2>2
<1>6. \A x \in Motes : \A c : c \in cells[x] => c \in cells'[x]
  BY Zenon
<1>7. acksLost \in Nat
  BY DEF SixtopInv, SixtopTypeOK
<1>8. CASE <<m, b>> \notin Y
  <2>0. Excuses(X, Y, X, Y, m, b)
    BY DEF Excuses
  <2>1. ASSUME NEW x \in Motes, NEW r \in Motes, NEW s \in FreeSlots
        PROVE  Balanced(X, Y, x, s, r)'
    <3>1. Balanced(X, Y, x, s, r)
      BY <1>1 DEF AllBalanced
    <3>2. CASE ~(x = m /\ s \in S /\ r = n)
      BY <1>5, <1>6, <3>1, <3>2, KeepsCounts
    <3>3. CASE x = m /\ s \in S /\ r = n
      <4>1. CopyCounts(Y, m, b, x, s, r)
        BY <1>2, <1>3, <1>8, <3>3 DEF CopyCounts, Claims
      <4>2. /\ Covered(x, s, r)
            /\ \A k \in Motes, d \in Buffers : CopyCounts(Y, k, d, x, s, r) => k = m /\ d = b
        BY <1>2, <3>1, <4>1, Zenon DEF Balanced
      <4>3. \A k \in Motes, d \in Buffers : ~CopyCounts(Y, k, d, x, s, r)'
        BY <2>0, <4>2, CountsShrink
      <4>4. Covered(x, s, r)'
        BY <1>6, <2>0, <4>2, CountsShrink
      <4> QED BY <4>3, <4>4, Zenon DEF Balanced
    <3> QED BY <3>2, <3>3
  <2>2. AllBalanced(X, Y)'
    BY <2>1, Zenon DEF AllBalanced
  <2> QED BY <1>1, <2>2 DEF ClaimsAreCovered
<1>9. CASE <<m, b>> \in Y
  <2>1. PICK t : S \subseteq {t}
    BY <1>4
  <2>2. PICK U, V : U = X \cup {<<m, TxCell(t, n)>>} /\ V = Y \ {<<m, b>>}
    OBVIOUS
  <2>3. Within(U, V, acksLost)
    BY <1>1, <1>7, <1>9, <2>2, WithinMoves
  <2>4. Excuses(X, Y, U, V, m, b)
    BY <2>2 DEF Excuses
  <2>5. ASSUME NEW x \in Motes, NEW r \in Motes, NEW s \in FreeSlots
        PROVE  Balanced(U, V, x, s, r)'
    <3>1. CellCounts(U, x, s, r)' => CellCounts(X, x, s, r)
      <4>1. CASE x = m /\ s \in S /\ r = n
        <5>1. <<x, TxCell(s, r)>> \in U
          BY <2>1, <2>2, <4>1
        <5> QED BY <5>1 DEF CellCounts
      <4>2. CASE ~(x = m /\ s \in S /\ r = n)
        BY <1>5, <2>4, <4>2, CountsShrink
      <4> QED BY <4>1, <4>2
    <3>2. /\ \A h \in Motes, d \in Buffers :
               CopyCounts(V, h, d, x, s, r)' => CopyCounts(Y, h, d, x, s, r)
          /\ Covered(x, s, r) => Covered(x, s, r)'
      BY <1>6, <2>4, CountsShrink
    <3>3. Balanced(X, Y, x, s, r)
      BY <1>1 DEF AllBalanced
    <3> QED BY <3>1, <3>2, <3>3, BalanceKept
  <2>6. AllBalanced(U, V)'
    BY <2>5, Zenon DEF AllBalanced
  <2> QED BY <2>3, <2>6 DEF ClaimsAreCovered
<1> QED BY <1>8, <1>9

(* A request to release a cell takes the RX cell with it: if it was excused,  *)
(* its excuse passes to the claim it leaves uncovered.                        *)
LEMMA ReleasedClaims ==
    ASSUME SixtopInv, Singles, ClaimsAreCovered, KeepsClaims, UNCHANGED acksLost,
           NEW m \in Motes, NEW b \in Owned(m, "RECEIVED"), queue[m][b].opcode = "REMOVE",
           queue'[m][b].owner = "NULL", NEW n \in Motes, queue[m][b].neighbor = n,
           \A x \in Motes : x # m => cells'[x] = cells[x],
           \A c : c \in cells'[m] <=>
                c \in cells[m] /\ ~(c.slotOffset \in queue[m][b].cells /\ c.neighbor = n)
    PROVE  ClaimsAreCovered'
<1>1. PICK X, Y : Within(X, Y, acksLost) /\ AllBalanced(X, Y)
  BY DEF ClaimsAreCovered
<1>2. b \in Buffers /\ queue[m][b].owner = "RECEIVED" /\ queue[m][b].cells \subseteq FreeSlots
  BY ReceivedFacts DEF Owned
<1>3. PICK S : S = queue[m][b].cells
  OBVIOUS
<1>4. \A s, t \in S : s = t
  BY <1>2, <1>3 DEF Singles, Single
<1>5. \A x \in Motes : \A c : c \in cells'[x] => c \in cells[x]
  BY Zenon
<1>6. \A x \in Motes, s \in FreeSlots, r \in Motes :
        RxCell(s, x) \in cells[r] => RxCell(s, x) \in cells'[r] \/ (x = n /\ s \in S /\ r = m)
  <2>1. \A x \in Motes, s \in FreeSlots : RxCell(s, x).slotOffset = s /\ RxCell(s, x).neighbor = x
    BY CellFields
  <2>2. ASSUME NEW x \in Motes, NEW s \in FreeSlots, NEW r \in Motes,
               RxCell(s, x) \in cells[r], RxCell(s, x) \notin cells'[r]
        PROVE  x = n /\ s \in S /\ r = m
    <3>1. r = m
      BY <2>2, Zenon
    <3>2. RxCell(s, x).slotOffset \in S /\ RxCell(s, x).neighbor = n
      BY <1>3, <2>2, <3>1, Zenon
    <3> QED BY <2>1, <3>1, <3>2
  <2> QED BY <2>2
<1>7. acksLost \in Nat
  BY DEF SixtopInv, SixtopTypeOK
<1>8. ASSUME NEW U, NEW V, Within(U, V, acksLost), Excuses(X, Y, U, V, m, b),
             \A s \in S : /\ ~CellCounts(U, n, s, m)'
                          /\ \A h \in Motes, d \in Buffers : ~CopyCounts(V, h, d, n, s, m)'
      PROVE  ClaimsAreCovered'
  <2>1. ASSUME NEW x \in Motes, NEW r \in Motes, NEW s \in FreeSlots
        PROVE  Balanced(U, V, x, s, r)'
    <3>1. CASE x = n /\ s \in S /\ r = m
      BY <1>8, <3>1, UnclaimedBalanced
    <3>2. CASE ~(x = n /\ s \in S /\ r = m)
      <4>1. Balanced(X, Y, x, s, r)
        BY <1>1 DEF AllBalanced
      <4>2. /\ CellCounts(U, x, s, r)' => CellCounts(X, x, s, r)
            /\ \A h \in Motes, d \in Buffers :
                 CopyCounts(V, h, d, x, s, r)' => CopyCounts(Y, h, d, x, s, r)
            /\ Covered(x, s, r) => Covered(x, s, r)'
        BY <1>5, <1>6, <1>8, <3>2, CountsShrink
      <4> QED BY <4>1, <4>2, BalanceKept
    <3> QED BY <3>1, <3>2
  <2>2. AllBalanced(U, V)'
    BY <2>1, Zenon DEF AllBalanced
  <2>3. Within(U, V, acksLost')
    BY <1>8
  <2> QED BY <2>2, <2>3 DEF ClaimsAreCovered
<1>9. ASSUME NEW U, NEW V, Excuses(X, Y, U, V, m, b), NEW s \in S
      PROVE  /\ CellCounts(U, n, s, m)' => CellCounts(X, n, s, m)
             /\ \A h \in Motes, d \in Buffers :
                  CopyCounts(V, h, d, n, s, m)' => CopyCounts(Y, h, d, n, s, m) /\ ~(h = m /\ d = b)
  BY <1>5, <1>9, CountsShrink
<1>10. Excuses(X, Y, X, Y, m, b)
  BY DEF Excuses
<1>11. CASE <<m, b>> \notin Y
  <2>1. ASSUME NEW s \in S
        PROVE  /\ ~CellCounts(X, n, s, m)'
               /\ \A h \in Motes, d \in Buffers : ~CopyCounts(Y, h, d, n, s, m)'
    <3>1. Balanced(X, Y, n, s, m)
      BY <1>1, <1>2, <1>3 DEF AllBalanced
    <3>2. CopyCounts(Y, m, b, n, s, m)
      BY <1>2, <1>3, <1>11 DEF CopyCounts, Claims
    <3>3. /\ ~CellCounts(X, n, s, m)
          /\ \A h \in Motes, d \in Buffers : CopyCounts(Y, h, d, n, s, m) => h = m /\ d = b
      BY <1>2, <3>1, <3>2, Zenon DEF Balanced
    <3> QED BY <1>9, <1>10, <3>3
  <2> QED BY <1>1, <1>8, <1>10, <2>1
<1>12. CASE <<m, b>> \in Y
  <2>1. CASE \E s \in S : CellCounts(X, n, s, m)
    <3>1. PICK t \in S : CellCounts(X, n, t, m)
      BY <2>1
    <3>2. PICK U, V : U = X \cup {<<n, TxCell(t, m)>>} /\ V = Y \ {<<m, b>>}
      OBVIOUS
    <3>3. Within(U, V, acksLost)
      BY <1>1, <1>7, <1>12, <3>2, WithinMoves
    <3>4. Excuses(X, Y, U, V, m, b)
      BY <3>2 DEF Excuses
    <3>5. ASSUME NEW s \in S
          PROVE  /\ ~CellCounts(U, n, s, m)'
                 /\ \A h \in Motes, d \in Buffers : ~CopyCounts(V, h, d, n, s, m)'
      <4>1. s = t
        BY <1>4
      <4>2. ~CellCounts(U, n, s, m)'
        BY <3>2, <4>1 DEF CellCounts
      <4>3. Balanced(X, Y, n, s, m)
        BY <1>1, <1>2, <1>3 DEF AllBalanced
      <4>4. \A h \in Motes, d \in Buffers : ~CopyCounts(Y, h, d, n, s, m)
        BY <3>1, <4>1, <4>3, Zenon DEF Balanced
      <4> QED BY <1>9, <3>4, <4>2, <4>4
    <3> QED BY <1>8, <3>3, <3>4, <3>5
  <2>2. CASE \E s \in S, h \in Motes, d \in Buffers : CopyCounts(Y, h, d, n, s, m)
    <3>1. PICK t \in S, k \in Motes, e \in Buffers : CopyCounts(Y, k, e, n, t, m)
      BY <2>2
    <3>2. PICK V : V = (Y \ {<<m, b>>}) \cup {<<k, e>>}
      OBVIOUS
    <3>3. Within(X, V, acksLost)
      BY <1>1, <1>7, <1>12, <3>2, WithinSwap
    <3>4. Excuses(X, Y, X, V, m, b)
      BY <3>2 DEF Excuses
    <3>5. ASSUME NEW s \in S
          PROVE  /\ ~CellCounts(X, n, s, m)'
                 /\ \A h \in Motes, d \in Buffers : ~CopyCounts(V, h, d, n, s, m)'
      <4>1. s = t
        BY <1>4
      <4>2. Balanced(X, Y, n, s, m)
        BY <1>1, <1>2, <1>3 DEF AllBalanced
      <4>3. /\ ~CellCounts(X, n, s, m)
            /\ \A h \in Motes, d \in Buffers : CopyCounts(Y, h, d, n, s, m) => h = k /\ d = e
        BY <3>1, <4>1, <4>2, Zenon DEF Balanced
      <4>4. ~CopyCounts(V, k, e, n, s, m)'
        BY <3>2 DEF CopyCounts
      <4> QED BY <1>9, <3>4, <4>3, <4>4
    <3> QED BY <1>8, <3>3, <3>4, <3>5
  <2>3. CASE ~(\E s \in S : CellCounts(X, n, s, m)) /\
             ~(\E s \in S, h \in Motes, d \in Buffers : CopyCounts(Y, h, d, n, s, m))
    BY <1>1, <1>8, <1>9, <1>10, <2>3
  <2> QED BY <2>1, <2>2, <2>3
<1> QED BY <1>11, <1>12

LEMMA ReceiveAddResponseAgrees ==
    ASSUME AgreementInv, SixtopInv', NEW m \in Motes, NEW b \in Owned(m, "RECEIVED"),
           queue[m][b].opcode = "RESPONSE",
           ReceiveAddResponse(m, b), UNCHANGED <<timeoutTasks, bounds>>
    PROVE  AgreementInv'
<1>1. /\ UNCHANGED <<timeoutTasks, acksLost, timeouts>> /\ queue' = Free(m, b)
      /\ b \in Buffers /\ queue[m][b].owner = "RECEIVED"
      /\ six2six_state[m] = "WAIT_ADDRESPONSE"
  BY DEF ReceiveAddResponse, bounds, Owned
<1>2. /\ queue'[m][b].owner = "NULL"
      /\ \A x \in Motes, d \in Buffers : ~(x = m /\ d = b) => queue'[x][d] = queue[x][d]
      /\ Singles'
      /\ \A x \in Motes, d \in Buffers : InMac(queue'[x][d]) => queue'[x][d] = queue[x][d]
  BY <1>1, FreedCommand DEF AgreementInv
<1>3. KeepsClaims
  BY <1>1, <1>2 DEF KeepsClaims, Lasting
<1>4. SendersOK => /\ timeoutTasks'[m] = 0 /\ ~hung[m]
                   /\ \A d \in Buffers : ~InMac(queue'[m][d])
  <2>1. SendersOK => SenderOK(m)
    BY DEF SendersOK
  <2>2. SenderOK(m) => \A d \in Buffers : ~InMac(queue[m][d])
    BY <1>1, NonePending DEF AgreementInv
  <2>3. (\A d \in Buffers : ~InMac(queue[m][d])) => \A d \in Buffers : ~InMac(queue'[m][d])
    BY <1>2, Zenon
  <2>4. SenderOK(m) => timeoutTasks'[m] = 0 /\ ~hung[m]
    BY <1>1 DEF SenderOK
  <2> QED BY <2>1, <2>2, <2>3, <2>4
<1>5. \A x \in Motes : x # m => six2six_state'[x] = six2six_state[x]
  BY TypeFacts DEF AgreementInv, ReceiveAddResponse
<1>6. ASSUME UNCHANGED hung, \A x \in Motes : x # m => cells'[x] = cells[x]
      PROVE  SendersOK => SendersOK'
  <2> SUFFICES ASSUME SendersOK PROVE SendersOK'
    OBVIOUS
  <2>1. SenderOK(m)'
    BY <1>4, <1>6, SenderIdle
  <2>2. OnlyAt(m)
    BY <1>1, <1>2, <1>5, <1>6, Zenon DEF OnlyAt
  <2> QED BY <2>1, <2>2, SendersElsewhere
<1>7. CASE UNCHANGED <<cells, hung>>
  <2>1. SlotsOnce'
    BY <1>7, Zenon DEF AgreementInv, SlotsOnce
  <2>2. ClaimsAreCovered => ClaimsAreCovered'
    BY <1>1, <1>3, <1>7, KeepsCovered
  <2> QED BY <1>1, <1>2, <1>6, <1>7, <2>1, <2>2 DEF AgreementInv
<1>8. CASE /\ \A s \in queue[m][b].cells : Available(m, s)
           /\ Book(m, queue[m][b].cells, "TX", queue[m][b].neighbor)
  <2>1. PICK n \in Motes : queue[m][b].neighbor = n
    BY ReceivedFacts DEF AgreementInv
  <2>2. /\ UNCHANGED hung
        /\ \A x \in Motes : x # m => cells'[x] = cells[x]
        /\ \A c : c \in cells'[m] <=>
             \/ c \in cells[m]
             \/ \E s \in queue[m][b].cells :
                  c = [slotOffset |-> s, type |-> "TX", neighbor |-> n]
        /\ SlotsOnce => SlotsOnce'
    BY <1>8, <2>1, BookCells DEF AgreementInv
  <2>3. ClaimsAreCovered => ClaimsAreCovered'
    BY <1>1, <1>2, <1>3, <2>1, <2>2, BookedClaims DEF AgreementInv
  <2> QED BY <1>1, <1>2, <1>6, <2>2, <2>3 DEF AgreementInv
<1> QED BY <1>7, <1>8 DEF ReceiveAddResponse

LEMMA ReceiveRemoveRequestAgrees ==
    ASSUME AgreementInv, SixtopInv', NEW m \in Motes, NEW b \in Owned(m, "RECEIVED"),
           queue[m][b].opcode = "REMOVE",
           ReceiveRemoveRequest(m, b), UNCHANGED <<timeoutTasks, bounds>>
    PROVE  AgreementInv'
<1>1. /\ UNCHANGED <<timeoutTasks, acksLost, timeouts, six2six_state, hung>>
      /\ queue' = Free(m, b) /\ Release(m, queue[m][b].cells, queue[m][b].neighbor)
      /\ b \in Buffers /\ queue[m][b].owner = "RECEIVED" /\ six2six_state[m] = "IDLE"
  BY DEF ReceiveRemoveRequest, bounds, Owned
<1>2. /\ queue'[m][b].owner = "NULL"
      /\ \A x \in Motes, d \in Buffers : ~(x = m /\ d = b) => queue'[x][d] = queue[x][d]
      /\ Singles'
      /\ \A x \in Motes, d \in Buffers : InMac(queue'[x][d]) => queue'[x][d] = queue[x][d]
  BY <1>1, FreedCommand DEF AgreementInv
<1>3. KeepsClaims
  BY <1>1, <1>2 DEF KeepsClaims, Lasting
<1>4. PICK n \in Motes : queue[m][b].neighbor = n
  BY ReceivedFacts DEF AgreementInv
<1>5. /\ \A x \in Motes : x # m => cells'[x] = cells[x]
      /\ \A c : c \in cells'[m] <=>
           c \in cells[m] /\ ~(c.slotOffset \in queue[m][b].cells /\ c.neighbor = n)
      /\ SlotsOnce => SlotsOnce'
  BY <1>1, <1>4, ReleaseCells DEF AgreementInv
<1>6. ClaimsAreCovered => ClaimsAreCovered'
  BY <1>1, <1>2, <1>3, <1>4, <1>5, ReleasedClaims DEF AgreementInv
<1>7. SendersOK => SendersOK'
  <2> SUFFICES ASSUME SendersOK PROVE SendersOK'
    OBVIOUS
  <2>1. SenderOK(m)
    BY DEF SendersOK
  <2>2. \A d \in Buffers : ~InMac(queue[m][d])
    BY <1>1, <2>1, NonePending DEF AgreementInv
  <2>3. \A d \in Buffers : ~InMac(queue'[m][d])
    BY <1>2, <2>2, Zenon
  <2>4. timeoutTasks'[m] = 0 /\ ~hung'[m]
    BY <1>1, <2>1 DEF SenderOK
  <2>5. SenderOK(m)'
    BY <2>3, <2>4, SenderIdle
  <2>6. OnlyAt(m)
    BY <1>1, <1>2, <1>5, Zenon DEF OnlyAt
  <2> QED BY <2>5, <2>6, SendersElsewhere
<1> QED BY <1>1, <1>2, <1>5, <1>6, <1>7 DEF AgreementInv

LEMMA NotifReceiveAgrees ==
    ASSUME AgreementInv, SixtopInv', NEW m \in Motes, NotifReceive(m)
    PROVE  AgreementInv'
<1>1. PICK b \in Owned(m, "RECEIVED") : b = FirstOwned(m, "RECEIVED")
  BY FirstIsOwned DEF NotifReceive
<1>2. /\ UNCHANGED <<timeoutTasks, bounds>>
      /\ \/ ReceiveAddRequest(m, b)
         \/ queue[m][b].opcode = "RESPONSE" /\ ReceiveAddResponse(m, b)
         \/ queue[m][b].opcode = "REMOVE" /\ ReceiveRemoveRequest(m, b)
         \/ IgnoreCommand(m, b)
  BY <1>1, Zenon DEF NotifReceive
<1> QED BY <1>2, ReceiveAddRequestAgrees, ReceiveAddResponseAgrees, ReceiveRemoveRequestAgrees,
           IgnoreCommandAgrees

-----------------------------------------------------------------------------
(* The response is notified: the parent books what it has granted.            *)
LEMMA AnsweredClaims ==
    ASSUME SixtopInv, ClaimsAreCovered, UNCHANGED acksLost,
           NEW m \in Motes, NEW b \in Buffers,
           queue[m][b].owner = "SENT", queue[m][b].opcode = "RESPONSE",
           queue'[m][b].owner = "NULL",
           \A x \in Motes, d \in Buffers : ~(x = m /\ d = b) => queue'[x][d] = queue[x][d],
           \A x \in Motes : x # m => cells'[x] = cells[x],
           \A c : c \in cells'[m] <=>
                \/ c \in cells[m]
                \/ \E s \in queue[m][b].cells :
                     c = [slotOffset |-> s, type |-> "RX", neighbor |-> queue[m][b].neighbor]
    PROVE  ClaimsAreCovered'
<1>1. PICK X, Y : Within(X, Y, acksLost) /\ AllBalanced(X, Y)
  BY DEF ClaimsAreCovered
<1>2. ASSUME NEW x \in Motes, NEW r \in Motes, NEW s \in FreeSlots
      PROVE  Balanced(X, Y, x, s, r)'
  <2>1. Balanced(X, Y, x, s, r)
    BY <1>1 DEF AllBalanced
  <2>2. CellCounts(X, x, s, r)' => CellCounts(X, x, s, r)
    <3>1. \A d \in Buffers : Retires(queue[x][d], s) => Retires(queue'[x][d], s)
      <4>1. ~Retires(queue[m][b], s)
        BY DEF Retires
      <4> QED BY <4>1, Zenon
    <3>2. TxCell(s, r) \in cells'[x] => TxCell(s, r) \in cells[x]
      <4> SUFFICES ASSUME TxCell(s, r) \in cells'[x], TxCell(s, r) \notin cells[x]
                   PROVE  FALSE
        OBVIOUS
      <4>1. x = m
        BY Zenon
      <4>2. PICK t \in queue[m][b].cells :
              TxCell(s, r) = [slotOffset |-> t, type |-> "RX", neighbor |-> queue[m][b].neighbor]
        BY <4>1, Zenon
      <4> QED BY <4>2 DEF TxCell
    <3> QED BY <3>1, <3>2, Zenon DEF CellCounts, CellClaims
  <2>3. \A h \in Motes, d \in Buffers : CopyCounts(Y, h, d, x, s, r)' => CopyCounts(Y, h, d, x, s, r)
    <3>1. \A h \in Motes, d \in Buffers :
            Claims(h, queue'[h][d], x, s, r) => Claims(h, queue[h][d], x, s, r)
      <4>1. ~Claims(m, queue'[m][b], x, s, r)
        BY DEF Claims
      <4> QED BY <4>1, Zenon
    <3> QED BY <3>1, Zenon DEF CopyCounts
  <2>4. Covered(x, s, r) => Covered(x, s, r)'
    <3>1. CASE RxCell(s, x) \in cells[r]
      BY <3>1, Zenon DEF Covered
    <3>2. ASSUME NEW d \in Buffers, Grants(queue[r][d], x, s)
          PROVE  Covered(x, s, r)'
      <4>1. CASE r = m /\ d = b
        BY <3>2, <4>1, Zenon DEF Covered, Grants, RxCell
      <4>2. CASE ~(r = m /\ d = b)
        <5>1. Grants(queue'[r][d], x, s)
          BY <3>2, <4>2
        <5> QED BY <5>1, Zenon DEF Covered
      <4> QED BY <4>1, <4>2
    <3> QED BY <3>1, <3>2, Zenon DEF Covered
  <2> QED BY <2>1, <2>2, <2>3, <2>4, BalanceKept
<1>3. AllBalanced(X, Y)'
  BY <1>2, Zenon DEF AllBalanced
<1>4. Within(X, Y, acksLost')
  BY <1>1
<1> QED BY <1>3, <1>4 DEF ClaimsAreCovered

(* The release is notified: the child drops the cell it no longer holds.      *)
LEMMA DroppedClaims ==
    ASSUME SixtopInv, SlotsOnce, ClaimsAreCovered, UNCHANGED acksLost,
           NEW m \in Motes, NEW b \in Buffers, NEW n,
           queue[m][b].owner = "SENT", queue[m][b].opcode = "REMOVE", queue[m][b].neighbor = n,
           \A s \in queue[m][b].cells : TxCell(s, n) \in cells[m],
           queue'[m][b].owner = "NULL",
           \A x \in Motes, d \in Buffers : ~(x = m /\ d = b) => queue'[x][d] = queue[x][d],
           \A x \in Motes : x # m => cells'[x] = cells[x],
           \A c : c \in cells'[m] <=>
                c \in cells[m] /\ ~(c.slotOffset \in queue[m][b].cells /\ c.neighbor = n)
    PROVE  ClaimsAreCovered'
<1>1. PICK X, Y : Within(X, Y, acksLost) /\ AllBalanced(X, Y)
  BY DEF ClaimsAreCovered
<1>2. PICK S : S = queue[m][b].cells
  OBVIOUS
<1>3. ASSUME NEW x \in Motes, NEW r \in Motes, NEW s \in FreeSlots
      PROVE  Balanced(X, Y, x, s, r)'
  <2>1. Balanced(X, Y, x, s, r)
    BY <1>1 DEF AllBalanced
  <2>2. CellCounts(X, x, s, r)' => CellCounts(X, x, s, r)
    <3>1. TxCell(s, r) \in cells'[x] => TxCell(s, r) \in cells[x]
      BY Zenon
    <3>2. TxCell(s, r) \in cells'[x] =>
            \A d \in Buffers : Retires(queue[x][d], s) => Retires(queue'[x][d], s)
      <4> SUFFICES ASSUME TxCell(s, r) \in cells'[x], NEW d \in Buffers, Retires(queue[x][d], s)
                   PROVE  Retires(queue'[x][d], s)
        OBVIOUS
      <4>1. CASE x = m /\ d = b
        <5>1. s \in S
          BY <1>2, <4>1 DEF Retires
        <5>2. TxCell(s, n) \in cells[m] /\ TxCell(s, r) \in cells[m]
          BY <1>2, <3>1, <4>1, <5>1
        <5>3. TxCell(s, n) = TxCell(s, r)
          BY <5>2, CellFields DEF SlotsOnce
        <5>4. TxCell(s, r).slotOffset = s /\ TxCell(s, r).neighbor = n
          BY <5>3, CellFields
        <5> QED BY <1>2, <4>1, <5>1, <5>4
      <4>2. CASE ~(x = m /\ d = b)
        BY <4>2
      <4> QED BY <4>1, <4>2
    <3> QED BY <3>1, <3>2, Zenon DEF CellCounts, CellClaims
  <2>3. \A h \in Motes, d \in Buffers : CopyCounts(Y, h, d, x, s, r)' => CopyCounts(Y, h, d, x, s, r)
    <3>1. \A h \in Motes, d \in Buffers :
            Claims(h, queue'[h][d], x, s, r) => Claims(h, queue[h][d], x, s, r)
      <4>1. ~Claims(m, queue'[m][b], x, s, r)
        BY DEF Claims
      <4> QED BY <4>1, Zenon
    <3> QED BY <3>1, Zenon DEF CopyCounts
  <2>4. Covered(x, s, r) => Covered(x, s, r)'
    <3>1. CASE RxCell(s, x) \in cells[r]
      <4>1. CASE r # m
        BY <3>1, <4>1, Zenon DEF Covered
      <4>2. CASE r = m
        <5>1. ~(s \in S /\ x = n)
          <6>1. SUFFICES ASSUME s \in S PROVE FALSE
            OBVIOUS
          <6>2. TxCell(s, n) \in cells[m] /\ RxCell(s, x) \in cells[m]
            BY <1>2, <3>1, <4>2, <6>1
          <6>3. TxCell(s, n) = RxCell(s, x)
            BY <6>2, CellFields DEF SlotsOnce
          <6> QED BY <6>3, CellFields
        <5>2. RxCell(s, x) \in cells'[r]
          BY <1>2, <3>1, <4>2, <5>1, CellFields
        <5> QED BY <5>2, Zenon DEF Covered
      <4> QED BY <4>1, <4>2
    <3>2. ASSUME NEW d \in Buffers, Grants(queue[r][d], x, s)
          PROVE  Covered(x, s, r)'
      <4>1. ~(r = m /\ d = b)
        BY <3>2 DEF Grants
      <4>2. Grants(queue'[r][d], x, s)
        BY <3>2, <4>1
      <4> QED BY <4>2, Zenon DEF Covered
    <3> QED BY <3>1, <3>2, Zenon DEF Covered
  <2> QED BY <2>1, <2>2, <2>3, <2>4, BalanceKept
<1>4. AllBalanced(X, Y)'
  BY <1>3, Zenon DEF AllBalanced
<1>5. Within(X, Y, acksLost')
  BY <1>1
<1> QED BY <1>4, <1>5 DEF ClaimsAreCovered

LEMMA NotifSendDoneAgrees ==
    ASSUME AgreementInv, SixtopInv', NEW m \in Motes, NotifSendDone(m)
    PROVE  AgreementInv'
<1>1. ~hung[m] /\ UNCHANGED <<timeoutTasks, acksLost, timeouts>>
  BY DEF NotifSendDone, bounds
<1>2. PICK b \in Owned(m, "SENT") : b = FirstOwned(m, "SENT")
  BY FirstIsOwned DEF NotifSendDone
<1>3. /\ b \in Buffers /\ queue[m][b].owner = "SENT" /\ InMac(queue[m][b])
      /\ queue' = Free(m, b)
  BY <1>2 DEF Owned, NotifSendDone, InMac
<1>4. /\ queue'[m][b].owner = "NULL"
      /\ \A x \in Motes, d \in Buffers : ~(x = m /\ d = b) => queue'[x][d] = queue[x][d]
      /\ Singles'
      /\ \A x \in Motes, d \in Buffers : InMac(queue'[x][d]) => queue'[x][d] = queue[x][d]
  BY <1>3, FreedCommand DEF AgreementInv
<1>5. SendersOK => /\ timeoutTasks'[m] = 0 /\ Matches(m, queue[m][b])
                   /\ \A d \in Buffers : ~InMac(queue'[m][d])
  <2> SUFFICES ASSUME SenderOK(m)
               PROVE  /\ timeoutTasks'[m] = 0 /\ Matches(m, queue[m][b])
                      /\ \A d \in Buffers : ~InMac(queue'[m][d])
    BY DEF SendersOK
  <2>1. \A d \in Buffers : d # b => ~InMac(queue[m][d])
    BY <1>3 DEF SenderOK
  <2>2. \A d \in Buffers : ~InMac(queue'[m][d])
    BY <1>4, <2>1 DEF InMac
  <2> QED BY <1>1, <1>3, <2>2 DEF SenderOK
<1>6. queue[m][b] \in GoodPackets /\ queue[m][b].opcode \in {"ADD", "RESPONSE", "REMOVE"}
  <2>1. queue[m][b] \in GoodPackets
    BY <1>2, <1>3, TypeFacts, BufferFacts DEF AgreementInv
  <2> QED BY <2>1 DEF GoodPackets, Packet
<1>7. ASSUME UNCHANGED hung, \A x \in Motes : x # m => cells'[x] = cells[x],
             \A x \in Motes : x # m => six2six_state'[x] = six2six_state[x]
      PROVE  SendersOK => SendersOK'
  <2> SUFFICES ASSUME SendersOK PROVE SendersOK'
    OBVIOUS
  <2>1. SenderOK(m)'
    BY <1>1, <1>5, <1>7, SenderIdle
  <2>2. OnlyAt(m)
    BY <1>1, <1>4, <1>7, Zenon DEF OnlyAt
  <2> QED BY <2>1, <2>2, SendersElsewhere
<1>8. ASSUME UNCHANGED cells, SendersOK => ~Lasting(queue[m][b])
      PROVE  SlotsOnce' /\ (SendersOK /\ ClaimsAreCovered => ClaimsAreCovered')
  <2>1. SlotsOnce'
    BY <1>8, Zenon DEF AgreementInv, SlotsOnce
  <2>2. SendersOK => KeepsClaims
    BY <1>4, <1>8 DEF KeepsClaims
  <2> QED BY <1>1, <1>8, <2>1, <2>2, KeepsCovered
<1>9. CASE /\ ~queue[m][b].success
           /\ six2six_state' = [six2six_state EXCEPT ![m] = "IDLE"]
           /\ UNCHANGED <<cells, hung>>
  <2>1. \A x \in Motes : x # m => six2six_state'[x] = six2six_state[x]
    BY <1>9, TypeFacts DEF AgreementInv
  <2>2. ~Lasting(queue[m][b])
    BY <1>9 DEF Lasting
  <2>3. SendersOK => SendersOK'
    BY <1>7, <1>9, <2>1
  <2>4. SlotsOnce' /\ (SendersOK /\ ClaimsAreCovered => ClaimsAreCovered')
    BY <1>8, <1>9, <2>2
  <2> QED BY <1>1, <1>4, <2>3, <2>4 DEF AgreementInv
<1>10. CASE /\ six2six_state[m] \notin {"WAIT_ADDRESPONSE_SENDDONE", "WAIT_REMOVEREQUEST_SENDDONE"}
            /\ \/ six2six_state' = [six2six_state EXCEPT ![m] = "WAIT_ADDRESPONSE"]
               \/ UNCHANGED six2six_state
            /\ UNCHANGED <<cells, hung>>
  <2>1. \A x \in Motes : x # m => six2six_state'[x] = six2six_state[x]
    BY <1>10, TypeFacts DEF AgreementInv
  <2>2. SendersOK => ~Lasting(queue[m][b])
    BY <1>5, <1>6, <1>10 DEF Matches, Lasting
  <2>3. SendersOK => SendersOK'
    BY <1>7, <1>10, <2>1
  <2>4. SlotsOnce' /\ (SendersOK /\ ClaimsAreCovered => ClaimsAreCovered')
    BY <1>8, <1>10, <2>2
  <2> QED BY <1>1, <1>4, <2>3, <2>4 DEF AgreementInv
<1>11. CASE /\ six2six_state[m] = "WAIT_ADDRESPONSE_SENDDONE"
            /\ Book(m, queue[m][b].cells, "RX", queue[m][b].neighbor)
            /\ six2six_state' = [six2six_state EXCEPT ![m] = "IDLE"]
  <2>1. \A x \in Motes : x # m => six2six_state'[x] = six2six_state[x]
    BY <1>11, TypeFacts DEF AgreementInv
  <2>2. SendersOK => /\ queue[m][b].opcode = "RESPONSE"
                     /\ \A s \in queue[m][b].cells : Available(m, s)
    BY <1>5, <1>6, <1>11 DEF Matches
  <2>3. CASE ~\A s \in queue[m][b].cells : Available(m, s)
    <3>1. UNCHANGED cells /\ ~SendersOK
      BY <1>11, <2>2, <2>3 DEF Book
    <3>2. SlotsOnce'
      BY <3>1, Zenon DEF AgreementInv, SlotsOnce
    <3> QED BY <1>1, <1>4, <3>1, <3>2 DEF AgreementInv
  <2>4. CASE \A s \in queue[m][b].cells : Available(m, s)
    <3>1. /\ UNCHANGED hung
          /\ \A x \in Motes : x # m => cells'[x] = cells[x]
          /\ \A c : c \in cells'[m] <=>
               \/ c \in cells[m]
               \/ \E s \in queue[m][b].cells :
                    c = [slotOffset |-> s, type |-> "RX", neighbor |-> queue[m][b].neighbor]
          /\ SlotsOnce => SlotsOnce'
      BY <1>11, <2>4, BookCells DEF AgreementInv
    <3>2. SendersOK /\ ClaimsAreCovered => ClaimsAreCovered'
      BY <1>1, <1>3, <1>4, <2>2, <3>1, AnsweredClaims DEF AgreementInv
    <3>3. SendersOK => SendersOK'
      BY <1>7, <2>1, <3>1
    <3> QED BY <1>1, <1>4, <3>1, <3>2, <3>3 DEF AgreementInv
  <2> QED BY <2>3, <2>4
<1>12. CASE /\ six2six_state[m] = "WAIT_REMOVEREQUEST_SENDDONE"
            /\ Release(m, queue[m][b].cells, queue[m][b].neighbor)
            /\ six2six_state' = [six2six_state EXCEPT ![m] = "IDLE"]
            /\ UNCHANGED hung
  <2>1. \A x \in Motes : x # m => six2six_state'[x] = six2six_state[x]
    BY <1>12, TypeFacts DEF AgreementInv
  <2>2. PICK n : n = queue[m][b].neighbor
    OBVIOUS
  <2>3. SendersOK => /\ queue[m][b].opcode = "REMOVE"
                     /\ \A s \in queue[m][b].cells : TxCell(s, n) \in cells[m]
    BY <1>5, <1>6, <1>12, <2>2 DEF Matches
  <2>4. /\ \A x \in Motes : x # m => cells'[x] = cells[x]
        /\ \A c : c \in cells'[m] <=>
             c \in cells[m] /\ ~(c.slotOffset \in queue[m][b].cells /\ c.neighbor = n)
        /\ SlotsOnce => SlotsOnce'
    BY <1>12, <2>2, ReleaseCells DEF AgreementInv
  <2>5. SendersOK /\ ClaimsAreCovered => ClaimsAreCovered'
    BY <1>1, <1>3, <1>4, <2>2, <2>3, <2>4, DroppedClaims DEF AgreementInv
  <2>6. SendersOK => SendersOK'
    BY <1>7, <1>12, <2>1, <2>4
  <2> QED BY <1>1, <1>4, <2>4, <2>5, <2>6 DEF AgreementInv
<1>13. \/ /\ ~queue[m][b].success
          /\ six2six_state' = [six2six_state EXCEPT ![m] = "IDLE"]
          /\ UNCHANGED <<cells, hung>>
       \/ SendDoneSuccess(m, queue[m][b])
  BY <1>2, Zenon DEF NotifSendDone
<1> QED BY <1>9, <1>10, <1>11, <1>12, <1>13 DEF SendDoneSuccess

-----------------------------------------------------------------------------
(* The frame arrives.  Its copy is a claim: an acknowledged response covers   *)
(* it, an acknowledged release takes it over from the cell, and a lost        *)
(* acknowledgement excuses it.                                                *)
Arrives(m, b, p, n, d, q) ==
    /\ queue[m][b].owner = "TO_MAC" /\ queue'[m][b] = p /\ SameCommand(p, queue[m][b])
    /\ queue[n][d].owner = "NULL" /\ queue'[n][d] = q
    /\ q.owner = "RECEIVED" /\ q.neighbor = m
    /\ q.opcode = queue[m][b].opcode /\ q.cells = queue[m][b].cells
    /\ queue[m][b].neighbor = n
    /\ \A x \in Motes, y \in Buffers :
         (x # m \/ y # b) /\ (x # n \/ y # d) => queue'[x][y] = queue[x][y]

LEMMA ArrivalCounts ==
    ASSUME NEW m \in Motes, NEW b \in Buffers, NEW p, NEW n \in Motes, NEW d \in Buffers, NEW q,
           Arrives(m, b, p, n, d, q), InMac(p), UNCHANGED cells,
           NEW x \in Motes, NEW s, NEW r \in Motes
    PROVE  /\ CellClaims(x, s, r)' => CellClaims(x, s, r)
           /\ \A h \in Motes, y \in Buffers : Claims(h, queue'[h][y], x, s, r) =>
                \/ Claims(h, queue[h][y], x, s, r) /\ ~(h = n /\ y = d)
                \/ h = n /\ y = d /\ Claims(n, q, x, s, r)
           /\ Covered(x, s, r) => Covered(x, s, r)'
<1>1. \A h \in Motes, y \in Buffers :
        queue[h][y].owner = "SENT" => queue'[h][y] = queue[h][y]
  BY DEF Arrives
<1>2. CellClaims(x, s, r)' => CellClaims(x, s, r)
  <2>1. \A y \in Buffers : Retires(queue[x][y], s) => Retires(queue'[x][y], s)
    BY <1>1, Zenon DEF Retires
  <2> QED BY <2>1, Zenon DEF CellClaims
<1>3. Covered(x, s, r) => Covered(x, s, r)'
  <2>1. \A y \in Buffers : Grants(queue[r][y], x, s) => Grants(queue'[r][y], x, s)
    BY <1>1, Zenon DEF Grants
  <2> QED BY <2>1, Zenon DEF Covered
<1>4. ASSUME NEW h \in Motes, NEW y \in Buffers, Claims(h, queue'[h][y], x, s, r)
      PROVE  \/ Claims(h, queue[h][y], x, s, r) /\ ~(h = n /\ y = d)
             \/ h = n /\ y = d /\ Claims(n, q, x, s, r)
  <2>2. CASE h = n /\ y = d
    <3>1. queue'[h][y] = q
      BY <2>2 DEF Arrives
    <3> QED BY <1>4, <2>2, <3>1
  <2>3. CASE ~(h = n /\ y = d)
    <3>1. ~(h = m /\ y = b)
      <4>1. queue'[h][y].owner = "RECEIVED"
        BY <1>4 DEF Claims
      <4>2. queue'[m][b].owner # "RECEIVED"
        BY DEF Arrives, InMac
      <4> QED BY <4>1, <4>2
    <3>2. queue'[h][y] = queue[h][y]
      BY <2>3, <3>1 DEF Arrives
    <3> QED BY <1>4, <2>3, <3>2
  <2> QED BY <2>2, <2>3
<1> QED BY <1>2, <1>3, <1>4

(* A new copy that is excused, or claims nothing.                             *)
LEMMA UnclaimedArrival ==
    ASSUME NEW m \in Motes, NEW b \in Buffers, NEW p, NEW n \in Motes, NEW d \in Buffers, NEW q,
           Arrives(m, b, p, n, d, q), InMac(p), UNCHANGED cells,
           NEW X, NEW Y, NEW V, Y \subseteq V, AllBalanced(X, Y),
           <<n, d>> \in V \/ \A x, r \in Motes, s \in FreeSlots : ~Claims(n, q, x, s, r)
    PROVE  AllBalanced(X, V)'
<1>1. ASSUME NEW x \in Motes, NEW r \in Motes, NEW s \in FreeSlots
      PROVE  Balanced(X, V, x, s, r)'
  <2>1. Balanced(X, Y, x, s, r)
    BY DEF AllBalanced
  <2>2. /\ CellClaims(x, s, r)' => CellClaims(x, s, r)
        /\ \A h \in Motes, y \in Buffers : Claims(h, queue'[h][y], x, s, r) =>
             \/ Claims(h, queue[h][y], x, s, r) /\ ~(h = n /\ y = d)
             \/ h = n /\ y = d /\ Claims(n, q, x, s, r)
        /\ Covered(x, s, r) => Covered(x, s, r)'
    BY ArrivalCounts
  <2>3. CellCounts(X, x, s, r)' => CellCounts(X, x, s, r)
    BY <2>2 DEF CellCounts
  <2>4. \A h \in Motes, y \in Buffers : CopyCounts(V, h, y, x, s, r)' => CopyCounts(Y, h, y, x, s, r)
    BY <2>2 DEF CopyCounts
  <2> QED BY <2>1, <2>2, <2>3, <2>4, BalanceKept
<1> QED BY <1>1, Zenon DEF AllBalanced

(* The response and its acknowledgement arrive: nothing claimed the cell, the *)
(* parent having kept it free.                                                *)
LEMMA ResponseArrives ==
    ASSUME SixtopInv, NEW m \in Motes, SenderOK(m),
           NEW b \in Buffers, NEW p, NEW n \in Motes, NEW d \in Buffers, NEW q,
           Arrives(m, b, p, n, d, q), p.owner = "SENT", p.success, UNCHANGED cells,
           queue[m][b].opcode = "RESPONSE",
           NEW X, NEW Y, AllBalanced(X, Y)
    PROVE  AllBalanced(X, Y)'
<1>1. ASSUME NEW x \in Motes, NEW r \in Motes, NEW s \in FreeSlots
      PROVE  Balanced(X, Y, x, s, r)'
  <2>1. Balanced(X, Y, x, s, r) /\ InMac(p)
    BY DEF AllBalanced, InMac
  <2>2. /\ CellCounts(X, x, s, r)' => CellCounts(X, x, s, r)
        /\ \A h \in Motes, y \in Buffers : CopyCounts(Y, h, y, x, s, r)' =>
             \/ CopyCounts(Y, h, y, x, s, r) /\ ~(h = n /\ y = d)
             \/ h = n /\ y = d /\ Claims(n, q, x, s, r)
        /\ Covered(x, s, r) => Covered(x, s, r)'
    BY <2>1, ArrivalCounts DEF CellCounts, CopyCounts
  <2>3. CASE ~Claims(n, q, x, s, r)
    BY <2>1, <2>2, <2>3, BalanceKept
  <2>4. CASE Claims(n, q, x, s, r)
    <3>1. x = n /\ r = m /\ s \in queue[m][b].cells
      BY <2>4 DEF Claims, Arrives
    <3>2. Available(m, s)
      BY <3>1 DEF SenderOK, Arrives, InMac, Matches
    <3>3. RxCell(s, x) \notin cells[m]
      BY <3>2, CellFields DEF Available
    <3>4. \A y \in Buffers : ~Grants(queue[m][y], x, s)
      BY Zenon DEF SenderOK, Arrives, InMac, Grants
    <3>5. ~Covered(x, s, r)
      BY <3>1, <3>3, <3>4 DEF Covered
    <3>6. /\ ~CellCounts(X, x, s, r)
          /\ \A h \in Motes, y \in Buffers : ~CopyCounts(Y, h, y, x, s, r)
      BY <2>1, <3>5, Zenon DEF Balanced
    <3>7. Covered(x, s, r)'
      <4>1. Grants(queue'[m][b], x, s)
        BY <3>1 DEF Grants, Arrives, SameCommand
      <4> QED BY <3>1, <4>1, Zenon DEF Covered
    <3>8. /\ ~CellCounts(X, x, s, r)'
          /\ \A h \in Motes, y \in Buffers : CopyCounts(Y, h, y, x, s, r)' => h = n /\ y = d
      BY <2>2, <3>6
    <3> QED BY <3>7, <3>8, Zenon DEF Balanced
  <2> QED BY <2>3, <2>4
<1> QED BY <1>1, Zenon DEF AllBalanced

(* The release and its acknowledgement arrive: the claim passes from the cell *)
(* to the copy, and so does its excuse.                                       *)
LEMMA ReleaseArrives ==
    ASSUME SixtopInv, Singles, NEW m \in Motes, SenderOK(m),
           NEW b \in Buffers, NEW p, NEW n \in Motes, NEW d \in Buffers, NEW q,
           Arrives(m, b, p, n, d, q), p.owner = "SENT", p.success, UNCHANGED cells,
           queue[m][b].opcode = "REMOVE",
           NEW X, NEW Y, AllBalanced(X, Y), NEW k \in Nat, Within(X, Y, k)
    PROVE  \E U, V : Within(U, V, k) /\ AllBalanced(U, V)'
<1>1. PICK S : S = queue[m][b].cells
  OBVIOUS
<1>2. /\ InMac(queue[m][b]) /\ InMac(p) /\ p.cells = S /\ p.opcode = "REMOVE"
      /\ queue[m][b].neighbor = n /\ queue[m][b].owner = "TO_MAC"
      /\ queue'[m][b] = p /\ q.cells = S /\ q.opcode = "REMOVE" /\ q.neighbor = m
  BY <1>1 DEF Arrives, InMac, SameCommand
<1>3. /\ \A s \in S : TxCell(s, n) \in cells[m]
      /\ \A s, t \in S : s = t
  <2>1. Matches(m, queue[m][b])
    BY <1>2 DEF SenderOK
  <2>2. Single(queue[m][b])
    BY DEF Singles
  <2> QED BY <1>1, <1>2, <2>1, <2>2 DEF Matches, Single
<1>4. \A s \in S : /\ CellClaims(m, s, n) /\ ~CellClaims(m, s, n)'
  <2>1. \A y \in Buffers, s \in S : ~Retires(queue[m][y], s)
    BY <1>2, Zenon DEF SenderOK, InMac, Retires
  <2>2. \A s \in S : Retires(queue'[m][b], s)
    BY <1>2 DEF Retires
  <2> QED BY <1>3, <2>1, <2>2, Zenon DEF CellClaims
<1>5. \A x, r \in Motes, s \in FreeSlots :
        /\ CellClaims(x, s, r)' => CellClaims(x, s, r)
        /\ \A h \in Motes, y \in Buffers : Claims(h, queue'[h][y], x, s, r) =>
             \/ Claims(h, queue[h][y], x, s, r) /\ ~(h = n /\ y = d)
             \/ h = n /\ y = d /\ Claims(n, q, x, s, r)
        /\ Covered(x, s, r) => Covered(x, s, r)'
  <2>1. ASSUME NEW x \in Motes, NEW r \in Motes, NEW s \in FreeSlots
        PROVE  /\ CellClaims(x, s, r)' => CellClaims(x, s, r)
               /\ \A h \in Motes, y \in Buffers : Claims(h, queue'[h][y], x, s, r) =>
                    \/ Claims(h, queue[h][y], x, s, r) /\ ~(h = n /\ y = d)
                    \/ h = n /\ y = d /\ Claims(n, q, x, s, r)
               /\ Covered(x, s, r) => Covered(x, s, r)'
    <3>1. InMac(p)
      BY <1>2
    <3> QED BY <3>1, ArrivalCounts, Zenon
  <2> QED BY <2>1, Zenon
<1>6. \A x, r \in Motes, s \in FreeSlots : Claims(n, q, x, s, r) => x = m /\ r = n /\ s \in S
  BY <1>2 DEF Claims
<1>7. CASE \E s \in S : <<m, TxCell(s, n)>> \in X
  <2>1. PICK t \in S : <<m, TxCell(t, n)>> \in X
    BY <1>7
  <2>2. PICK U, V : U = X \ {<<m, TxCell(t, n)>>} /\ V = Y \cup {<<n, d>>}
    OBVIOUS
  <2>3. Within(U, V, k)
    BY <2>1, <2>2, WithinMoves
  <2>4. ASSUME NEW x \in Motes, NEW r \in Motes, NEW s \in FreeSlots
        PROVE  Balanced(U, V, x, s, r)'
    <3>1. Balanced(X, Y, x, s, r)
      BY DEF AllBalanced
    <3>2. CellCounts(U, x, s, r)' => CellCounts(X, x, s, r)
      <4> SUFFICES ASSUME CellCounts(U, x, s, r)'
                   PROVE  CellCounts(X, x, s, r)
        OBVIOUS
      <4>1. CellClaims(x, s, r)' /\ <<x, TxCell(s, r)>> \notin U
        BY DEF CellCounts
      <4>2. CASE <<x, TxCell(s, r)>> = <<m, TxCell(t, n)>>
        <5>1. x = m /\ TxCell(s, r) = TxCell(t, n)
          BY <4>2
        <5>2. s = t /\ r = n
          BY <5>1, CellFields
        <5> QED BY <1>4, <4>1, <5>1, <5>2
      <4>3. CASE <<x, TxCell(s, r)>> # <<m, TxCell(t, n)>>
        <5>1. <<x, TxCell(s, r)>> \notin X
          BY <2>2, <4>1, <4>3
        <5> QED BY <1>5, <4>1, <5>1 DEF CellCounts
      <4> QED BY <4>2, <4>3
    <3>3. \A h \in Motes, y \in Buffers :
            CopyCounts(V, h, y, x, s, r)' => CopyCounts(Y, h, y, x, s, r)
      <4>1. <<n, d>> \in V /\ \A a : a \in Y => a \in V
        BY <2>2
      <4> QED BY <1>5, <4>1 DEF CopyCounts
    <3> QED BY <1>5, <3>1, <3>2, <3>3, BalanceKept
  <2>5. AllBalanced(U, V)'
    BY <2>4, Zenon DEF AllBalanced
  <2> QED BY <2>3, <2>5
<1>8. CASE \A s \in S : <<m, TxCell(s, n)>> \notin X
  <2>1. ASSUME NEW x \in Motes, NEW r \in Motes, NEW s \in FreeSlots
        PROVE  Balanced(X, Y, x, s, r)'
    <3>1. Balanced(X, Y, x, s, r)
      BY DEF AllBalanced
    <3>2. /\ CellCounts(X, x, s, r)' => CellCounts(X, x, s, r)
          /\ \A h \in Motes, y \in Buffers : CopyCounts(Y, h, y, x, s, r)' =>
               \/ CopyCounts(Y, h, y, x, s, r)
               \/ h = n /\ y = d /\ Claims(n, q, x, s, r)
          /\ Covered(x, s, r) => Covered(x, s, r)'
      BY <1>5 DEF CellCounts, CopyCounts
    <3>3. CASE ~Claims(n, q, x, s, r)
      BY <3>1, <3>2, <3>3, BalanceKept
    <3>4. CASE Claims(n, q, x, s, r)
      <4>1. x = m /\ r = n /\ s \in S
        BY <1>6, <3>4
      <4>2. CellCounts(X, x, s, r) /\ ~CellClaims(x, s, r)'
        BY <1>4, <1>8, <4>1 DEF CellCounts
      <4>3. /\ Covered(x, s, r)
            /\ \A h \in Motes, y \in Buffers : ~CopyCounts(Y, h, y, x, s, r)
        BY <3>1, <4>2, Zenon DEF Balanced
      <4>4. /\ ~CellCounts(X, x, s, r)' /\ Covered(x, s, r)'
            /\ \A h \in Motes, y \in Buffers : CopyCounts(Y, h, y, x, s, r)' => h = n /\ y = d
        BY <3>2, <4>2, <4>3 DEF CellCounts
      <4> QED BY <4>4, Zenon DEF Balanced
    <3> QED BY <3>3, <3>4
  <2>2. AllBalanced(X, Y)'
    BY <2>1, Zenon DEF AllBalanced
  <2> QED BY <2>2
<1> QED BY <1>7, <1>8

LEMMA FrameDeliveredAgrees ==
    ASSUME AgreementInv, SixtopInv', NEW m \in Motes, NEW b \in Buffers, FrameDelivered(m, b)
    PROVE  AgreementInv'
<1>1. PICK n : n = queue[m][b].neighbor
  OBVIOUS
<1>2. /\ UNCHANGED <<six2six_state, timeoutTasks, cells, hung, timeouts>>
      /\ b \in Owned(m, "TO_MAC") /\ n \in Motes /\ Owned(n, "NULL") # {}
  BY <1>1 DEF FrameDelivered, MacMaySend, MayReceive
<1>3. /\ queue[m][b] \in GoodPackets /\ queue[m][b].owner = "TO_MAC" /\ InMac(queue[m][b])
      /\ PacketsOK
  BY <1>2, TypeFacts, BufferFacts DEF AgreementInv, InMac
<1>4. PICK d \in Buffers : d = FirstOwned(n, "NULL") /\ queue[n][d].owner = "NULL"
  BY <1>2, FirstIsOwned DEF Owned
<1>5. m # n \/ b # d
  BY <1>3, <1>4
<1>6. PICK q : q = Received(m, queue[m][b])
  OBVIOUS
<1>7. /\ q.opcode = queue[m][b].opcode /\ q.cells = queue[m][b].cells
      /\ q.neighbor = m /\ q.owner = "RECEIVED"
  BY <1>3, <1>6, AttemptKeepsCommand
<1>8. PICK p : /\ queue' = Put(Put(queue, m, b, p), n, d, q)
               /\ SameCommand(p, queue[m][b]) /\ InMac(p)
               /\ \/ p.owner = "SENT" /\ p.success /\ UNCHANGED acksLost
                  \/ acksLost' = acksLost + 1
  <2>1. \/ /\ queue' = Put(Put(queue, m, b, Acknowledged(queue[m][b])), n, d, q)
           /\ UNCHANGED acksLost
        \/ /\ queue' = Put(Put(queue, m, b, Unacknowledged(queue[m][b])), n, d, q)
           /\ acksLost' = acksLost + 1
    BY <1>1, <1>4, <1>6, Zenon DEF FrameDelivered, Put
  <2>2. /\ SameCommand(Unacknowledged(queue[m][b]), queue[m][b])
        /\ SameCommand(Acknowledged(queue[m][b]), queue[m][b])
        /\ InMac(Unacknowledged(queue[m][b])) /\ InMac(Acknowledged(queue[m][b]))
        /\ Acknowledged(queue[m][b]).owner = "SENT" /\ Acknowledged(queue[m][b]).success
    BY <1>3, AttemptKeepsCommand DEF InMac
  <2> QED BY <2>1, <2>2, Zenon
<1>9. /\ queue'[m][b] = p /\ queue'[n][d] = q
      /\ \A x \in Motes, y \in Buffers :
           (x # m \/ y # b) /\ (x # n \/ y # d) => queue'[x][y] = queue[x][y]
  <2>1. PICK g : g = Put(queue, m, b, p)
    OBVIOUS
  <2>2. queue' = Put(g, n, d, q)
    BY <1>8, <2>1
  <2>3. /\ g[m][b] = p /\ g \in [Motes -> [Buffers -> Contents \cup {p}]]
        /\ \A x \in Motes, y \in Buffers : (x # m \/ y # b) => g[x][y] = queue[x][y]
    BY ONLY <1>3, <2>1, m \in Motes, b \in Buffers DEF Put, PacketsOK
  <2>4. PICK W : W = Contents \cup {p}
    OBVIOUS
  <2>5. /\ queue'[n][d] = q
        /\ \A x \in Motes, y \in Buffers : (x # n \/ y # d) => queue'[x][y] = g[x][y]
    <3>1. g \in [Motes -> [Buffers -> W]]
      BY <2>3, <2>4
    <3> QED BY ONLY <1>2, <2>2, <3>1, d \in Buffers DEF Put
  <2> QED BY ONLY <1>5, <2>3, <2>5, m \in Motes, b \in Buffers
<1>10. Arrives(m, b, p, n, d, q)
  BY <1>1, <1>3, <1>4, <1>7, <1>8, <1>9 DEF Arrives
<1>11. SlotsOnce'
  BY <1>2, Zenon DEF AgreementInv, SlotsOnce
<1>12. Single(queue[m][b]) /\ Single(p) /\ Single(q)
  <2>1. Single(queue[m][b])
    BY DEF AgreementInv, Singles
  <2> QED BY <1>3, <1>7, <1>8, <2>1, SingleCommand DEF Single
<1>13. Singles'
  <2>1. \A x \in Motes, y \in Buffers : queue'[x][y] = queue[x][y] \/ Single(queue'[x][y])
    BY <1>9, <1>12
  <2> QED BY <2>1, SinglesKept DEF AgreementInv
<1>14. SendersOK => SendersOK'
  <2> SUFFICES ASSUME SendersOK PROVE SendersOK'
    OBVIOUS
  <2>1. SenderOK(m) /\ ~InMac(q)
    BY <1>7 DEF SendersOK, InMac
  <2>2. \A x \in Motes, y \in Buffers :
          (x # m \/ y # b) /\ InMac(queue'[x][y]) => queue'[x][y] = queue[x][y]
    BY <1>9, <2>1, Zenon
  <2>3. SenderOK(m)'
    <3>1. \A y \in Buffers : y # b /\ InMac(queue'[m][y]) => queue'[m][y] = queue[m][y]
      BY <2>2
    <3>2. /\ six2six_state'[m] = six2six_state[m] /\ cells'[m] = cells[m]
          /\ hung'[m] = hung[m] /\ timeoutTasks'[m] = timeoutTasks[m]
      BY <1>2
    <3> QED BY <1>3, <1>8, <1>9, <2>1, <3>1, <3>2, SenderTries
  <2>4. OnlyAt(m)
    BY <1>2, <2>2, Zenon DEF OnlyAt
  <2> QED BY <2>3, <2>4, SendersElsewhere
<1>15. SendersOK /\ ClaimsAreCovered => ClaimsAreCovered'
  <2> SUFFICES ASSUME SendersOK, ClaimsAreCovered PROVE ClaimsAreCovered'
    OBVIOUS
  <2>1. PICK X, Y : Within(X, Y, acksLost) /\ AllBalanced(X, Y)
    BY DEF ClaimsAreCovered
  <2>2. SenderOK(m) /\ UNCHANGED cells /\ acksLost \in Nat
    BY <1>2 DEF SendersOK, AgreementInv, SixtopInv, SixtopTypeOK
  <2>3. CASE acksLost' = acksLost + 1
    <3>1. PICK V : V = Y \cup {<<n, d>>}
      OBVIOUS
    <3>2. Within(X, V, acksLost')
      BY <2>1, <2>2, <2>3, <3>1, WithinMoves
    <3>3. AllBalanced(X, V)'
      <4>1. Y \subseteq V /\ <<n, d>> \in V
        BY <3>1
      <4> QED BY <1>2, <1>8, <1>10, <2>1, <4>1, UnclaimedArrival
    <3> QED BY <3>2, <3>3 DEF ClaimsAreCovered
  <2>4. CASE p.owner = "SENT" /\ p.success /\ UNCHANGED acksLost
    <3>1. CASE queue[m][b].opcode = "ADD"
      <4>1. \A x, r \in Motes, s \in FreeSlots : ~Claims(n, q, x, s, r)
        BY <1>7, <3>1 DEF Claims
      <4>2. AllBalanced(X, Y)'
        BY <1>2, <1>8, <1>10, <2>1, <4>1, UnclaimedArrival
      <4> QED BY <2>1, <2>4, <4>2 DEF ClaimsAreCovered
    <3>2. CASE queue[m][b].opcode = "RESPONSE"
      <4>1. AllBalanced(X, Y)'
        BY <1>2, <1>10, <2>1, <2>2, <2>4, <3>2, ResponseArrives DEF AgreementInv
      <4> QED BY <2>1, <2>4, <4>1 DEF ClaimsAreCovered
    <3>3. CASE queue[m][b].opcode = "REMOVE"
      <4>1. \E U, V : Within(U, V, acksLost) /\ AllBalanced(U, V)'
        BY <1>2, <1>10, <2>1, <2>2, <2>4, <3>3, ReleaseArrives DEF AgreementInv
      <4> QED BY <2>4, <4>1 DEF ClaimsAreCovered
    <3> QED BY <1>3, <3>1, <3>2, <3>3 DEF GoodPackets, Packet
  <2> QED BY <1>8, <2>3, <2>4
<1> QED BY <1>2, <1>11, <1>13, <1>14, <1>15 DEF AgreementInv

LEMMA TimerAgrees ==
    ASSUME AgreementInv, SixtopInv', NEW m \in Motes, TimerFires(m) \/ TimeoutTask(m)
    PROVE  AgreementInv'
<1>1. UNCHANGED <<queue, cells>> /\ timeouts' \in {timeouts, timeouts + 1} /\ timeouts \in Nat
  BY DEF TimerFires, TimeoutTask, bounds, AgreementInv, SixtopInv, SixtopTypeOK
<1>2. SlotsOnce' /\ Singles'
  BY <1>1, Zenon DEF AgreementInv, SlotsOnce, Singles
<1>3. timeouts' # 0
  <2>1. CASE TimerFires(m)
    BY <1>1, <2>1 DEF TimerFires
  <2>2. CASE TimeoutTask(m)
    <3>1. timeoutTasks[m] > 0 /\ timeouts' = timeouts
      BY <2>2 DEF TimeoutTask, bounds
    <3> QED BY <1>1, <3>1 DEF AgreementInv, SendersOK, SenderOK
  <2> QED BY <2>1, <2>2
<1> QED BY <1>2, <1>3 DEF AgreementInv

LEMMA InitAgrees ==
    ASSUME Init
    PROVE  AgreementInv
<1>1. SixtopInv
  BY InitSixtopInv
<1>2. /\ \A m \in Motes : cells[m] = {}
      /\ \A m \in Motes, b \in Buffers : queue[m][b] = FreeBuffer
      /\ \A m \in Motes : timeoutTasks[m] = 0 /\ ~hung[m]
      /\ acksLost = 0
  BY DEF Init
<1>3. FreeBuffer.owner = "NULL"
  BY DEF FreeBuffer
<1>4. SlotsOnce /\ Singles
  BY <1>2, <1>3 DEF SlotsOnce, Singles, Single
<1>5. SendersOK
  BY <1>2, <1>3 DEF SendersOK, SenderOK, InMac
<1>6. ClaimsAreCovered
  <2>1. Within({}, {}, acksLost)
    BY <1>2, FS_EmptySet DEF Within
  <2>2. AllBalanced({}, {})
    BY <1>2, <1>3 DEF AllBalanced, Balanced, CellCounts, CellClaims, CopyCounts, Claims
  <2> QED BY <2>1, <2>2 DEF ClaimsAreCovered
<1> QED BY <1>1, <1>4, <1>5, <1>6 DEF AgreementInv

LEMMA NextAgrees ==
    ASSUME AgreementInv, SixtopInv', [Next]_vars
    PROVE  AgreementInv'
<1>1. CASE SwitchParent \/ UNCHANGED vars
  BY <1>1, ElsewhereAgrees
<1>2. ASSUME NEW m \in Motes, C6tRequest(m) \/ Task(m) \/ TimerFires(m)
      PROVE  AgreementInv'
  BY <1>2, C6tRequestAgrees, NotifReceiveAgrees, NotifSendDoneAgrees, OtfTaskAgrees,
     TimerAgrees DEF Task
<1>3. ASSUME NEW m \in Motes, Transmit(m)
      PROVE  AgreementInv'
  BY <1>3, FrameDeliveredAgrees, FrameLostAgrees DEF Transmit
<1> QED BY <1>1, <1>2, <1>3 DEF Next

(* Both ends of every negotiation keep their balance.                         *)
THEOREM SixtopBalance == Spec => []AgreementInv
<1>1. Init => AgreementInv
  BY InitAgrees
<1>2. AgreementInv /\ SixtopInv' /\ [Next]_vars => AgreementInv'
  BY NextAgrees
<1> QED BY <1>1, <1>2, SixtopInvariant, PTL DEF Spec

(* As long as no timeout cuts an exchange short, no sender is deaf beyond the *)
(* acknowledgements lost, and without a loss no two children collide.         *)
THEOREM SixtopSchedulesAgree == Spec => []SchedulesAgree
<1>1. AgreementInv => SchedulesAgree
  BY BalancedApart, BalancedHears DEF SchedulesAgree
<1> QED BY <1>1, SixtopBalance, PTL

(* Until then schedule_addActiveSlot always finds its offset free: no mote    *)
(* stops with its interrupts disabled.                                        *)
THEOREM SixtopRunsOn == Spec => [](timeouts = 0 => \A m \in Motes : ~hung[m])
<1>1. AgreementInv => (timeouts = 0 => \A m \in Motes : ~hung[m])
  BY DEF AgreementInv, SendersOK, SenderOK
<1> QED BY <1>1, SixtopBalance, PTL

(* A slot offset is booked once in a schedule, timeouts or not.               *)
THEOREM SixtopSlotsOnce == Spec => []SlotsOnce
<1>1. AgreementInv => SlotsOnce
  BY DEF AgreementInv
<1> QED BY <1>1, SixtopBalance, PTL
==============================================================================
