-------------------------- MODULE ForwardingProofs --------------------------
(***************************************************************************)
(* The packets of forwarding.c, iphc.c, openbridge.c and icmpv6echo.c, for *)
(* every network, every number of buffers and every hop limit: what a      *)
(* buffer may hold, and that no packet vanishes without a reason.          *)
(***************************************************************************)
EXTENDS Forwarding, FiniteSetTheorems, SequenceTheorems, WellFoundedInduction, TLAPS

-----------------------------------------------------------------------------
(* Facts about finite sets, sequences and the constants.                      *)

LEMMA LeastMember ==
    ASSUME NEW S, S \subseteq Nat, S # {}
    PROVE  \E m \in S : \A x \in S : m <= x
<1>1. IsWellFoundedOn(OpToRel(<, Nat), Nat)
  BY NatLessThanWellFounded, Zenon
<1>2. PICK m \in S : \A y \in S : ~(<<y, m>> \in OpToRel(<, Nat))
  BY <1>1, WFMin, Zenon
<1>3. \A y \in S : ~(y < m)
  BY <1>2, Zenon DEF OpToRel
<1> QED BY <1>3, SMT

LEMMA OneMore ==
    ASSUME NEW A, IsFiniteSet(A), NEW t, NEW B, B \subseteq A \cup {t}
    PROVE  IsFiniteSet(B) /\ Cardinality(B) <= Cardinality(A) + 1
<1>1. /\ IsFiniteSet(A \cup {t}) /\ Cardinality(A) \in Nat
      /\ Cardinality(A \cup {t}) <= Cardinality(A) + 1
  BY FS_AddElement, FS_CardinalityType
<1>2. IsFiniteSet(B) /\ Cardinality(B) <= Cardinality(A \cup {t})
  BY <1>1, FS_Subset
<1>3. Cardinality(A \cup {t}) \in Nat /\ Cardinality(B) \in Nat
  BY <1>1, <1>2, FS_CardinalityType
<1> QED BY <1>1, <1>2, <1>3

LEMMA OneLess ==
    ASSUME NEW A, IsFiniteSet(A), NEW s \in A, NEW B, B \subseteq A \ {s}
    PROVE  IsFiniteSet(B) /\ Cardinality(B) + 1 <= Cardinality(A)
<1>1. /\ IsFiniteSet(A \ {s}) /\ Cardinality(A) \in Nat
      /\ Cardinality(A \ {s}) = Cardinality(A) - 1
  BY FS_RemoveElement, FS_CardinalityType
<1>2. IsFiniteSet(B) /\ Cardinality(B) <= Cardinality(A \ {s})
  BY <1>1, FS_Subset
<1>3. Cardinality(B) \in Nat
  BY <1>2, FS_CardinalityType
<1> QED BY <1>1, <1>2, <1>3

LEMMA OneMoved ==
    ASSUME NEW A, IsFiniteSet(A), NEW s \in A, NEW t, NEW B, B \subseteq (A \ {s}) \cup {t}
    PROVE  IsFiniteSet(B) /\ Cardinality(B) <= Cardinality(A)
<1>1. /\ IsFiniteSet(A \ {s}) /\ Cardinality(A) \in Nat
      /\ Cardinality(A \ {s}) = Cardinality(A) - 1
  BY FS_RemoveElement, FS_CardinalityType
<1>2. IsFiniteSet(B) /\ Cardinality(B) <= Cardinality(A \ {s}) + 1
  BY <1>1, OneMore
<1>3. Cardinality(B) \in Nat
  BY <1>2, FS_CardinalityType
<1> QED BY <1>1, <1>2, <1>3

LEMMA SameInterval ==
    ASSUME NEW l \in Nat, NEW m \in Nat, 1 .. l = 1 .. m
    PROVE  l = m
<1>1. \A k \in Nat : k >= 1 => (k <= l <=> k <= m)
  OBVIOUS
<1>2. CASE l >= 1 /\ m >= 1
  BY <1>1, <1>2
<1>3. CASE l = 0 \/ m = 0
  BY <1>1, <1>3
<1> QED BY <1>2, <1>3

(* Routes are sequences of bounded length.                                    *)
LEMMA SeqOfFacts ==
    ASSUME NEW S, NEW n \in Nat, NEW s
    PROVE  s \in SeqOf(S, n) <=> s \in Seq(S) /\ Len(s) <= n
<1>1. ASSUME s \in SeqOf(S, n)
      PROVE  s \in Seq(S) /\ Len(s) <= n
  <2>1. PICK m \in 0 .. n : s \in [1 .. m -> S]
    BY <1>1 DEF SeqOf
  <2>2. s \in Seq(S)
    BY <2>1, SeqDef
  <2>3. DOMAIN s = 1 .. Len(s) /\ Len(s) \in Nat /\ DOMAIN s = 1 .. m /\ m \in Nat
    BY <2>1, <2>2, LenProperties
  <2>4. Len(s) = m
    BY <2>3, SameInterval
  <2> QED BY <2>1, <2>2, <2>4
<1>2. ASSUME s \in Seq(S), Len(s) <= n
      PROVE  s \in SeqOf(S, n)
  <2>1. Len(s) \in 0 .. n /\ s \in [1 .. Len(s) -> S]
    BY <1>2, LenProperties
  <2> QED BY <2>1 DEF SeqOf
<1> QED BY <1>1, <1>2

LEMMA PathFacts ==
    ASSUME NEW path \in Paths
    PROVE  /\ Head(path) \in Motes /\ Last(path) \in Motes
           /\ Tail(path) \in SeqOf(Motes, 2)
           /\ Len(path) \in 1 .. 3 /\ Len(Tail(path)) = Len(path) - 1
           /\ Len(path) = 1 => Head(path) = Last(path)
<1>1. path \in SeqOf(Motes, 3) /\ path # <<>>
  BY DEF Paths
<1>2. path \in Seq(Motes) /\ Len(path) <= 3
  BY <1>1, SeqOfFacts
<1>3. Len(path) \in 1 .. 3
  <2>1. Len(path) \in Nat /\ Len(path) # 0
    BY <1>1, <1>2
  <2>2. \A l \in Nat : l # 0 /\ l <= 3 => l \in 1 .. 3
    OBVIOUS
  <2> QED BY <1>2, <2>1, <2>2
<1>4. Tail(path) \in Seq(Motes) /\ Len(Tail(path)) = Len(path) - 1
  BY <1>1, <1>2
<1>5. Tail(path) \in SeqOf(Motes, 2)
  <2>1. Len(Tail(path)) <= 2
    <3>1. \A l \in 1 .. 3 : l - 1 <= 2
      OBVIOUS
    <3> QED BY <1>3, <1>4, <3>1
  <2> QED BY <1>4, <2>1, SeqOfFacts
<1>6. Head(path) = path[1] /\ path[1] \in Motes /\ path[Len(path)] \in Motes
  BY <1>1, <1>2, <1>3, ElementOfSeq
<1> QED BY <1>3, <1>4, <1>5, <1>6 DEF Last

LEMMA ConstantFacts ==
    /\ Root \in Nodes /\ Motes \subseteq Nodes /\ Root \notin Motes
    /\ \A n \in Nodes : n # Root => n \in Motes
    /\ \A n, k \in Nodes : k \in Linked(n) => k # n
    /\ \A n \in Nodes : Linked(n) \subseteq Nodes
    /\ Server \notin Nodes /\ NoHop \notin Nodes
    /\ Buffers \in Nat /\ HopLimit \in Nat /\ ServerHopLimit \in Nat /\ MaxCopies \in Nat
<1>1. ASSUME NEW n \in Nodes, NEW k \in Nodes, k \in Linked(n)
      PROVE  k # n
  <2>1. PICK x \in Nodes, y \in Nodes : x # y /\ {n, k} = {x, y}
    BY <1>1, ForwardingAssumption DEF Linked
  <2> QED BY <2>1
<1> QED BY <1>1, ForwardingAssumption DEF Nodes, Linked

LEMMA FirstIsFree ==
    ASSUME NEW n \in Nodes, FreeBuffers(n) # {}
    PROVE  /\ FirstFree(n) \in 1 .. Buffers
           /\ buf[n][FirstFree(n)] = Free
<1>1. FreeBuffers(n) \subseteq Nat
  BY DEF FreeBuffers
<1>2. PICK b \in FreeBuffers(n) : \A c \in FreeBuffers(n) : b =< c
  BY <1>1, LeastMember
<1>3. FirstFree(n) \in FreeBuffers(n)
  BY <1>2, Zenon DEF FirstFree, Min
<1> QED BY <1>3 DEF FreeBuffers

-----------------------------------------------------------------------------
(* What a buffer may hold.  A packet that has not gone in a circle counts its *)
(* hops by the motes it has seen; a command without a route goes to the next  *)
(* hop of the root and no further.                                            *)

Kinds    == {"request", "reply", "report", "command"}
Creators == {"echo", "udp", "bridge", "forwarding"}

PacketOf(states, k) ==
    [st : states, id : 1 .. k, kind : Kinds,
     src : Nodes \cup {Server}, dst : Motes \cup {Server},
     hops : (0 .. HopLimit) \cup (0 .. ServerHopLimit),
     routed : BOOLEAN, route : SeqOf(Motes, 2), left : 0 .. 2,
     creator : Creators, next : Nodes \cup {NoHop},
     seen : SUBSET Motes, circled : BOOLEAN]

OnAir == {"queued", "received"}
AnyState == {"new", "queued", "received"}

CountsHops(x) ==
    x.kind # "command" /\ ~x.circled =>
        IsFiniteSet(x.seen) /\ Cardinality(x.seen) + x.hops = HopLimit

Sound(x) ==
    /\ x.left <= Len(x.route)
    /\ x.kind = "request" => x.src \in Motes
    /\ x.kind = "command" => x.src = Server
    /\ x.routed => x.kind = "command"
    /\ CountsHops(x)

OneHop(n, x) ==
    x.kind = "command" /\ ~x.routed => (IF x.st = "queued" THEN x.next ELSE n) = x.dst

SentRecord == [st : {"sent"}, creator : Creators]

Good(n, x, k) ==
    \/ x = Free
    \/ x \in SentRecord
    \/ x \in PacketOf(OnAir, k) /\ Sound(x) /\ OneHop(n, x)

Live(x) == x.st \in OnAir

LEMMA GoodFacts ==
    ASSUME NEW n, NEW x, NEW k, Good(n, x, k)
    PROVE  /\ Live(x) <=> x \in PacketOf(OnAir, k)
           /\ Live(x) => Sound(x) /\ OneHop(n, x) /\ x.id \in 1 .. k
           /\ ~Live(Free) /\ Free.st = "free"
           /\ x.st = "sent" => x \in SentRecord
<1>1. ~Live(Free) /\ Free.st = "free"
  BY DEF Live, OnAir, Free
<1>2. CASE x = Free
  BY <1>1, <1>2 DEF PacketOf, Live
<1>3. CASE x \in SentRecord
  BY <1>1, <1>3 DEF SentRecord, PacketOf, Live, OnAir
<1>4. CASE x \in PacketOf(OnAir, k) /\ Sound(x) /\ OneHop(n, x)
  <2>1. Live(x) /\ x.id \in 1 .. k /\ x.st # "sent"
    BY <1>4 DEF PacketOf, Live, OnAir
  <2> QED BY <1>1, <1>4, <2>1
<1> QED BY <1>2, <1>3, <1>4 DEF Good

LEMMA PacketGrows ==
    ASSUME NEW k \in Nat, NEW j \in Nat, k <= j, NEW n, NEW x, Good(n, x, k)
    PROVE  Good(n, x, j)
<1>1. 1 .. k \subseteq 1 .. j
  OBVIOUS
<1>2. PacketOf(OnAir, k) \subseteq PacketOf(OnAir, j)
  BY <1>1 DEF PacketOf
<1> QED BY <1>2 DEF Good

LEMMA PacketIsPacketOf == Packet = PacketOf(OnAir, made)
BY DEF Packet, PacketOf, OnAir, Kinds, Creators

LEMMA SentIsGood ==
    ASSUME NEW n, NEW k, NEW j, NEW x \in PacketOf(AnyState, k)
    PROVE  Good(n, Sent(x), j) /\ ~Live(Sent(x)) /\ Sent(x).st = "sent"
BY DEF Good, Sent, SentRecord, PacketOf, Live, OnAir

LEMMA OnAirIsAny ==
    ASSUME NEW k, NEW x \in PacketOf(OnAir, k)
    PROVE  x \in PacketOf(AnyState, k)
BY DEF PacketOf, OnAir, AnyState

(* iphc_sendFromForwarding: one hop less, one mote more, or a circle.         *)
LEMMA QueuedIsGood ==
    ASSUME NEW n \in Motes, NEW k \in Nat, NEW p \in PacketOf(AnyState, k), Sound(p),
           p.hops # 0, NEW next \in Nodes, p.kind = "command" => p.routed, NEW m
    PROVE  /\ Good(m, Queued(n, p, next), k)
           /\ Live(Queued(n, p, next)) /\ Queued(n, p, next).id = p.id
<1> USE ConstantFacts
<1>1. PICK x : x = Queued(n, p, next)
  OBVIOUS
<1>2. PICK S : S = IF p.circled THEN {} ELSE p.seen \cup {n}
  OBVIOUS
<1>3. PICK c \in BOOLEAN : c <=> (p.circled \/ n \in p.seen)
  OBVIOUS
<1>4. S \in SUBSET Motes
  BY <1>2 DEF PacketOf
<1>5. /\ p.hops - 1 \in (0 .. HopLimit) \cup (0 .. ServerHopLimit)
      /\ p.hops \in Nat
  BY DEF PacketOf
<1>6. x = [st |-> "queued", id |-> p.id, kind |-> p.kind, src |-> p.src, dst |-> p.dst,
           hops |-> p.hops - 1, routed |-> p.routed, route |-> p.route, left |-> p.left,
           creator |-> p.creator, next |-> next, seen |-> S, circled |-> c]
  BY <1>1, <1>2, <1>3 DEF Queued, PacketOf
<1>7. x \in PacketOf(OnAir, k)
  BY <1>4, <1>5, <1>6 DEF PacketOf, OnAir
<1>8. CountsHops(x)
  <2> SUFFICES ASSUME p.kind # "command", ~c
               PROVE  IsFiniteSet(S) /\ Cardinality(S) + (p.hops - 1) = HopLimit
    BY <1>6 DEF CountsHops
  <2>1. ~p.circled /\ n \notin p.seen /\ S = p.seen \cup {n}
    BY <1>2, <1>3
  <2>2. IsFiniteSet(p.seen) /\ Cardinality(p.seen) + p.hops = HopLimit
    BY <2>1 DEF Sound, CountsHops
  <2>3. IsFiniteSet(S) /\ Cardinality(S) = Cardinality(p.seen) + 1 /\ Cardinality(p.seen) \in Nat
    BY <2>1, <2>2, FS_AddElement, FS_CardinalityType
  <2> QED BY <1>5, <2>2, <2>3
<1>9. Sound(x) /\ OneHop(m, x)
  BY <1>6, <1>8 DEF Sound, OneHop
<1>10. Live(x) /\ x.id = p.id
  BY <1>6 DEF Live, OnAir
<1> QED BY <1>1, <1>7, <1>9, <1>10 DEF Good

LEMMA NewIsSound ==
    ASSUME NEW k \in Nat, NEW i \in 1 .. k, NEW kind \in Kinds \ {"command"},
           NEW src \in Nodes, kind = "request" => src \in Motes,
           NEW dst \in Motes \cup {Server}, NEW creator \in Creators
    PROVE  LET p == NewPacket(i, kind, src, dst, creator)
           IN  /\ p \in PacketOf(AnyState, k) /\ Sound(p) /\ p.id = i
               /\ p.kind # "command" /\ p.hops = HopLimit /\ ~p.circled /\ p.seen = {}
<1> USE ConstantFacts
<1>1. PICK p : p = NewPacket(i, kind, src, dst, creator)
  OBVIOUS
<1>2. p = [st |-> "new", id |-> i, kind |-> kind, src |-> src, dst |-> dst, hops |-> HopLimit,
           routed |-> FALSE, route |-> <<>>, left |-> 0, creator |-> creator, next |-> NoHop,
           seen |-> {}, circled |-> FALSE]
  BY <1>1 DEF NewPacket
<1>3. <<>> \in SeqOf(Motes, 2) /\ Len(<<>>) = 0
  <2>1. <<>> \in Seq(Motes) /\ Len(<<>>) = 0 /\ 0 <= 2 /\ 2 \in Nat
    OBVIOUS
  <2>2. Len(<<>>) <= 2
    BY <2>1
  <2> QED BY ONLY <2>1, <2>2, SeqOfFacts
<1>4. p \in PacketOf(AnyState, k)
  BY <1>2, <1>3 DEF PacketOf, AnyState
<1>5. Sound(p)
  <2>1. IsFiniteSet({}) /\ Cardinality({}) = 0
    BY FS_EmptySet
  <2>2. CountsHops(p)
    BY <1>2, <2>1 DEF CountsHops
  <2> QED BY <1>2, <1>3, <2>2 DEF Sound
<1> QED BY <1>1, <1>2, <1>4, <1>5

-----------------------------------------------------------------------------
(* One buffer is given a new content.                                         *)

Store(f, n, b, x) == [f EXCEPT ![n][b] = x]
Shape(f) == f = [n \in Nodes |-> [b \in 1 .. Buffers |-> f[n][b]]]

\* The buffers that hold a copy of packet i: Alive(i) is At(buf, i).
At(f, i) == {s \in Nodes \X (1 .. Buffers) : Live(f[s[1]][s[2]]) /\ f[s[1]][s[2]].id = i}

GoodBuf(f, k) ==
    /\ Shape(f)
    /\ \A n \in Nodes, b \in 1 .. Buffers : Good(n, f[n][b], k)

LEMMA StoreFacts ==
    ASSUME NEW f, Shape(f), NEW n \in Nodes, NEW b \in 1 .. Buffers, NEW x
    PROVE  /\ Shape(Store(f, n, b, x))
           /\ Store(f, n, b, x)[n][b] = x
           /\ \A m \in Nodes, c \in 1 .. Buffers :
                  m # n \/ c # b => Store(f, n, b, x)[m][c] = f[m][c]
<1>1. PICK g : g = [m \in Nodes |-> [c \in 1 .. Buffers |-> f[m][c]]]
  OBVIOUS
<1>2. f = g
  BY <1>1 DEF Shape
<1>3. Store(g, n, b, x) = [m \in Nodes |-> [c \in 1 .. Buffers |->
                              IF m = n /\ c = b THEN x ELSE g[m][c]]]
  BY <1>1 DEF Store
<1>4. PICK h : h = [m \in Nodes |-> [c \in 1 .. Buffers |->
                        IF m = n /\ c = b THEN x ELSE g[m][c]]]
  OBVIOUS
<1>5. Store(f, n, b, x) = h
  BY <1>2, <1>3, <1>4
<1>6. \A m \in Nodes, c \in 1 .. Buffers :
          h[m][c] = IF m = n /\ c = b THEN x ELSE g[m][c]
  BY <1>4
<1>7. h = [m \in Nodes |-> [c \in 1 .. Buffers |-> h[m][c]]]
  BY <1>4
<1>8. Shape(h)
  BY <1>7 DEF Shape
<1>9. h[n][b] = x
  BY <1>6
<1>10. \A m \in Nodes, c \in 1 .. Buffers : m # n \/ c # b => h[m][c] = f[m][c]
  BY <1>2, <1>6
<1> QED BY ONLY <1>5, <1>8, <1>9, <1>10

LEMMA StoreKeepsGood ==
    ASSUME NEW k \in Nat, NEW j \in Nat, k <= j, NEW f, GoodBuf(f, k),
           NEW n \in Nodes, NEW b \in 1 .. Buffers, NEW x, Good(n, x, j)
    PROVE  GoodBuf(Store(f, n, b, x), j)
<1>1. PICK g : g = Store(f, n, b, x)
  OBVIOUS
<1>2. /\ Shape(g) /\ g[n][b] = x
      /\ \A m \in Nodes, c \in 1 .. Buffers : m # n \/ c # b => g[m][c] = f[m][c]
  BY <1>1, StoreFacts DEF GoodBuf
<1>3. ASSUME NEW m \in Nodes, NEW c \in 1 .. Buffers
      PROVE  Good(m, g[m][c], j)
  <2>1. Good(m, f[m][c], j)
    BY PacketGrows DEF GoodBuf
  <2> QED BY <1>2, <2>1
<1> QED BY <1>1, <1>2, <1>3 DEF GoodBuf

LEMMA StoreMoves ==
    ASSUME NEW f, Shape(f), NEW n \in Nodes, NEW b \in 1 .. Buffers, NEW x, NEW i
    PROVE  /\ Live(x) /\ x.id = i => At(Store(f, n, b, x), i) = At(f, i) \cup {<<n, b>>}
           /\ ~(Live(x) /\ x.id = i) => At(Store(f, n, b, x), i) = At(f, i) \ {<<n, b>>}
<1>1. PICK g : g = Store(f, n, b, x)
  OBVIOUS
<1>2. /\ g[n][b] = x
      /\ \A m \in Nodes, c \in 1 .. Buffers : m # n \/ c # b => g[m][c] = f[m][c]
  BY <1>1, StoreFacts
<1>3. ASSUME NEW s \in Nodes \X (1 .. Buffers), s # <<n, b>>
      PROVE  s \in At(g, i) <=> s \in At(f, i)
  <2>1. g[s[1]][s[2]] = f[s[1]][s[2]]
    BY <1>2, <1>3
  <2> QED BY <2>1 DEF At
<1>4. <<n, b>> \in At(g, i) <=> Live(x) /\ x.id = i
  BY <1>2 DEF At
<1>5. At(g, i) \subseteq Nodes \X (1 .. Buffers) /\ At(f, i) \subseteq Nodes \X (1 .. Buffers)
  BY DEF At
<1>6. Live(x) /\ x.id = i => At(g, i) = At(f, i) \cup {<<n, b>>}
  BY <1>3, <1>4, <1>5
<1>7. ~(Live(x) /\ x.id = i) => At(g, i) = At(f, i) \ {<<n, b>>}
  BY <1>3, <1>4, <1>5
<1> QED BY <1>1, <1>6, <1>7

LEMMA HeldAt ==
    ASSUME NEW f, NEW n \in Nodes, NEW b \in 1 .. Buffers, NEW i
    PROVE  <<n, b>> \in At(f, i) <=> Live(f[n][b]) /\ f[n][b].id = i
BY DEF At

LEMMA AliveIsAt == \A i : Alive(i) = At(buf, i)
BY DEF Alive, At, Live, OnAir

-----------------------------------------------------------------------------
(* A packet's account: its copies on their way, its arrivals, the duplicates  *)
(* that the air has made of it, and whether it may have been lost.            *)

Balanced(A, a, c, e) ==
    /\ IsFiniteSet(A) /\ Cardinality(A) + a <= 1 + c
    /\ A # {} \/ a > 0 \/ e

LEMMA BalanceKept ==
    ASSUME NEW A, NEW B, NEW a \in Nat, NEW c \in Nat, NEW e, NEW d,
           Balanced(A, a, c, e), e => d, NEW s, NEW t, NEW u
    PROVE  /\ s \in A /\ B = A \ {s} /\ u = a + 1 => Balanced(B, u, c, d)
           /\ s \in A /\ B = A \ {s} /\ d => Balanced(B, a, c, d)
           /\ s \in A /\ B = (A \ {s}) \cup {t} => Balanced(B, a, c, d)
           /\ B = A \cup {t} /\ u = c + 1 => Balanced(B, a, u, d)
           /\ B = A => Balanced(B, a, c, d)
<1>1. IsFiniteSet(A) /\ Cardinality(A) \in Nat
  BY FS_CardinalityType DEF Balanced
<1>2. ASSUME s \in A, B = A \ {s}
      PROVE  Balanced(B, a + 1, c, d) /\ (d => Balanced(B, a, c, d))
  <2>1. IsFiniteSet(B) /\ Cardinality(B) + 1 <= Cardinality(A)
    BY <1>1, <1>2, OneLess
  <2>2. Cardinality(B) \in Nat
    BY <2>1, FS_CardinalityType
  <2> QED BY <1>1, <2>1, <2>2 DEF Balanced
<1>3. ASSUME s \in A, B = (A \ {s}) \cup {t}
      PROVE  Balanced(B, a, c, d)
  <2>1. IsFiniteSet(B) /\ Cardinality(B) <= Cardinality(A) /\ B # {}
    BY <1>1, <1>3, OneMoved
  <2>2. Cardinality(B) \in Nat
    BY <2>1, FS_CardinalityType
  <2> QED BY <1>1, <2>1, <2>2 DEF Balanced
<1>4. ASSUME B = A \cup {t}
      PROVE  Balanced(B, a, c + 1, d)
  <2>1. IsFiniteSet(B) /\ Cardinality(B) <= Cardinality(A) + 1 /\ B # {}
    BY <1>1, <1>4, OneMore
  <2>2. Cardinality(B) \in Nat
    BY <2>1, FS_CardinalityType
  <2> QED BY <1>1, <2>1, <2>2 DEF Balanced
<1>5. B = A => Balanced(B, a, c, d)
  BY DEF Balanced
<1> QED BY <1>2, <1>3, <1>4, <1>5

-----------------------------------------------------------------------------
(* What the buffers hold after one of them, or two, have been given a new     *)
(* content: only the accounts of one packet can change.                       *)

LEMMA Replaced ==
    ASSUME NEW k \in Nat, NEW f, GoodBuf(f, k), NEW n \in Nodes, NEW b \in 1 .. Buffers,
           Live(f[n][b]), NEW x, Good(n, x, k), Live(x) => x.id = f[n][b].id
    PROVE  LET j == f[n][b].id
               g == Store(f, n, b, x)
           IN  /\ GoodBuf(g, k) /\ j \in 1 .. k
               /\ \A i : i # j => At(g, i) = At(f, i)
               /\ <<n, b>> \in At(f, j)
               /\ Live(x) => At(g, j) = At(f, j)
               /\ ~Live(x) => At(g, j) = At(f, j) \ {<<n, b>>}
<1>1. PICK g : g = Store(f, n, b, x)
  OBVIOUS
<1>2. PICK j : j = f[n][b].id
  OBVIOUS
<1>3. GoodBuf(g, k) /\ Shape(f)
  BY <1>1, StoreKeepsGood DEF GoodBuf
<1>4. j \in 1 .. k
  BY <1>2, GoodFacts DEF GoodBuf
<1>5. \A i : /\ Live(x) /\ x.id = i => At(g, i) = At(f, i) \cup {<<n, b>>}
             /\ ~(Live(x) /\ x.id = i) => At(g, i) = At(f, i) \ {<<n, b>>}
             /\ <<n, b>> \in At(f, i) <=> i = j
  BY <1>1, <1>2, <1>3, StoreMoves, HeldAt
<1>6. ASSUME NEW i, i # j
      PROVE  At(g, i) = At(f, i)
  BY <1>2, <1>5, <1>6
<1>7. <<n, b>> \in At(f, j)
  BY <1>5
<1>8. Live(x) => At(g, j) = At(f, j)
  BY <1>2, <1>5, <1>7
<1>9. ~Live(x) => At(g, j) = At(f, j) \ {<<n, b>>}
  BY <1>5
<1> QED BY <1>1, <1>2, <1>3, <1>4, <1>6, <1>7, <1>8, <1>9

LEMMA Added ==
    ASSUME NEW k \in Nat, NEW l \in Nat, k <= l, NEW f, GoodBuf(f, k),
           NEW n \in Nodes, NEW b \in 1 .. Buffers, ~Live(f[n][b]),
           NEW x, Good(n, x, l), NEW j, Live(x) => x.id = j
    PROVE  LET g == Store(f, n, b, x)
           IN  /\ GoodBuf(g, l)
               /\ \A i : i # j => At(g, i) = At(f, i)
               /\ Live(x) => At(g, j) = At(f, j) \cup {<<n, b>>}
               /\ ~Live(x) => At(g, j) = At(f, j)
<1>1. PICK g : g = Store(f, n, b, x)
  OBVIOUS
<1>2. GoodBuf(g, l) /\ Shape(f)
  BY <1>1, StoreKeepsGood DEF GoodBuf
<1>3. \A i : /\ Live(x) /\ x.id = i => At(g, i) = At(f, i) \cup {<<n, b>>}
             /\ ~(Live(x) /\ x.id = i) => At(g, i) = At(f, i) \ {<<n, b>>}
             /\ <<n, b>> \notin At(f, i)
  BY <1>1, <1>2, StoreMoves, HeldAt
<1>4. \A i : ~(Live(x) /\ x.id = i) => At(g, i) = At(f, i)
  BY <1>3
<1> QED BY <1>1, <1>2, <1>3, <1>4

LEMMA Moved ==
    ASSUME NEW k \in Nat, NEW f, GoodBuf(f, k), NEW n \in Nodes, NEW b \in 1 .. Buffers,
           Live(f[n][b]), NEW x, Good(n, x, k), ~Live(x),
           NEW m \in Nodes, NEW c \in 1 .. Buffers, ~Live(f[m][c]),
           NEW z, Good(m, z, k), Live(z) => z.id = f[n][b].id
    PROVE  LET j == f[n][b].id
               g == Store(Store(f, n, b, x), m, c, z)
           IN  /\ GoodBuf(g, k) /\ j \in 1 .. k
               /\ \A i : i # j => At(g, i) = At(f, i)
               /\ <<n, b>> \in At(f, j)
               /\ Live(z) => At(g, j) = (At(f, j) \ {<<n, b>>}) \cup {<<m, c>>}
               /\ ~Live(z) => At(g, j) = At(f, j) \ {<<n, b>>}
<1>1. PICK j : j = f[n][b].id
  OBVIOUS
<1>2. PICK h : h = Store(f, n, b, x)
  OBVIOUS
<1>3. PICK g : g = Store(h, m, c, z)
  OBVIOUS
<1>4. /\ GoodBuf(h, k) /\ j \in 1 .. k
      /\ \A i : i # j => At(h, i) = At(f, i)
      /\ <<n, b>> \in At(f, j) /\ At(h, j) = At(f, j) \ {<<n, b>>}
  <2>1. Live(x) => x.id = f[n][b].id
    OBVIOUS
  <2>2. /\ GoodBuf(Store(f, n, b, x), k) /\ f[n][b].id \in 1 .. k
        /\ \A i : i # f[n][b].id => At(Store(f, n, b, x), i) = At(f, i)
        /\ <<n, b>> \in At(f, f[n][b].id)
        /\ At(Store(f, n, b, x), f[n][b].id) = At(f, f[n][b].id) \ {<<n, b>>}
    BY ONLY <2>1, k \in Nat, GoodBuf(f, k), n \in Nodes, b \in 1 .. Buffers, Live(f[n][b]),
            Good(n, x, k), ~Live(x), Replaced
  <2> QED BY <1>1, <1>2, <2>2
<1>5. ~Live(h[m][c])
  <2>1. h[m][c] = f[m][c]
    <3>1. m # n \/ c # b
      OBVIOUS
    <3> QED BY <1>2, <3>1, StoreFacts DEF GoodBuf
  <2> QED BY <2>1
<1>6. /\ GoodBuf(g, k)
      /\ \A i : i # j => At(g, i) = At(h, i)
      /\ Live(z) => At(g, j) = At(h, j) \cup {<<m, c>>}
      /\ ~Live(z) => At(g, j) = At(h, j)
  BY <1>1, <1>3, <1>4, <1>5, Added, k <= k
<1> QED BY <1>1, <1>2, <1>3, <1>4, <1>6

-----------------------------------------------------------------------------
(* Outgoing packets.  In a network of no more motes than the hop limit, a     *)
(* packet that fails for its hop limit has gone in a circle: one that has not *)
(* would have been at every mote.                                             *)

Small == IsFiniteSet(Motes) /\ Cardinality(Motes) <= HopLimit

LEMMA HopsLast ==
    ASSUME Small, NEW k, NEW p \in PacketOf(AnyState, k), Sound(p), p.kind # "command",
           p.hops = 0, NEW n \in Motes
    PROVE  p.circled \/ n \in p.seen
<1> SUFFICES ASSUME ~p.circled, n \notin p.seen
             PROVE  FALSE
  BY DEF PacketOf
<1>1. IsFiniteSet(p.seen) /\ Cardinality(p.seen) + 0 = HopLimit
  BY DEF Sound, CountsHops
<1>2. p.seen \subseteq Motes \ {n}
  BY DEF PacketOf
<1>3. Cardinality(p.seen) + 1 <= Cardinality(Motes)
  BY <1>2, OneLess DEF Small
<1>4. Cardinality(p.seen) \in Nat /\ Cardinality(Motes) \in Nat
  BY <1>1, FS_CardinalityType DEF Small
<1> QED BY <1>1, <1>3, <1>4, ConstantFacts DEF Small

LEMMA OutgoingFacts ==
    ASSUME NEW n \in Motes, NEW k \in Nat, NEW p \in PacketOf(AnyState, k), Sound(p),
           p.kind # "command", NEW next \in Nodes \cup {NoHop}, NEW m
    PROVE  LET x == Outgoing(n, p, next)
           IN  /\ Good(m, x, k)
               /\ Live(x) => x.id = p.id
               /\ Small /\ ~Live(x) => p.id \in Excuse(n, p, next)
               /\ Fails(n, p, next) \in BOOLEAN
<1>1. PICK x : x = Outgoing(n, p, next)
  OBVIOUS
<1>2. n # Root
  BY ConstantFacts
<1>3. CASE Fails(n, p, next)
  <2>1. x = Free
    BY <1>1, <1>3 DEF Outgoing
  <2>2. Good(m, x, k) /\ ~Live(x)
    BY <2>1 DEF Good, Live, OnAir, Free
  <2>3. ASSUME Small
        PROVE  p.id \in Excuse(n, p, next)
    <3>1. next = NoHop \/ p.hops = 0
      BY <1>2, <1>3 DEF Fails
    <3>2. p.hops = 0 => p.circled \/ n \in p.seen
      BY <2>3, HopsLast
    <3> QED BY <3>1, <3>2 DEF Excuse
  <2> QED BY <1>1, <2>2, <2>3 DEF Fails
<1>4. CASE ~Fails(n, p, next)
  <2>1. x = Queued(n, p, next) /\ next \in Nodes /\ p.hops # 0
    BY <1>1, <1>4 DEF Outgoing, Fails
  <2>2. Good(m, x, k) /\ Live(x) /\ x.id = p.id
    BY <2>1, QueuedIsGood
  <2> QED BY <1>1, <2>2 DEF Fails
<1> QED BY <1>3, <1>4

LEMMA NextHopFacts ==
    ASSUME NEW m \in Nodes, NEW dst, NEW next \in NextHops(m, dst)
    PROVE  next \in Nodes \cup {NoHop}
BY ConstantFacts DEF NextHops

-----------------------------------------------------------------------------
(* The invariants.                                                            *)

Counters ==
    /\ made \in Nat /\ spent \in Nat /\ made <= spent /\ spent <= MaxCopies
    /\ busy \in [Nodes -> BOOLEAN]
    /\ arrived \in [1 .. MaxCopies -> Nat] /\ copies \in [1 .. MaxCopies -> Nat]

BuffersInv == Counters /\ GoodBuf(buf, made)

AccountOf(i) == Balanced(At(buf, i), arrived[i], copies[i], i \in excused)

AccountsInv ==
    /\ \A i \in 1 .. made : AccountOf(i)
    /\ \A i \in 1 .. MaxCopies : i > made => arrived[i] = 0

\* The accounts of all packets but j are as they were.
Elsewhere(j) ==
    /\ \A i \in 1 .. MaxCopies : i # j =>
           At(buf', i) = At(buf, i) /\ arrived'[i] = arrived[i] /\ copies'[i] = copies[i]
    /\ excused \subseteq excused'

LEMMA AccountsKept ==
    ASSUME BuffersInv, BuffersInv', AccountsInv, NEW j \in 1 .. MaxCopies, Elsewhere(j),
           (j <= made /\ made' = made) \/ (j = made + 1 /\ made' = made + 1),
           AccountOf(j)'
    PROVE  AccountsInv'
<1>1. made \in Nat /\ made <= MaxCopies /\ MaxCopies \in Nat
  BY ConstantFacts DEF BuffersInv, Counters
<1>2. ASSUME NEW i \in 1 .. made', i # j
      PROVE  AccountOf(i)'
  <2>1. i \in 1 .. made /\ i \in 1 .. MaxCopies
    BY <1>1, <1>2
  <2>2. Balanced(At(buf, i), arrived[i], copies[i], i \in excused)
    BY <2>1 DEF AccountsInv, AccountOf
  <2>3. At(buf', i) = At(buf, i) /\ arrived'[i] = arrived[i] /\ copies'[i] = copies[i]
    BY <1>2, <2>1 DEF Elsewhere
  <2>4. i \in excused => i \in excused'
    BY DEF Elsewhere
  <2>5. Balanced(At(buf, i), arrived[i], copies[i], i \in excused')
    BY <2>2, <2>4 DEF Balanced
  <2> QED BY <2>3, <2>5 DEF AccountOf
<1>3. ASSUME NEW i \in 1 .. MaxCopies, i > made'
      PROVE  arrived'[i] = 0
  <2>1. i > made /\ i # j
    BY <1>1, <1>3
  <2> QED BY <2>1 DEF AccountsInv, Elsewhere
<1> QED BY <1>2, <1>3 DEF AccountsInv

-----------------------------------------------------------------------------
(* The four kinds of steps that change an account.                            *)

\* A packet goes on in its buffer, arrives, or is lost.
LEMMA ReplaceStep ==
    ASSUME BuffersInv, NEW n \in Nodes, NEW b \in 1 .. Buffers, Live(buf[n][b]),
           NEW j, j = buf[n][b].id, NEW x, Good(n, x, made), Live(x) => x.id = j,
           buf' = Store(buf, n, b, x), UNCHANGED <<made, spent, copies>>,
           busy' \in [Nodes -> BOOLEAN], excused \subseteq excused',
           \/ arrived' = arrived
           \/ ~Live(x) /\ arrived' = [arrived EXCEPT ![j] = @ + 1]
    PROVE  /\ BuffersInv'
           /\ AccountsInv /\ (Live(x) \/ j \in excused' \/ arrived' # arrived) => AccountsInv'
<1>1. made \in Nat /\ GoodBuf(buf, made)
  BY DEF BuffersInv, Counters
<1>2. /\ GoodBuf(buf', made) /\ j \in 1 .. made
      /\ \A i : i # j => At(buf', i) = At(buf, i)
      /\ <<n, b>> \in At(buf, j)
      /\ Live(x) => At(buf', j) = At(buf, j)
      /\ ~Live(x) => At(buf', j) = At(buf, j) \ {<<n, b>>}
  BY <1>1, Replaced
<1>3. j \in 1 .. MaxCopies /\ j <= made /\ arrived[j] \in Nat /\ copies[j] \in Nat
  BY <1>1, <1>2, ConstantFacts DEF BuffersInv, Counters
<1>4. arrived' \in [1 .. MaxCopies -> Nat]
  BY <1>3 DEF BuffersInv, Counters
<1>5. BuffersInv'
  BY <1>2, <1>4 DEF BuffersInv, Counters
<1>6. ASSUME AccountsInv, Live(x) \/ j \in excused' \/ arrived' # arrived
      PROVE  AccountsInv'
  <2>1. \A i \in 1 .. MaxCopies : i # j => arrived'[i] = arrived[i]
    BY <1>3 DEF BuffersInv, Counters
  <2>2. Elsewhere(j)
    BY <1>2, <2>1 DEF Elsewhere
  <2>3. Balanced(At(buf, j), arrived[j], copies[j], j \in excused)
    BY <1>2, <1>6 DEF AccountsInv, AccountOf
  <2>4. j \in excused => j \in excused'
    OBVIOUS
  <2>5. Balanced(At(buf', j), arrived'[j], copies[j], j \in excused')
    <3>1. CASE arrived' = arrived /\ Live(x)
      <4>1. At(buf', j) = At(buf, j) /\ arrived'[j] = arrived[j]
        BY <1>2, <3>1
      <4> QED BY <2>3, <2>4, <4>1 DEF Balanced
    <3>2. CASE arrived' = arrived /\ ~Live(x)
      <4>1. /\ <<n, b>> \in At(buf, j) /\ At(buf', j) = At(buf, j) \ {<<n, b>>}
            /\ arrived'[j] = arrived[j] /\ j \in excused'
        BY <1>2, <1>6, <3>2
      <4> QED BY ONLY <1>3, <2>3, <2>4, <4>1, BalanceKept
    <3>3. CASE ~Live(x) /\ arrived' = [arrived EXCEPT ![j] = @ + 1]
      <4>1. /\ <<n, b>> \in At(buf, j) /\ At(buf', j) = At(buf, j) \ {<<n, b>>}
            /\ arrived'[j] = arrived[j] + 1
        BY <1>2, <1>3, <3>3 DEF BuffersInv, Counters
      <4> QED BY ONLY <1>3, <2>3, <2>4, <4>1, BalanceKept
    <3> QED BY <3>1, <3>2, <3>3
  <2>6. AccountOf(j)'
    BY <2>5 DEF AccountOf
  <2> QED BY ONLY BuffersInv, <1>3, <1>5, <1>6, <2>2, <2>6, made' = made, AccountsKept
<1> QED BY <1>5, <1>6

\* A packet leaves its buffer for another one, or is lost between them.
LEMMA MoveStep ==
    ASSUME BuffersInv, NEW n \in Nodes, NEW b \in 1 .. Buffers, Live(buf[n][b]),
           NEW j, j = buf[n][b].id, NEW x, Good(n, x, made), ~Live(x),
           NEW m \in Nodes, NEW c \in 1 .. Buffers, ~Live(buf[m][c]),
           NEW z, Good(m, z, made), Live(z) => z.id = j,
           buf' = Store(Store(buf, n, b, x), m, c, z),
           UNCHANGED <<made, spent, arrived, copies>>,
           busy' \in [Nodes -> BOOLEAN], excused \subseteq excused'
    PROVE  /\ BuffersInv'
           /\ AccountsInv /\ (Live(z) \/ j \in excused') => AccountsInv'
<1>1. made \in Nat /\ GoodBuf(buf, made)
  BY DEF BuffersInv, Counters
<1>2. /\ GoodBuf(buf', made) /\ j \in 1 .. made
      /\ \A i : i # j => At(buf', i) = At(buf, i)
      /\ <<n, b>> \in At(buf, j)
      /\ Live(z) => At(buf', j) = (At(buf, j) \ {<<n, b>>}) \cup {<<m, c>>}
      /\ ~Live(z) => At(buf', j) = At(buf, j) \ {<<n, b>>}
  BY <1>1, Moved
<1>3. j \in 1 .. MaxCopies /\ j <= made /\ arrived[j] \in Nat /\ copies[j] \in Nat
  BY <1>1, <1>2, ConstantFacts DEF BuffersInv, Counters
<1>4. BuffersInv'
  BY <1>2 DEF BuffersInv, Counters
<1>5. ASSUME AccountsInv, Live(z) \/ j \in excused'
      PROVE  AccountsInv'
  <2>1. Elsewhere(j)
    BY <1>2 DEF Elsewhere
  <2>2. Balanced(At(buf, j), arrived[j], copies[j], j \in excused)
    BY <1>2, <1>5 DEF AccountsInv, AccountOf
  <2>3. j \in excused => j \in excused'
    OBVIOUS
  <2>4. Balanced(At(buf', j), arrived[j], copies[j], j \in excused')
    <3>1. CASE Live(z)
      <4>1. /\ <<n, b>> \in At(buf, j)
            /\ At(buf', j) = (At(buf, j) \ {<<n, b>>}) \cup {<<m, c>>}
        BY <1>2, <3>1
      <4> QED BY ONLY <1>3, <2>2, <2>3, <4>1, BalanceKept
    <3>2. CASE ~Live(z)
      <4>1. /\ <<n, b>> \in At(buf, j) /\ At(buf', j) = At(buf, j) \ {<<n, b>>}
            /\ j \in excused'
        BY <1>2, <1>5, <3>2
      <4> QED BY ONLY <1>3, <2>2, <2>3, <4>1, BalanceKept
    <3> QED BY <3>1, <3>2
  <2>5. AccountOf(j)'
    BY <2>4 DEF AccountOf
  <2> QED BY ONLY BuffersInv, <1>3, <1>4, <1>5, <2>1, <2>5, made' = made, AccountsKept
<1> QED BY <1>4, <1>5

\* The air makes a second copy.
LEMMA CopyStep ==
    ASSUME BuffersInv, NEW j \in 1 .. made,
           NEW m \in Nodes, NEW c \in 1 .. Buffers, ~Live(buf[m][c]),
           NEW z, Good(m, z, made), Live(z), z.id = j,
           buf' = Store(buf, m, c, z), spent < MaxCopies, spent' = spent + 1,
           copies' = [copies EXCEPT ![j] = @ + 1],
           UNCHANGED <<busy, made, arrived, excused>>
    PROVE  BuffersInv' /\ (AccountsInv => AccountsInv')
<1>1. made \in Nat /\ GoodBuf(buf, made) /\ made <= made
  BY DEF BuffersInv, Counters
<1>2. /\ GoodBuf(buf', made)
      /\ \A i : i # j => At(buf', i) = At(buf, i)
      /\ At(buf', j) = At(buf, j) \cup {<<m, c>>}
  BY <1>1, Added
<1>3. j \in 1 .. MaxCopies /\ j <= made /\ arrived[j] \in Nat /\ copies[j] \in Nat
  BY <1>1, ConstantFacts DEF BuffersInv, Counters
<1>4. copies' \in [1 .. MaxCopies -> Nat] /\ copies'[j] = copies[j] + 1
  BY <1>3 DEF BuffersInv, Counters
<1>5. spent' \in Nat /\ made <= spent' /\ spent' <= MaxCopies
  BY ConstantFacts DEF BuffersInv, Counters
<1>6. BuffersInv'
  BY <1>2, <1>4, <1>5 DEF BuffersInv, Counters
<1>7. ASSUME AccountsInv
      PROVE  AccountsInv'
  <2>1. \A i \in 1 .. MaxCopies : i # j => copies'[i] = copies[i]
    BY <1>3 DEF BuffersInv, Counters
  <2>2. Elsewhere(j)
    BY <1>2, <2>1 DEF Elsewhere
  <2>3. Balanced(At(buf, j), arrived[j], copies[j], j \in excused)
    BY <1>7 DEF AccountsInv, AccountOf
  <2>4. Balanced(At(buf', j), arrived[j], copies'[j], j \in excused')
    <3>1. j \in excused => j \in excused'
      OBVIOUS
    <3>2. PICK A, B, d, e, u, a, v :
              /\ A = At(buf, j) /\ B = At(buf', j)
              /\ e = (j \in excused) /\ d = (j \in excused')
              /\ a = arrived[j] /\ v = copies[j] /\ u = copies'[j]
      OBVIOUS
    <3>3. /\ B = A \cup {<<m, c>>} /\ u = v + 1 /\ Balanced(A, a, v, e) /\ (e => d)
          /\ a \in Nat /\ v \in Nat
      BY <1>2, <1>3, <1>4, <2>3, <3>1, <3>2
    <3>4. Balanced(B, a, u, d)
      BY ONLY <3>3, BalanceKept, Zenon
    <3> QED BY <3>2, <3>4
  <2>5. AccountOf(j)'
    BY <2>4 DEF AccountOf
  <2> QED BY ONLY BuffersInv, <1>3, <1>6, <1>7, <2>2, <2>5, made' = made, AccountsKept
<1> QED BY <1>6, <1>7

\* A packet is made, or lost at once.
LEMMA NewStep ==
    ASSUME BuffersInv, NEW n \in Nodes, NEW b \in 1 .. Buffers, ~Live(buf[n][b]),
           NEW x, Good(n, x, made'), Live(x) => x.id = made',
           buf' = Store(buf, n, b, x), made' = made + 1, Spend,
           busy' \in [Nodes -> BOOLEAN], excused \subseteq excused',
           UNCHANGED <<arrived, copies>>
    PROVE  /\ BuffersInv'
           /\ AccountsInv /\ (Live(x) \/ made' \in excused') => AccountsInv'
<1>1. PICK j : j = made + 1
  OBVIOUS
<1>2. made \in Nat /\ GoodBuf(buf, made) /\ j \in Nat /\ made <= j /\ made' = j
  BY <1>1 DEF BuffersInv, Counters
<1>3. /\ GoodBuf(buf', j)
      /\ \A i : i # j => At(buf', i) = At(buf, i)
      /\ Live(x) => At(buf', j) = At(buf, j) \cup {<<n, b>>}
      /\ ~Live(x) => At(buf', j) = At(buf, j)
  <2>1. Good(n, x, j) /\ (Live(x) => x.id = j)
    BY <1>2
  <2> QED BY ONLY <1>2, <2>1, buf' = Store(buf, n, b, x), n \in Nodes, b \in 1 .. Buffers,
                  ~Live(buf[n][b]), Added
<1>4. /\ spent' \in Nat /\ made' \in Nat /\ made' <= spent' /\ spent' <= MaxCopies
      /\ j \in 1 .. MaxCopies
  BY <1>1, ConstantFacts DEF BuffersInv, Counters, Spend
<1>5. BuffersInv'
  BY <1>2, <1>3, <1>4 DEF BuffersInv, Counters
<1>6. ASSUME AccountsInv, Live(x) \/ made' \in excused'
      PROVE  AccountsInv'
  <2>1. Elsewhere(j)
    BY <1>3 DEF Elsewhere
  <2>2. At(buf, j) = {}
    <3> SUFFICES ASSUME NEW s \in At(buf, j)
                 PROVE  FALSE
      OBVIOUS
    <3>1. s[1] \in Nodes /\ s[2] \in 1 .. Buffers /\ Live(buf[s[1]][s[2]])
          /\ buf[s[1]][s[2]].id = j
      BY DEF At
    <3>2. j \in 1 .. made
      BY <1>2, <3>1, GoodFacts DEF GoodBuf
    <3> QED BY <1>1, <1>2, <3>2
  <2>3. arrived[j] = 0 /\ copies[j] \in Nat
    BY <1>1, <1>2, <1>4, <1>6 DEF AccountsInv, BuffersInv, Counters
  <2>4. IsFiniteSet({}) /\ Cardinality({}) = 0
    BY FS_EmptySet
  <2>5. IsFiniteSet({<<n, b>>}) /\ Cardinality({<<n, b>>}) = 1
    BY FS_Singleton
  <2>6. Balanced(At(buf', j), 0, copies[j], j \in excused')
    <3>1. CASE Live(x)
      <4>1. At(buf', j) = {<<n, b>>}
        BY <1>3, <2>2, <3>1
      <4> QED BY <2>3, <2>5, <4>1 DEF Balanced
    <3>2. CASE ~Live(x)
      <4>1. At(buf', j) = {} /\ j \in excused'
        BY <1>2, <1>3, <1>6, <2>2, <3>2
      <4> QED BY <2>3, <2>4, <4>1 DEF Balanced
    <3> QED BY <3>1, <3>2
  <2>7. AccountOf(j)'
    BY <2>3, <2>6 DEF AccountOf
  <2> QED BY <1>1, <1>2, <1>4, <1>5, <1>6, <2>1, <2>7, AccountsKept
<1> QED BY <1>5, <1>6

-----------------------------------------------------------------------------
(* The actions.                                                               *)

\* What every step keeps.
Kept == BuffersInv' /\ (AccountsInv /\ Small => AccountsInv')

LEMMA SlotFacts ==
    ASSUME BuffersInv, NEW n \in Nodes, NEW b \in 1 .. Buffers
    PROVE  /\ Shape(buf) /\ made \in Nat
           /\ Good(n, buf[n][b], made)
           /\ Live(buf[n][b]) <=> buf[n][b] \in PacketOf(OnAir, made)
           /\ Live(buf[n][b]) => /\ buf[n][b] \in PacketOf(AnyState, made)
                                 /\ Sound(buf[n][b]) /\ OneHop(n, buf[n][b])
                                 /\ buf[n][b].id \in 1 .. made
           /\ buf[n][b].st = "sent" => buf[n][b] \in SentRecord
           /\ buf[n][b] = Free => ~Live(buf[n][b])
<1>1. Good(n, buf[n][b], made) /\ Shape(buf) /\ made \in Nat
  BY DEF BuffersInv, Counters, GoodBuf
<1> QED BY <1>1, GoodFacts, OnAirIsAny

LEMMA FreeIsGood == \A n, k : Good(n, Free, k) /\ ~Live(Free)
BY DEF Good, Live, OnAir, Free

LEMMA NodeStore ==
    ASSUME NEW f, Shape(f), NEW n \in Nodes, NEW b, NEW x
    PROVE  [f EXCEPT ![n] = [f[n] EXCEPT ![b] = x]] = Store(f, n, b, x)
BY DEF Store

LEMMA FailsOrNot ==
    \A n, p, next : (~Fails(n, p, next)) \in BOOLEAN
BY Zenon DEF Fails

LEMMA BusyIsTyped ==
    ASSUME BuffersInv, NEW n, NEW e \in BOOLEAN, busy' = [busy EXCEPT ![n] = e]
    PROVE  busy' \in [Nodes -> BOOLEAN]
BY DEF BuffersInv, Counters

LEMMA FirstSlot ==
    ASSUME BuffersInv, NEW n \in Nodes, FreeBuffers(n) # {}
    PROVE  /\ FirstFree(n) \in 1 .. Buffers
           /\ buf[n][FirstFree(n)] = Free /\ ~Live(buf[n][FirstFree(n)])
BY FirstIsFree, FreeIsGood

\* openudp_send and icmpv6echo_trigger.
LEMMA OriginateStep ==
    ASSUME BuffersInv, Spend, NEW n \in Nodes, FreeBuffers(n) # {}, made' = made + 1,
           NEW kind \in Kinds \ {"command"}, NEW dst \in Motes \cup {Server},
           NEW creator \in Creators, NEW next \in NextHops(n, dst),
           NEW p, p = NewPacket(made', kind, n, dst, creator),
           buf' = [buf EXCEPT ![n][FirstFree(n)] = Outgoing(n, p, next)],
           excused' = excused \cup Excuse(n, p, next),
           busy' \in [Nodes -> BOOLEAN], UNCHANGED <<arrived, copies>>
    PROVE  Kept
<1>1. PICK b : b = FirstFree(n)
  OBVIOUS
<1>2. b \in 1 .. Buffers /\ ~Live(buf[n][b])
  BY <1>1, FirstSlot
<1>3. made' \in Nat /\ made' \in 1 .. made'
  BY DEF BuffersInv, Counters
<1>4. PICK x : x = Outgoing(n, p, next)
  OBVIOUS
<1>5. /\ Good(n, x, made') /\ (Live(x) => x.id = made')
      /\ Small /\ ~Live(x) => made' \in Excuse(n, p, next)
  <2>1. CASE n = Root
    <3>1. x = Free /\ Excuse(n, p, next) = {made'}
      BY <1>4, <2>1 DEF Outgoing, Fails, Excuse, NewPacket
    <3> QED BY <3>1, FreeIsGood
  <2>2. CASE n # Root
    <3>1. n \in Motes /\ n \in Nodes
      BY <2>2, ConstantFacts
    <3>2. p \in PacketOf(AnyState, made') /\ Sound(p) /\ p.id = made' /\ p.kind # "command"
      BY <1>3, <3>1, NewIsSound
    <3>3. next \in Nodes \cup {NoHop}
      BY NextHopFacts
    <3> QED BY ONLY <1>3, <1>4, <3>1, <3>2, <3>3, OutgoingFacts
  <2> QED BY <2>1, <2>2
<1>6. buf' = Store(buf, n, b, x)
  BY <1>1, <1>4 DEF Store
<1>7. excused \subseteq excused' /\ (made' \in Excuse(n, p, next) => made' \in excused')
  OBVIOUS
<1>8. BuffersInv' /\ (AccountsInv /\ (Live(x) \/ made' \in excused') => AccountsInv')
  BY ONLY BuffersInv, Spend, n \in Nodes, made' = made + 1, busy' \in [Nodes -> BOOLEAN],
          UNCHANGED <<arrived, copies>>, <1>2, <1>5, <1>6, <1>7, NewStep
<1> QED BY <1>5, <1>7, <1>8 DEF Kept

LEMMA TriggerKeeps ==
    ASSUME BuffersInv, NEW n \in Nodes, NEW dst \in Motes, Trigger(n, dst)
    PROVE  Kept
<1>1. PICK next \in NextHops(n, dst) :
          LET p == NewPacket(made', "request", n, dst, "echo")
          IN  /\ buf' = [buf EXCEPT ![n][FirstFree(n)] = Outgoing(n, p, next)]
              /\ busy' = [busy EXCEPT ![n] = ~Fails(n, p, next)]
              /\ excused' = excused \cup Excuse(n, p, next)
  BY DEF Trigger
<1>2. PICK p : p = NewPacket(made', "request", n, dst, "echo")
  OBVIOUS
<1>3. /\ buf' = [buf EXCEPT ![n][FirstFree(n)] = Outgoing(n, p, next)]
      /\ busy' = [busy EXCEPT ![n] = ~Fails(n, p, next)]
      /\ excused' = excused \cup Excuse(n, p, next)
  BY <1>1, <1>2
<1>4. /\ Spend /\ FreeBuffers(n) # {} /\ made' = made + 1
      /\ UNCHANGED <<arrived, copies>>
  BY DEF Trigger
<1>5. busy' \in [Nodes -> BOOLEAN]
  <2> QED BY <1>3, FailsOrNot, BusyIsTyped
<1>6. "request" \in Kinds \ {"command"} /\ dst \in Motes \cup {Server} /\ "echo" \in Creators
  BY DEF Kinds, Creators
<1> QED BY ONLY BuffersInv, n \in Nodes, <1>1, <1>2, <1>3, <1>4, <1>5, <1>6, OriginateStep

LEMMA ReportKeeps ==
    ASSUME BuffersInv, NEW m \in Nodes, Report(m)
    PROVE  Kept
<1>1. PICK next \in NextHops(m, Server) :
          LET p == NewPacket(made', "report", m, Server, "udp")
          IN  /\ buf' = [buf EXCEPT ![m][FirstFree(m)] = Outgoing(m, p, next)]
              /\ excused' = excused \cup Excuse(m, p, next)
  BY DEF Report
<1>2. PICK p : p = NewPacket(made', "report", m, Server, "udp")
  OBVIOUS
<1>3. /\ buf' = [buf EXCEPT ![m][FirstFree(m)] = Outgoing(m, p, next)]
      /\ excused' = excused \cup Excuse(m, p, next)
  BY <1>1, <1>2
<1>4. /\ Spend /\ FreeBuffers(m) # {} /\ made' = made + 1
      /\ UNCHANGED <<busy, arrived, copies>>
  BY DEF Report
<1>5. busy' \in [Nodes -> BOOLEAN]
  BY <1>4 DEF BuffersInv, Counters
<1>6. "report" \in Kinds \ {"command"} /\ Server \in Motes \cup {Server} /\ "udp" \in Creators
  BY DEF Kinds, Creators
<1> QED BY ONLY BuffersInv, m \in Nodes, <1>1, <1>2, <1>3, <1>4, <1>5, <1>6, OriginateStep

\* openbridge_triggerData.
LEMMA CommandKeeps ==
    ASSUME BuffersInv, NEW path \in Paths, NEW routed \in BOOLEAN, Command(path, routed)
    PROVE  Kept
<1>1. PICK b : b = FirstFree(Root)
  OBVIOUS
<1>2. PICK x : x = CommandOn(made', path, routed)
  OBVIOUS
<1>3. /\ Spend /\ FreeBuffers(Root) # {} /\ (routed \/ Len(path) = 1)
      /\ made' = made + 1 /\ UNCHANGED <<busy, arrived, copies, excused>>
      /\ buf' = Store(buf, Root, b, x)
  BY <1>1, <1>2 DEF Command, Store, history
<1>4. Root \in Nodes /\ b \in 1 .. Buffers /\ ~Live(buf[Root][b])
  BY <1>1, <1>3, FirstSlot, ConstantFacts
<1>5. made' \in 1 .. made' /\ busy' \in [Nodes -> BOOLEAN]
  BY <1>3 DEF BuffersInv, Counters
<1>6. x = [st |-> "queued", id |-> made', kind |-> "command", src |-> Server,
           dst |-> Last(path), hops |-> ServerHopLimit, routed |-> routed,
           route |-> Tail(path), left |-> Len(path) - 1, creator |-> "bridge",
           next |-> Head(path), seen |-> {}, circled |-> FALSE]
  BY <1>2 DEF CommandOn, NewPacket
<1>7. PICK t, l, h, d : t = Tail(path) /\ l = Len(path) - 1 /\ h = Head(path) /\ d = Last(path)
  OBVIOUS
<1>8. /\ h \in Motes /\ d \in Motes /\ t \in SeqOf(Motes, 2) /\ l \in 0 .. 2
      /\ Len(t) = l /\ (~routed => h = d)
  <2>1. \A k \in 1 .. 3 : k - 1 \in 0 .. 2
    OBVIOUS
  <2> QED BY <1>3, <1>7, <2>1, PathFacts
<1>9. x \in PacketOf(OnAir, made')
  BY <1>5, <1>6, <1>7, <1>8, ConstantFacts DEF PacketOf, OnAir, Kinds, Creators
<1>10. Sound(x) /\ OneHop(Root, x)
  <2>1. l <= Len(t)
    BY <1>8
  <2> QED BY <1>6, <1>7, <1>8, <2>1 DEF Sound, CountsHops, OneHop
<1>11. Good(Root, x, made') /\ Live(x) /\ x.id = made'
  BY <1>6, <1>9, <1>10 DEF Good, Live, OnAir
<1> QED BY ONLY BuffersInv, <1>3, <1>4, <1>5, <1>11, excused \subseteq excused,
                NewStep DEF Kept

LEMMA QueuedFacts ==
    ASSUME BuffersInv, NEW n \in Nodes, NEW b \in 1 .. Buffers, buf[n][b].st = "queued"
    PROVE  /\ Live(buf[n][b]) /\ buf[n][b] \in PacketOf(AnyState, made)
           /\ Sound(buf[n][b]) /\ OneHop(n, buf[n][b]) /\ buf[n][b].id \in 1 .. made
BY SlotFacts DEF Live, OnAir

LEMMA ReceivedFacts ==
    ASSUME BuffersInv, NEW n \in Nodes, NEW b \in 1 .. Buffers, buf[n][b].st = "received"
    PROVE  /\ Live(buf[n][b]) /\ buf[n][b] \in PacketOf(AnyState, made)
           /\ Sound(buf[n][b]) /\ OneHop(n, buf[n][b]) /\ buf[n][b].id \in 1 .. made
BY SlotFacts DEF Live, OnAir

\* The packet as the next hop's buffer holds it.
Taken(p) == [p EXCEPT !.st = "received", !.next = NoHop]

LEMMA TakenIsGood ==
    ASSUME BuffersInv, NEW n \in Nodes, NEW b \in 1 .. Buffers, buf[n][b].st = "queued"
    PROVE  LET p == buf[n][b]
           IN  /\ Good(p.next, Taken(p), made) /\ Live(Taken(p)) /\ Taken(p).id = p.id
<1>1. PICK p : p = buf[n][b]
  OBVIOUS
<1>2. p \in PacketOf(AnyState, made) /\ p.st = "queued" /\ Sound(p) /\ OneHop(n, p)
  BY <1>1, QueuedFacts
<1>3. PICK x : x = Taken(p)
  OBVIOUS
<1>4. x = [st |-> "received", id |-> p.id, kind |-> p.kind, src |-> p.src, dst |-> p.dst,
           hops |-> p.hops, routed |-> p.routed, route |-> p.route, left |-> p.left,
           creator |-> p.creator, next |-> NoHop, seen |-> p.seen, circled |-> p.circled]
  BY <1>2, <1>3 DEF Taken, PacketOf
<1>5. x \in PacketOf(OnAir, made) /\ Live(x) /\ x.id = p.id
  BY <1>2, <1>4 DEF PacketOf, OnAir, Live
<1>6. Sound(x) /\ OneHop(p.next, x)
  BY <1>2, <1>4 DEF Sound, CountsHops, OneHop
<1> QED BY <1>1, <1>3, <1>5, <1>6 DEF Good

\* The updates of Deliver and DeliverUnacknowledged, under names.
PutAt(k, p) == [buf EXCEPT ![k] = Put(k, p)]
PutFrom(n, b, x, k, p) == [buf EXCEPT ![n][b] = x, ![k] = Put(k, p)]

LEMMA PutIsStore ==
    ASSUME BuffersInv, NEW n \in Nodes, NEW k \in Nodes, k # n, NEW b, NEW x, NEW p
    PROVE  /\ PutAt(k, p) = Store(buf, k, FirstFree(k), Taken(p))
           /\ PutFrom(n, b, x, k, p)
                  = Store(Store(buf, n, b, x), k, FirstFree(k), Taken(p))
<1>1. Shape(buf)
  BY DEF BuffersInv, GoodBuf
<1>2. PICK c : c = FirstFree(k)
  OBVIOUS
<1>3. PICK z : z = Taken(p)
  OBVIOUS
<1>4. Put(k, p) = [buf[k] EXCEPT ![c] = z]
  BY <1>2, <1>3 DEF Put, Taken
<1>5. PutAt(k, p) = Store(buf, k, c, z)
  BY <1>1, <1>4, NodeStore DEF PutAt
<1>6. PICK h : h = Store(buf, n, b, x)
  OBVIOUS
<1>7. h[k] = buf[k] /\ Shape(h)
  BY <1>1, <1>6 DEF Store, Shape
<1>8. PutFrom(n, b, x, k, p) = [h EXCEPT ![k] = [h[k] EXCEPT ![c] = z]]
  BY <1>4, <1>6, <1>7 DEF Store, PutFrom
<1>9. [h EXCEPT ![k] = [h[k] EXCEPT ![c] = z]] = Store(h, k, c, z)
  BY <1>7, NodeStore
<1> QED BY <1>2, <1>3, <1>5, <1>6, <1>8, <1>9

\* The next hop has a free buffer, and is another node.
LEMMA ReachesFacts ==
    ASSUME BuffersInv, NEW n \in Nodes, NEW p, Reaches(n, p)
    PROVE  /\ p.next \in Nodes /\ p.next # n
           /\ FirstFree(p.next) \in 1 .. Buffers /\ ~Live(buf[p.next][FirstFree(p.next)])
<1>1. p.next \in Linked(n) /\ FreeBuffers(p.next) # {}
  BY DEF Reaches
<1>2. p.next \in Nodes /\ p.next # n
  BY <1>1, ConstantFacts DEF Linked
<1> QED BY <1>1, <1>2, FirstSlot

LEMMA DeliverKeeps ==
    ASSUME BuffersInv, NEW n \in Nodes, NEW b \in 1 .. Buffers, buf[n][b].st = "queued",
           Deliver(n, b)
    PROVE  Kept
<1>1. PICK p : p = buf[n][b]
  OBVIOUS
<1>2. PICK k, c, x, z : k = p.next /\ c = FirstFree(k) /\ x = Sent(p) /\ z = Taken(p)
  OBVIOUS
<1>3. Reaches(n, p) /\ UNCHANGED <<busy, made, spent, arrived, copies, excused>>
  BY <1>1 DEF Deliver, history
<1>4. k \in Nodes /\ k # n /\ c \in 1 .. Buffers /\ ~Live(buf[k][c])
  BY <1>2, <1>3, ReachesFacts
<1>5. buf' = Store(Store(buf, n, b, x), k, c, z)
  <2>1. buf' = PutFrom(n, b, x, k, p)
    BY <1>1, <1>2 DEF Deliver, PutFrom
  <2>2. PutFrom(n, b, x, k, p) = Store(Store(buf, n, b, x), k, FirstFree(k), Taken(p))
    BY <1>4, PutIsStore
  <2> QED BY <1>2, <2>1, <2>2
<1>6. Live(buf[n][b]) /\ p.id = buf[n][b].id /\ Good(n, x, made) /\ ~Live(x)
  BY <1>1, <1>2, QueuedFacts, SentIsGood
<1>7. Good(k, z, made) /\ Live(z) /\ z.id = p.id
  BY <1>1, <1>2, TakenIsGood
<1>8. busy' \in [Nodes -> BOOLEAN] /\ excused \subseteq excused'
  BY <1>3 DEF BuffersInv, Counters
<1> QED BY ONLY BuffersInv, n \in Nodes, b \in 1 .. Buffers, <1>3, <1>4, <1>5, <1>6, <1>7, <1>8,
                MoveStep DEF Kept

LEMMA DeliverUnacknowledgedKeeps ==
    ASSUME BuffersInv, NEW n \in Nodes, NEW b \in 1 .. Buffers, buf[n][b].st = "queued",
           DeliverUnacknowledged(n, b)
    PROVE  Kept
<1>1. PICK p : p = buf[n][b]
  OBVIOUS
<1>2. PICK k, c, z, j : k = p.next /\ c = FirstFree(k) /\ z = Taken(p) /\ j = p.id
  OBVIOUS
<1>3. /\ Reaches(n, p) /\ spent < MaxCopies /\ spent' = spent + 1
      /\ copies' = [copies EXCEPT ![j] = @ + 1]
      /\ UNCHANGED <<busy, made, arrived, excused>>
  BY <1>1, <1>2 DEF DeliverUnacknowledged, Spend
<1>4. k \in Nodes /\ k # n /\ c \in 1 .. Buffers /\ ~Live(buf[k][c])
  BY <1>2, <1>3, ReachesFacts
<1>5. buf' = Store(buf, k, c, z)
  <2>1. buf' = PutAt(k, p)
    BY <1>1, <1>2 DEF DeliverUnacknowledged, PutAt
  <2>2. PutAt(k, p) = Store(buf, k, FirstFree(k), Taken(p))
    BY <1>4, PutIsStore
  <2> QED BY <1>2, <2>1, <2>2
<1>6. j \in 1 .. made
  BY <1>1, <1>2, QueuedFacts
<1>7. Good(k, z, made) /\ Live(z) /\ z.id = j
  BY <1>1, <1>2, TakenIsGood
<1> QED BY ONLY BuffersInv, <1>3, <1>4, <1>5, <1>6, <1>7, CopyStep DEF Kept

LEMMA GiveUpKeeps ==
    ASSUME BuffersInv, NEW n \in Nodes, NEW b \in 1 .. Buffers, buf[n][b].st = "queued",
           GiveUp(n, b)
    PROVE  Kept
<1>1. PICK p : p = buf[n][b]
  OBVIOUS
<1>2. PICK x, j : x = Sent(p) /\ j = p.id
  OBVIOUS
<1>3. /\ buf' = Store(buf, n, b, x) /\ j \in excused' /\ excused \subseteq excused'
      /\ UNCHANGED <<busy, made, spent, arrived, copies>>
  BY <1>1, <1>2 DEF GiveUp, Store
<1>4. Live(buf[n][b]) /\ j = buf[n][b].id /\ Good(n, x, made) /\ ~Live(x)
  BY <1>1, <1>2, QueuedFacts, SentIsGood
<1>5. busy' \in [Nodes -> BOOLEAN]
  BY <1>3 DEF BuffersInv, Counters
<1> QED BY ONLY BuffersInv, n \in Nodes, b \in 1 .. Buffers, <1>3, <1>4, <1>5, ReplaceStep DEF Kept

\* The sender's buffer comes back.
LEMMA SendDoneKeeps ==
    ASSUME BuffersInv, NEW n \in Nodes, NEW b \in 1 .. Buffers, SendDone(n, b)
    PROVE  Kept
<1>1. /\ buf[n][b].st = "sent" /\ buf' = Store(buf, n, b, Free)
      /\ busy' = [busy EXCEPT ![n] = BusyAfter(n, buf[n][b])]
      /\ UNCHANGED <<made, spent, arrived, copies, excused>>
  BY DEF SendDone, Store, history
<1>2. ~Live(buf[n][b])
  BY <1>1 DEF Live, OnAir
<1>3. busy' \in [Nodes -> BOOLEAN]
  <2>1. BusyAfter(n, buf[n][b]) \in BOOLEAN
    BY DEF BusyAfter, BuffersInv, Counters
  <2> QED BY <1>1, <2>1, BusyIsTyped
<1>4. made \in Nat /\ made <= made /\ GoodBuf(buf, made)
  BY DEF BuffersInv, Counters
<1>5. /\ GoodBuf(buf', made)
      /\ \A i : At(buf', i) = At(buf, i)
  BY ONLY n \in Nodes, b \in 1 .. Buffers, <1>1, <1>2, <1>4, FreeIsGood, Added
<1>6. BuffersInv'
  BY <1>1, <1>3, <1>5 DEF BuffersInv, Counters
<1>7. ASSUME AccountsInv
      PROVE  AccountsInv'
  BY <1>1, <1>5, <1>7 DEF AccountsInv, AccountOf
<1> QED BY <1>6, <1>7 DEF Kept

\* A packet leaves its buffer for good, at its end.
LEMMA FreedStep ==
    ASSUME BuffersInv, NEW n \in Nodes, NEW b \in 1 .. Buffers, buf[n][b].st = "received",
           NEW j, j = buf[n][b].id, buf' = Store(buf, n, b, Free),
           UNCHANGED <<busy, made, spent, copies>>, excused \subseteq excused',
           \/ arrived' = [arrived EXCEPT ![j] = @ + 1]
           \/ arrived' = arrived /\ j \in excused'
    PROVE  Kept
<1>1. Live(buf[n][b]) /\ j \in 1 .. made
  BY ReceivedFacts
<1>2. Good(n, Free, made) /\ ~Live(Free)
  BY FreeIsGood
<1>3. busy' \in [Nodes -> BOOLEAN]
  BY DEF BuffersInv, Counters
<1>4. arrived' = [arrived EXCEPT ![j] = @ + 1] => arrived' # arrived
  <2>1. j \in 1 .. MaxCopies /\ arrived[j] \in Nat
    BY <1>1, ConstantFacts DEF BuffersInv, Counters
  <2>2. arrived[j] + 1 # arrived[j]
    BY <2>1
  <2> QED BY <2>1, <2>2 DEF BuffersInv, Counters
<1>5. \/ arrived' = arrived
      \/ ~Live(Free) /\ arrived' = [arrived EXCEPT ![j] = @ + 1]
  BY <1>2
<1>6. BuffersInv' /\ (AccountsInv /\ (Live(Free) \/ j \in excused' \/ arrived' # arrived) => AccountsInv')
  BY ReplaceStep, <1>1, <1>2, <1>3, <1>5
<1> QED BY <1>4, <1>6 DEF Kept

\* openbridge_receive.
LEMMA BridgeKeeps ==
    ASSUME BuffersInv, NEW b \in 1 .. Buffers, buf[Root][b].st = "received", Bridge(b)
    PROVE  Kept
<1>1. PICK j : j = buf[Root][b].id
  OBVIOUS
<1>2. /\ Root \in Nodes /\ buf' = Store(buf, Root, b, Free)
      /\ arrived' = [arrived EXCEPT ![j] = @ + 1]
      /\ UNCHANGED <<busy, made, spent, copies>> /\ excused \subseteq excused'
  BY <1>1, ConstantFacts DEF Bridge, Store
<1> QED BY ONLY BuffersInv, b \in 1 .. Buffers, buf[Root][b].st = "received", <1>1, <1>2, FreedStep

\* A packet, or the answer to it, goes on in the same buffer.
LEMMA OnwardStep ==
    ASSUME BuffersInv, NEW m \in Motes, NEW b \in 1 .. Buffers, buf[m][b].st = "received",
           NEW j, j = buf[m][b].id, NEW p \in PacketOf(AnyState, made), Sound(p),
           p.kind # "command", p.id = j, NEW next \in Nodes \cup {NoHop},
           buf' = Store(buf, m, b, Outgoing(m, p, next)),
           excused' = excused \cup Excuse(m, p, next),
           UNCHANGED <<busy, made, spent, arrived, copies>>
    PROVE  Kept
<1>1. PICK x : x = Outgoing(m, p, next)
  OBVIOUS
<1>2. m \in Nodes /\ Live(buf[m][b]) /\ made \in Nat
  BY ReceivedFacts, ConstantFacts DEF BuffersInv, Counters
<1>3. /\ Good(m, x, made) /\ (Live(x) => x.id = j)
      /\ Small /\ ~Live(x) => j \in Excuse(m, p, next)
  BY <1>1, <1>2, OutgoingFacts
<1>4. /\ buf' = Store(buf, m, b, x) /\ excused \subseteq excused'
      /\ Small /\ ~Live(x) => j \in excused'
  BY <1>1, <1>3
<1>5. busy' \in [Nodes -> BOOLEAN]
  BY DEF BuffersInv, Counters
<1>6. BuffersInv' /\ (AccountsInv /\ (Live(x) \/ j \in excused' \/ arrived' # arrived) => AccountsInv')
  BY ONLY BuffersInv, b \in 1 .. Buffers, j = buf[m][b].id,
          UNCHANGED <<busy, made, spent, arrived, copies>>, <1>2, <1>3, <1>4, <1>5, ReplaceStep
<1> QED BY <1>4, <1>6 DEF Kept

\* icmpv6echo_receive: a reply comes to its end.
LEMMA TakeReplyKeeps ==
    ASSUME BuffersInv, UNCHANGED <<made, spent>>, NEW m \in Nodes, NEW b \in 1 .. Buffers,
           buf[m][b].st = "received", TakeReply(m, b)
    PROVE  Kept
<1>1. PICK j : j = buf[m][b].id
  OBVIOUS
<1>2. /\ buf' = Store(buf, m, b, Free)
      /\ arrived' = [arrived EXCEPT ![j] = @ + 1]
      /\ UNCHANGED <<busy, made, spent, copies>> /\ excused \subseteq excused'
  BY <1>1 DEF TakeReply, Store
<1> QED BY ONLY BuffersInv, m \in Nodes, b \in 1 .. Buffers, buf[m][b].st = "received",
                <1>1, <1>2, FreedStep

\* opencoap_receive.
LEMMA ExecuteKeeps ==
    ASSUME BuffersInv, UNCHANGED <<made, spent>>, NEW m \in Motes, NEW b \in 1 .. Buffers,
           buf[m][b].st = "received", NEW next \in Nodes \cup {NoHop}, Execute(m, b, next)
    PROVE  Kept
<1>1. PICK p : p = buf[m][b]
  OBVIOUS
<1>2. PICK j, r : j = p.id /\ r = NewPacket(p.id, "report", m, p.src, "udp")
  OBVIOUS
<1>3. m \in Nodes /\ p.kind = "command" /\ UNCHANGED <<busy, copies>>
  BY <1>1, ConstantFacts DEF Execute
<1>4. CASE /\ buf' = [buf EXCEPT ![m][b] = Outgoing(m, r, next)]
           /\ excused' = excused \cup Excuse(m, r, next)
           /\ UNCHANGED arrived
  <2>1. p.src = Server /\ p.id \in 1 .. made /\ made \in Nat
    BY <1>1, <1>3, ReceivedFacts DEF Sound, BuffersInv, Counters
  <2>2. "report" \in Kinds \ {"command"} /\ "udp" \in Creators /\ p.src \in Motes \cup {Server}
    BY <2>1 DEF Kinds, Creators
  <2>3. /\ r \in PacketOf(AnyState, made) /\ Sound(r) /\ r.id = j /\ r.kind # "command"
    <3>1. PICK i, kind, d, e : i = p.id /\ kind = "report" /\ d = p.src /\ e = "udp"
      OBVIOUS
    <3>2. /\ i \in 1 .. made /\ kind \in Kinds \ {"command"} /\ e \in Creators
          /\ d \in Motes \cup {Server} /\ (kind = "request" => m \in Motes)
      BY <2>1, <2>2, <3>1
    <3>3. LET q == NewPacket(i, kind, m, d, e)
          IN  q \in PacketOf(AnyState, made) /\ Sound(q) /\ q.id = i /\ q.kind # "command"
      BY ONLY <1>3, <2>1, <3>2, NewIsSound
    <3> QED BY <1>2, <3>1, <3>3
  <2>4. buf' = Store(buf, m, b, Outgoing(m, r, next))
    BY <1>4 DEF Store
  <2> QED BY <1>1, <1>2, <1>3, <1>4, <2>3, <2>4, OnwardStep
<1>5. CASE /\ buf' = [buf EXCEPT ![m][b] = Free]
           /\ arrived' = [arrived EXCEPT ![j] = @ + 1]
           /\ UNCHANGED excused
  <2>1. buf' = Store(buf, m, b, Free) /\ j = buf[m][b].id /\ excused \subseteq excused'
    BY <1>1, <1>2, <1>5 DEF Store
  <2> QED BY <1>3, <1>5, <2>1, FreedStep
<1> QED BY <1>1, <1>2, <1>4, <1>5 DEF Execute

\* icmpv6echo_receive: a request is answered from a second buffer.
AnswerAt(m, b, x) == [buf EXCEPT ![m] = [@ EXCEPT ![b] = Free, ![FirstFree(m)] = x]]

LEMMA AnswerIsStore ==
    ASSUME BuffersInv, NEW m \in Nodes, NEW b, NEW x
    PROVE  AnswerAt(m, b, x) = Store(Store(buf, m, b, Free), m, FirstFree(m), x)
<1>1. Shape(buf)
  BY DEF BuffersInv, GoodBuf
<1>2. PICK c : c = FirstFree(m)
  OBVIOUS
<1>3. PICK h : h = Store(buf, m, b, Free)
  OBVIOUS
<1>4. h[m] = [buf[m] EXCEPT ![b] = Free]
  BY <1>1, <1>3 DEF Store, Shape
<1>7. Shape(h)
  BY <1>1, <1>3 DEF Store, Shape
<1>5. AnswerAt(m, b, x) = [h EXCEPT ![m] = [h[m] EXCEPT ![c] = x]]
  BY <1>2, <1>3, <1>4 DEF AnswerAt, Store
<1>6. [h EXCEPT ![m] = [h[m] EXCEPT ![c] = x]] = Store(h, m, c, x)
  BY <1>7, NodeStore
<1> QED BY <1>2, <1>3, <1>5, <1>6

LEMMA AnswerEchoKeeps ==
    ASSUME BuffersInv, UNCHANGED <<made, spent>>, NEW m \in Motes, NEW b \in 1 .. Buffers,
           buf[m][b].st = "received", NEW next \in Nodes \cup {NoHop}, AnswerEcho(m, b, next)
    PROVE  Kept
<1>1. PICK p : p = buf[m][b]
  OBVIOUS
<1>2. PICK j, r : j = p.id /\ r = NewPacket(p.id, "reply", m, p.src, "echo")
  OBVIOUS
<1>3. m \in Nodes /\ p.kind = "request" /\ UNCHANGED <<arrived, copies>>
  BY <1>1, ConstantFacts DEF AnswerEcho
<1>4. CASE /\ FreeBuffers(m) # {}
           /\ buf' = [buf EXCEPT ![m] = [@ EXCEPT ![b] = Free,
                                                 ![FirstFree(m)] = Outgoing(m, r, next)]]
           /\ busy' = [busy EXCEPT ![m] = ~Fails(m, r, next)]
           /\ excused' = excused \cup Excuse(m, r, next)
  <2>1. p.src \in Motes /\ p.id \in 1 .. made /\ made \in Nat
    BY <1>1, <1>3, ReceivedFacts DEF Sound, BuffersInv, Counters
  <2>2. "reply" \in Kinds \ {"command"} /\ "echo" \in Creators /\ p.src \in Motes \cup {Server}
    BY <2>1 DEF Kinds, Creators
  <2>3. /\ r \in PacketOf(AnyState, made) /\ Sound(r) /\ r.id = j /\ r.kind # "command"
    BY <1>2, <1>3, <2>1, <2>2, NewIsSound
  <2>4. PICK x, c : x = Outgoing(m, r, next) /\ c = FirstFree(m)
    OBVIOUS
  <2>5. /\ Good(m, x, made) /\ (Live(x) => x.id = j)
        /\ Small /\ ~Live(x) => j \in Excuse(m, r, next)
    BY <2>1, <2>3, <2>4, OutgoingFacts
  <2>6. buf' = Store(Store(buf, m, b, Free), m, c, x)
    <3>1. buf' = AnswerAt(m, b, x)
      BY <1>4, <2>4 DEF AnswerAt
    <3> QED BY <1>3, <2>4, <3>1, AnswerIsStore
  <2>7. busy' \in [Nodes -> BOOLEAN]
    BY <1>4, FailsOrNot, BusyIsTyped
  <2>8. c \in 1 .. Buffers /\ ~Live(buf[m][c])
    BY <1>3, <1>4, <2>4, FirstSlot
  <2>9. Live(buf[m][b]) /\ j = buf[m][b].id /\ Good(m, Free, made) /\ ~Live(Free)
    BY <1>1, <1>2, <1>3, ReceivedFacts, FreeIsGood
  <2>10. excused \subseteq excused' /\ (Small /\ ~Live(x) => j \in excused')
    BY <1>4, <2>5
  <2>11. BuffersInv' /\ (AccountsInv /\ (Live(x) \/ j \in excused') => AccountsInv')
    BY ONLY BuffersInv, b \in 1 .. Buffers, UNCHANGED <<made, spent>>, <1>3, <2>5, <2>6, <2>7,
            <2>8, <2>9, <2>10, MoveStep
  <2> QED BY <2>10, <2>11 DEF Kept
<1>5. CASE /\ buf' = [buf EXCEPT ![m][b] = Free]
           /\ excused' = excused \cup {j}
           /\ UNCHANGED busy
  <2>1. /\ buf' = Store(buf, m, b, Free) /\ j = buf[m][b].id
        /\ excused \subseteq excused' /\ j \in excused'
    BY <1>1, <1>2, <1>5 DEF Store
  <2> QED BY <1>3, <1>5, <2>1, FreedStep
<1> QED BY <1>1, <1>2, <1>4, <1>5 DEF AnswerEcho

\* A packet that forwarding_receive passes on: it has another creator, and has
\* perhaps one segment less to go.
LEMMA AdoptedFacts ==
    ASSUME NEW k \in Nat, NEW y \in PacketOf(AnyState, k), Sound(y), NEW l \in 0 .. 2, l <= y.left
    PROVE  LET p == [y EXCEPT !.creator = "forwarding", !.left = l]
           IN  /\ p \in PacketOf(AnyState, k) /\ Sound(p)
               /\ p.id = y.id /\ p.kind = y.kind /\ p.routed = y.routed
               /\ p.hops = y.hops /\ p.route = y.route
<1>1. PICK p : p = [y EXCEPT !.creator = "forwarding", !.left = l]
  OBVIOUS
<1>2. p = [st |-> y.st, id |-> y.id, kind |-> y.kind, src |-> y.src, dst |-> y.dst,
           hops |-> y.hops, routed |-> y.routed, route |-> y.route, left |-> l,
           creator |-> "forwarding", next |-> y.next, seen |-> y.seen, circled |-> y.circled]
  BY <1>1 DEF PacketOf
<1>3. p \in PacketOf(AnyState, k)
  BY <1>2 DEF PacketOf, Creators
<1>4. l <= Len(y.route)
  <2>1. y.left <= Len(y.route) /\ y.left \in 0 .. 2 /\ Len(y.route) \in Nat
    <3>1. y.route \in Seq(Motes)
      BY SeqOfFacts, 2 \in Nat DEF PacketOf
    <3> QED BY <3>1 DEF Sound, PacketOf
  <2>2. \A a, b, c \in Nat : a <= b /\ b <= c => a <= c
    OBVIOUS
  <2> QED BY <2>1, <2>2
<1>5. Sound(p)
  BY <1>2, <1>4 DEF Sound, CountsHops
<1> QED BY <1>1, <1>2, <1>3, <1>5

LEMMA RelayKeeps ==
    ASSUME BuffersInv, UNCHANGED <<made, spent>>, NEW m \in Motes, NEW b \in 1 .. Buffers,
           buf[m][b].st = "received", Relay(m, b)
    PROVE  Kept
<1>1. PICK y, p : y = buf[m][b] /\ p = [y EXCEPT !.creator = "forwarding"]
  OBVIOUS
<1>2. /\ ~p.routed /\ p.dst # m /\ UNCHANGED <<busy, arrived, copies>>
      /\ \E next \in NextHops(m, p.dst) :
             /\ buf' = [buf EXCEPT ![m] = Relayed(m, b, p, next)]
             /\ excused' = excused \cup Excuse(m, p, next)
  BY <1>1 DEF Relay
<1>3. PICK next \in NextHops(m, p.dst) :
          /\ buf' = [buf EXCEPT ![m] = Relayed(m, b, p, next)]
          /\ excused' = excused \cup Excuse(m, p, next)
  BY <1>2
<1>4. m \in Nodes /\ made \in Nat /\ Shape(buf)
  BY ConstantFacts DEF BuffersInv, Counters, GoodBuf
<1>5. y \in PacketOf(AnyState, made) /\ Sound(y) /\ OneHop(m, y) /\ y.st = "received"
  BY <1>1, <1>4, ReceivedFacts
<1>6. /\ p \in PacketOf(AnyState, made) /\ Sound(p) /\ p.id = y.id /\ p.kind = y.kind
      /\ p.routed = y.routed /\ p.dst = y.dst
  <2>1. y.left \in 0 .. 2 /\ y.left <= y.left
    BY <1>5 DEF PacketOf
  <2>2. p = [y EXCEPT !.creator = "forwarding", !.left = y.left] /\ p.dst = y.dst
    BY <1>1, <1>5 DEF PacketOf
  <2> QED BY <1>4, <1>5, <2>1, <2>2, AdoptedFacts
<1>7. p.kind # "command"
  BY <1>2, <1>5, <1>6 DEF OneHop
<1>8. buf' = Store(buf, m, b, Outgoing(m, p, next))
  <2>1. PICK x : x = Outgoing(m, p, next)
    OBVIOUS
  <2>2. buf' = [buf EXCEPT ![m] = [buf[m] EXCEPT ![b] = x]]
    BY <1>3, <2>1 DEF Relayed
  <2> QED BY <1>4, <2>1, <2>2, NodeStore
<1>9. next \in Nodes \cup {NoHop}
  BY <1>4, NextHopFacts
<1> QED BY <1>1, <1>2, <1>3, <1>6, <1>7, <1>8, <1>9, OnwardStep

LEMMA FollowRouteKeeps ==
    ASSUME BuffersInv, UNCHANGED <<made, spent>>, NEW m \in Motes, NEW b \in 1 .. Buffers,
           buf[m][b].st = "received", FollowRoute(m, b)
    PROVE  Kept
<1>1. PICK y, p : /\ y = buf[m][b]
                  /\ p = [y EXCEPT !.creator = "forwarding", !.left = @ - 1]
  OBVIOUS
<1>2. PICK next, x : next = p.route[p.left + 1] /\ x = Queued(m, p, next)
  OBVIOUS
<1>3. /\ p.routed /\ p.left >= 0 /\ p.hops > 0
      /\ buf' = Store(buf, m, b, x) /\ UNCHANGED <<busy, arrived, copies, excused>>
  BY <1>1, <1>2 DEF FollowRoute, Store
<1>4. m \in Nodes /\ made \in Nat
  BY ConstantFacts DEF BuffersInv, Counters
<1>5. y \in PacketOf(AnyState, made) /\ Sound(y) /\ Live(buf[m][b])
  BY <1>1, <1>4, ReceivedFacts
<1>6. p.left = y.left - 1 /\ y.left - 1 \in 0 .. 2 /\ y.left - 1 <= y.left
  <2>1. y.left \in 0 .. 2 /\ p.left = y.left - 1
    BY <1>1, <1>5 DEF PacketOf
  <2> QED BY <1>3, <2>1
<1>7. /\ p \in PacketOf(AnyState, made) /\ Sound(p) /\ p.id = y.id /\ p.kind = y.kind
      /\ p.routed = y.routed /\ p.hops = y.hops /\ p.route = y.route
  <2>1. p = [y EXCEPT !.creator = "forwarding", !.left = y.left - 1]
    BY <1>1, <1>5 DEF PacketOf
  <2> QED BY <1>4, <1>5, <1>6, <2>1, AdoptedFacts, ZenonT(30)
<1>8. next \in Nodes
  <2>1. p.route \in Seq(Motes) /\ Len(p.route) \in Nat
    BY <1>7, SeqOfFacts, 2 \in Nat DEF PacketOf
  <2>2. y.left \in 0 .. 2 /\ y.left <= Len(p.route) /\ p.left + 1 = y.left
    BY <1>5, <1>6, <1>7 DEF PacketOf, Sound
  <2>3. \A l \in 0 .. 2, k \in Nat : l - 1 \in 0 .. 2 /\ l <= k => l \in 1 .. k
    OBVIOUS
  <2>4. p.left + 1 \in 1 .. Len(p.route)
    BY <1>6, <2>1, <2>2, <2>3
  <2>5. next \in Motes
    BY <1>2, <2>1, <2>4, ElementOfSeq
  <2> QED BY <2>5, ConstantFacts
<1>9. p.hops # 0 /\ (p.kind = "command" => p.routed)
  BY <1>3
<1>10. Good(m, x, made) /\ Live(x) /\ x.id = p.id
  BY ONLY m \in Motes, <1>2, <1>4, <1>7, <1>8, <1>9, QueuedIsGood
<1>11. PICK j : j = buf[m][b].id
  OBVIOUS
<1>12. Live(buf[m][b]) /\ x.id = j /\ busy' \in [Nodes -> BOOLEAN] /\ excused \subseteq excused'
  BY <1>1, <1>3, <1>5, <1>7, <1>10, <1>11 DEF BuffersInv, Counters
<1> QED BY ONLY BuffersInv, UNCHANGED <<made, spent>>, b \in 1 .. Buffers,
                <1>3, <1>4, <1>10, <1>11, <1>12, ReplaceStep DEF Kept

LEMMA ReceiveKeeps ==
    ASSUME BuffersInv, NEW n \in Nodes, NEW b \in 1 .. Buffers, Receive(n, b)
    PROVE  Kept
<1>1. buf[n][b].st = "received"
  BY DEF Receive
<1>2. CASE n = Root
  BY <1>1, <1>2, BridgeKeeps DEF Receive
<1>3. CASE n # Root
  <2>1. n \in Motes /\ UNCHANGED <<made, spent>>
    BY <1>3, ConstantFacts DEF Receive, ReceiveAtMote
  <2>2. CASE Relay(n, b)
    BY <1>1, <2>1, <2>2, RelayKeeps
  <2>3. CASE FollowRoute(n, b)
    BY <1>1, <2>1, <2>3, FollowRouteKeeps
  <2>4. CASE TakeReply(n, b)
    BY <1>1, <2>1, <2>4, TakeReplyKeeps
  <2>5. ASSUME NEW next \in NextHops(n, buf[n][b].src),
               AnswerEcho(n, b, next) \/ Execute(n, b, next)
        PROVE  Kept
    <3>1. next \in Nodes \cup {NoHop}
      BY NextHopFacts
    <3>2. CASE AnswerEcho(n, b, next)
      BY <1>1, <2>1, <3>1, <3>2, AnswerEchoKeeps
    <3>3. CASE Execute(n, b, next)
      BY <1>1, <2>1, <3>1, <3>3, ExecuteKeeps
    <3> QED BY <2>5, <3>2, <3>3
  <2>6. Relay(n, b) \/ FollowRoute(n, b) \/ HandUp(n, b)
    BY <1>3 DEF Receive, ReceiveAtMote
  <2> QED BY <2>2, <2>3, <2>4, <2>5, <2>6 DEF HandUp
<1> QED BY <1>2, <1>3

LEMMA NextKeeps ==
    ASSUME BuffersInv, [Next]_vars
    PROVE  Kept
<1>1. CASE UNCHANGED vars
  <2>1. UNCHANGED <<buf, busy, made, spent, arrived, copies, excused>>
    BY <1>1 DEF vars, history
  <2>2. BuffersInv'
    BY <2>1 DEF BuffersInv, Counters
  <2>3. AccountsInv => AccountsInv'
    BY <2>1 DEF AccountsInv, AccountOf
  <2> QED BY <2>2, <2>3 DEF Kept
<1>2. ASSUME NEW n \in Origins, NEW dst \in Motes \ {n}, Trigger(n, dst)
      PROVE  Kept
  BY <1>2, TriggerKeeps, ForwardingAssumption
<1>3. ASSUME NEW m \in Origins \ {Root}, Report(m)
      PROVE  Kept
  BY <1>3, ReportKeeps, ForwardingAssumption
<1>4. ASSUME NEW path \in Paths, NEW routed \in BOOLEAN, Command(path, routed)
      PROVE  Kept
  BY <1>4, CommandKeeps
<1>5. ASSUME NEW n \in Nodes, NEW b \in 1 .. Buffers, Transmit(n, b)
      PROVE  Kept
  BY <1>5, DeliverKeeps, DeliverUnacknowledgedKeeps, GiveUpKeeps DEF Transmit
<1>6. ASSUME NEW n \in Nodes, NEW b \in 1 .. Buffers, SendDone(n, b) \/ Receive(n, b)
      PROVE  Kept
  BY <1>6, SendDoneKeeps, ReceiveKeeps
<1>7. CASE Next
  BY <1>2, <1>3, <1>4, <1>5, <1>6, <1>7 DEF Next, Originate, Handle
<1> QED BY <1>1, <1>7

LEMMA InitIsInv == Init => BuffersInv /\ AccountsInv
<1> SUFFICES ASSUME Init
             PROVE  BuffersInv /\ AccountsInv
  OBVIOUS
<1>1. Counters /\ made = 0
  BY ConstantFacts DEF Init, Counters
<1>2. GoodBuf(buf, made)
  <2>1. Shape(buf) /\ \A n \in Nodes, b \in 1 .. Buffers : buf[n][b] = Free
    BY DEF Init, Shape
  <2> QED BY <2>1, FreeIsGood DEF GoodBuf
<1>3. AccountsInv
  BY <1>1 DEF Init, AccountsInv
<1> QED BY <1>1, <1>2, <1>3 DEF BuffersInv

-----------------------------------------------------------------------------
(* The theorems.                                                              *)

\* What every buffer holds is a packet with the fields its kind needs.
THEOREM ForwardingInvariant == Spec => []BuffersInv
<1>1. Init => BuffersInv
  BY InitIsInv
<1>2. BuffersInv /\ [Next]_vars => BuffersInv'
  BY NextKeeps DEF Kept
<1> QED BY <1>1, <1>2, PTL DEF Spec

\* Every buffer is free, or holds a packet on its way, with a route that is as
\* long as the segments left, or one that is done with.
THEOREM ForwardingType == Spec => []ForwardingTypeOK
<1>1. BuffersInv => ForwardingTypeOK
  <2> SUFFICES ASSUME BuffersInv
               PROVE  ForwardingTypeOK
    OBVIOUS
  <2>1. ASSUME NEW n \in Nodes, NEW b \in 1 .. Buffers
        PROVE  \/ buf[n][b] = Free
               \/ buf[n][b].st = "sent"
               \/ buf[n][b] \in Packet /\ buf[n][b].left <= Len(buf[n][b].route)
    <3>1. Good(n, buf[n][b], made)
      BY SlotFacts
    <3>2. buf[n][b] \in SentRecord => buf[n][b].st = "sent"
      BY DEF SentRecord
    <3> QED BY <3>1, <3>2, PacketIsPacketOf DEF Good, Sound
  <2> QED BY <2>1 DEF ForwardingTypeOK, BuffersInv, Counters
<1> QED BY <1>1, ForwardingInvariant, PTL

\* In a network of no more motes than the hop limit, a packet is multiplied by
\* lost acknowledgements only, and none vanishes unless the MAC gave it up, a
\* mote had no next hop or no buffer for it, or it went in a circle.
THEOREM ForwardingAccounts ==
    ASSUME IsFiniteSet(Motes), Cardinality(Motes) <= HopLimit
    PROVE  Spec => []PacketsAccounted
<1>1. Small
  BY DEF Small
<1>2. Init => BuffersInv /\ AccountsInv
  BY InitIsInv
<1>3. BuffersInv /\ AccountsInv /\ [Next]_vars => (BuffersInv /\ AccountsInv)'
  BY <1>1, NextKeeps DEF Kept
<1>4. AccountsInv => PacketsAccounted
  <2> SUFFICES ASSUME AccountsInv, NEW i \in 1 .. made
               PROVE  /\ Cardinality(Alive(i)) + arrived[i] <= 1 + copies[i]
                      /\ Alive(i) # {} \/ arrived[i] > 0 \/ i \in excused
    BY DEF PacketsAccounted
  <2> QED BY AliveIsAt DEF AccountsInv, AccountOf, Balanced
<1> QED BY <1>2, <1>3, <1>4, PTL DEF Spec
==============================================================================
