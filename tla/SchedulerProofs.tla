--------------------------- MODULE SchedulerProofs ---------------------------
(***************************************************************************)
(* For every number of containers and priorities, whatever push interrupts *)
(* whatever two memory accesses of the loop: the list of tasks ends, the   *)
(* task that runs is out of it, and as long as no push has come in the     *)
(* windows of the loop the list is sorted and no container is lost.        *)
(***************************************************************************)
EXTENDS Scheduler, FiniteSetTheorems, WellFoundedInduction, TLAPS

-----------------------------------------------------------------------------
(* Induction, as the least member of the set of counterexamples, and the      *)
(* iteration of a function, which gives recursive definitions their value.    *)

LEMMA LeastMember ==
    ASSUME NEW S, S \subseteq Nat, S # {}
    PROVE  \E m \in S : \A x \in S : m <= x
<1>1. IsWellFoundedOn(OpToRel(<, Nat), Nat)
  BY NatLessThanWellFounded, Zenon
<1>2. PICK m \in S : \A y \in S : ~(<<y, m>> \in OpToRel(<, Nat))
  BY <1>1, WFMin, Zenon
<1>3. \A y \in S : ~(y < m)
  BY <1>2, Zenon DEF OpToRel
<1> QED BY <1>3, SMT

LEMMA MinIsLeast ==
    ASSUME NEW S, S \subseteq Nat, S # {}
    PROVE  Min(S) \in S /\ \A x \in S : Min(S) <= x
<1>1. \E m \in S : \A x \in S : m =< x
  BY LeastMember
<1> QED BY <1>1, Zenon DEF Min

\* f iterates h from start.
Iterates(f, h, start, S) ==
    f \in [Nat -> S] /\ f[0] = start /\ \A n \in Nat : f[n + 1] = h[f[n]]

LEMMA Iteration ==
    ASSUME NEW S, NEW h, h \in [S -> S], NEW start, start \in S
    PROVE  \E f : Iterates(f, h, start, S)
<1> DEFINE Prefix(n, g) == /\ g \in [0 .. n -> S] /\ g[0] = start
                           /\ \A i \in 0 .. (n - 1) : g[i + 1] = h[g[i]]
<1>1. \A n \in Nat : \E g : Prefix(n, g)
  <2> DEFINE Bad == {n \in Nat : ~ \E g : Prefix(n, g)}
  <2> SUFFICES ASSUME Bad # {}
               PROVE  FALSE
    OBVIOUS
  <2>1. PICK m \in Bad : \A x \in Bad : m <= x
    <3> HIDE DEF Bad
    <3>1. Bad \subseteq Nat
      BY DEF Bad
    <3> QED BY <3>1, LeastMember
  <2>2. Prefix(0, [i \in 0 .. 0 |-> start])
    OBVIOUS
  <2>3. m \in Nat /\ m # 0
    BY <2>1, <2>2
  <2>4. m - 1 \in Nat /\ m - 1 \notin Bad
    BY <2>1, <2>3, SMTT(30)
  <2>5. PICK g : Prefix(m - 1, g)
    BY <2>4
  <2> DEFINE e == [i \in 0 .. m |-> IF i = m THEN h[g[m - 1]] ELSE g[i]]
  <2>6. g[m - 1] \in S /\ \A i \in 0 .. m : i # m => g[i] \in S
    BY <2>3, <2>5
  <2>7. e \in [0 .. m -> S]
    BY <2>6
  <2>8. e[0] = start
    BY <2>3, <2>5
  <2>9. ASSUME NEW i \in 0 .. (m - 1)
        PROVE  e[i + 1] = h[e[i]]
    <3>1. e[i] = g[i]
      BY <2>3
    <3>2. CASE i = m - 1
      BY <2>3, <3>1, <3>2
    <3>3. CASE i # m - 1
      <4>1. i \in 0 .. (m - 1 - 1) /\ i + 1 \in 0 .. m /\ i + 1 # m
        BY <2>3, <3>3
      <4> QED BY <2>5, <3>1, <4>1
    <3> QED BY <3>2, <3>3
  <2>10. Prefix(m, e)
    <3> HIDE DEF e
    <3> QED BY <2>7, <2>8, <2>9
  <2> QED BY <2>1, <2>10
<1>2. ASSUME NEW n \in Nat, NEW m \in Nat, NEW g, NEW e, Prefix(n, g), Prefix(m, e)
      PROVE  \A i \in Nat : i <= n /\ i <= m => g[i] = e[i]
  <2> DEFINE Bad == {i \in Nat : i <= n /\ i <= m /\ g[i] # e[i]}
  <2> SUFFICES ASSUME Bad # {}
               PROVE  FALSE
    OBVIOUS
  <2>1. PICK i \in Bad : \A x \in Bad : i <= x
    <3> HIDE DEF Bad
    <3>1. Bad \subseteq Nat
      BY DEF Bad
    <3> QED BY <3>1, LeastMember
  <2>2. i # 0 /\ i \in Nat /\ i <= n /\ i <= m /\ g[i] # e[i]
    BY <1>2, <2>1
  <2>3. i - 1 \in Nat /\ i - 1 \in 0 .. (n - 1) /\ i - 1 \in 0 .. (m - 1) /\ i - 1 + 1 = i
    BY <2>2
  <2>4. g[i - 1] = e[i - 1]
    <3>1. i - 1 \notin Bad
      BY <2>1, <2>3
    <3> QED BY <2>2, <2>3, <3>1
  <2> QED BY <1>2, <2>2, <2>3, <2>4
<1> DEFINE G(n) == CHOOSE g : Prefix(n, g)
<1>3. \A n \in Nat : Prefix(n, G(n))
  BY <1>1, Zenon
<1> DEFINE f == [n \in Nat |-> G(n)[n]]
<1> HIDE DEF G
<1>4. f \in [Nat -> S]
  BY <1>3
<1>5. f[0] = start
  BY <1>3
<1>6. ASSUME NEW n \in Nat
      PROVE  f[n + 1] = h[f[n]]
  <2>1. Prefix(n, G(n)) /\ Prefix(n + 1, G(n + 1))
    BY <1>3
  <2>2. G(n)[n] = G(n + 1)[n]
    <3> HIDE DEF Prefix
    <3> QED BY <1>2, <2>1
  <2>3. n \in 0 .. (n + 1 - 1)
    OBVIOUS
  <2>4. G(n + 1)[n + 1] = h[G(n + 1)[n]]
    BY <2>1, <2>3
  <2> QED BY <2>2, <2>4
<1>7. Iterates(f, h, start, S)
  <2> HIDE DEF f
  <2> QED BY <1>4, <1>5, <1>6 DEF Iterates
<1> QED BY <1>7

-----------------------------------------------------------------------------
(* Walks along the links of an array of containers. *)

Places == Containers \cup {NoTask}

\* What a link of the array buf leads to.
After(buf, c) == IF c = NoTask THEN NoTask ELSE buf[c].next

\* f is the walk from head along the links of buf.
Walk(f, head, buf) ==
    /\ f \in [Nat -> Places]
    /\ f[0] = head
    /\ \A k \in Nat : f[k + 1] = After(buf, f[k])

LEMMA Sizes ==
    /\ Depth \in Nat \ {0} /\ MaxPrio \in Nat \ {0}
    /\ Containers \subseteq Nat /\ NoTask \notin Containers
    /\ IsFiniteSet(Containers) /\ Cardinality(Containers) = Depth
    /\ Depth \in 0 .. Depth
<1>1. Depth \in Nat \ {0} /\ MaxPrio \in Nat \ {0}
  BY SchedulerAssumption
<1>2. IsFiniteSet(1 .. Depth) /\ Cardinality(1 .. Depth) = Depth
  BY <1>1, FS_Interval
<1> QED BY <1>1, <1>2 DEF Containers, NoTask

LEMMA HopIsWalk == SchedulerTypeOK => Walk(Hop, task_list, taskBuf)
<1> SUFFICES ASSUME SchedulerTypeOK
             PROVE  Walk(Hop, task_list, taskBuf)
  OBVIOUS
<1>0. task_list \in Places /\ \A c \in Places : After(taskBuf, c) \in Places
  BY DEF SchedulerTypeOK, Container, After, Places
<1>1. PICK h \in [Places -> Places] : \A c \in Places : h[c] = After(taskBuf, c)
  <2>1. [c \in Places |-> After(taskBuf, c)] \in [Places -> Places]
    BY <1>0
  <2> QED BY <2>1
<1>2. PICK f \in [Nat -> Places] : f[0] = task_list /\ \A n \in Nat : f[n + 1] = h[f[n]]
  <2>1. \E f : Iterates(f, h, task_list, Places)
    BY <1>0, Iteration, Zenon
  <2> QED BY <2>1 DEF Iterates
<1>3. f = [k \in Nat |-> IF k = 0 THEN task_list
                         ELSE IF f[k - 1] = NoTask THEN NoTask ELSE taskBuf[f[k - 1]].next]
  <2> SUFFICES ASSUME NEW k \in Nat
               PROVE  f[k] = IF k = 0 THEN task_list
                             ELSE IF f[k - 1] = NoTask THEN NoTask ELSE taskBuf[f[k - 1]].next
    BY <1>2
  <2>1. CASE k = 0
    BY <1>2, <2>1
  <2>2. CASE k # 0
    <3>1. k - 1 \in Nat /\ k - 1 + 1 = k
      BY <2>2
    <3>2. f[k] = h[f[k - 1]] /\ f[k - 1] \in Places
      BY <1>2, <3>1
    <3>3. f[k] = After(taskBuf, f[k - 1])
      BY <1>1, <3>2
    <3> QED BY <2>2, <3>3 DEF After
  <2> QED BY <2>1, <2>2
<1>4. Hop = [k \in Nat |-> IF k = 0 THEN task_list
                           ELSE IF Hop[k - 1] = NoTask THEN NoTask ELSE taskBuf[Hop[k - 1]].next]
  BY <1>3, Zenon DEF Hop
<1>5. Hop[0] = task_list
  BY <1>4
<1>6. \A k \in Nat : Hop[k + 1] = After(taskBuf, Hop[k])
  <2> SUFFICES ASSUME NEW k \in Nat
               PROVE  Hop[k + 1] = After(taskBuf, Hop[k])
    OBVIOUS
  <2>1. k + 1 \in Nat /\ k + 1 # 0 /\ k + 1 - 1 = k
    OBVIOUS
  <2> QED BY <1>4, <2>1 DEF After
<1>7. \A k \in Nat : Hop[k] \in Places
  <2> DEFINE Bad == {k \in Nat : Hop[k] \notin Places}
  <2> SUFFICES ASSUME Bad # {}
               PROVE  FALSE
    OBVIOUS
  <2>1. PICK k \in Bad : \A x \in Bad : k <= x
    <3> HIDE DEF Bad
    <3>1. Bad \subseteq Nat
      BY DEF Bad
    <3> QED BY <3>1, LeastMember
  <2>2. k \in Nat /\ k # 0 /\ Hop[k] \notin Places
    BY <1>0, <1>5, <2>1
  <2>3. k - 1 \in Nat /\ k - 1 + 1 = k /\ Hop[k - 1] \in Places
    BY <2>1, <2>2
  <2>4. Hop[k] = After(taskBuf, Hop[k - 1]) /\ After(taskBuf, Hop[k - 1]) \in Places
    BY <1>0, <1>6, <2>3
  <2> QED BY <2>2, <2>3, <2>4
<1>8. Hop \in [Nat -> Places]
  <2>1. Hop = [k \in Nat |-> Hop[k]]
    BY <1>4
  <2> QED BY <1>7, <2>1
<1> QED BY <1>5, <1>6, <1>8 DEF Walk

LEMMA WalkUnique ==
    ASSUME NEW f, NEW g, NEW head, NEW buf, Walk(f, head, buf), Walk(g, head, buf)
    PROVE  f = g
<1> DEFINE Bad == {k \in Nat : f[k] # g[k]}
<1>1. Bad = {}
  <2> SUFFICES ASSUME Bad # {}
               PROVE  FALSE
    OBVIOUS
  <2>1. PICK k \in Bad : \A x \in Bad : k <= x
    <3> HIDE DEF Bad
    <3>1. Bad \subseteq Nat
      BY DEF Bad
    <3> QED BY <3>1, LeastMember
  <2>2. k \in Nat /\ k # 0 /\ f[k] # g[k]
    BY <2>1 DEF Walk
  <2>3. k - 1 \in Nat /\ k - 1 + 1 = k /\ f[k - 1] = g[k - 1]
    BY <2>1, <2>2
  <2>4. f[k] = After(buf, f[k - 1]) /\ g[k] = After(buf, g[k - 1])
    BY <2>3 DEF Walk
  <2> QED BY <2>2, <2>3, <2>4
<1> QED BY <1>1 DEF Walk

\* A walk that comes back to where it was goes on as it did.
LEMMA WalkRepeats ==
    ASSUME NEW f, NEW head, NEW buf, Walk(f, head, buf),
           NEW i \in Nat, NEW j \in Nat, f[i] = f[j]
    PROVE  \A m \in Nat : f[i + m] = f[j + m]
<1> DEFINE Bad == {m \in Nat : f[i + m] # f[j + m]}
<1> SUFFICES ASSUME Bad # {}
             PROVE  FALSE
  OBVIOUS
<1>1. PICK m \in Bad : \A x \in Bad : m <= x
  <2> HIDE DEF Bad
  <2>1. Bad \subseteq Nat
    BY DEF Bad
  <2> QED BY <2>1, LeastMember
<1>2. m \in Nat /\ m # 0 /\ f[i + m] # f[j + m]
  BY <1>1
<1>3. m - 1 \in Nat /\ f[i + (m - 1)] = f[j + (m - 1)]
  BY <1>1, <1>2
<1>4. /\ i + (m - 1) \in Nat /\ i + (m - 1) + 1 = i + m
      /\ j + (m - 1) \in Nat /\ j + (m - 1) + 1 = j + m
  BY <1>2
<1>5. /\ f[i + m] = After(buf, f[i + (m - 1)])
      /\ f[j + m] = After(buf, f[j + (m - 1)])
  BY <1>4 DEF Walk
<1> QED BY <1>2, <1>3, <1>5

\* A walk that has come to its end stays there.
LEMMA WalkStays ==
    ASSUME NEW f, NEW head, NEW buf, Walk(f, head, buf),
           NEW i \in Nat, f[i] = NoTask, NEW j \in Nat, i <= j
    PROVE  f[j] = NoTask
<1>1. f[i + 1] = NoTask
  BY DEF Walk, After
<1>2. \A m \in Nat : f[i + m] = f[i + 1 + m]
  BY <1>1, WalkRepeats
<1> DEFINE Bad == {m \in Nat : f[i + m] # NoTask}
<1>3. Bad = {}
  <2> SUFFICES ASSUME Bad # {}
               PROVE  FALSE
    OBVIOUS
  <2>1. PICK m \in Bad : \A x \in Bad : m <= x
    <3> HIDE DEF Bad
    <3>1. Bad \subseteq Nat
      BY DEF Bad
    <3> QED BY <3>1, LeastMember
  <2>2. m \in Nat /\ m # 0 /\ f[i + m] # NoTask
    BY <2>1
  <2>3. m - 1 \in Nat /\ f[i + (m - 1)] = NoTask /\ i + 1 + (m - 1) = i + m
    BY <2>1, <2>2
  <2> QED BY <1>2, <2>2, <2>3
<1>4. j - i \in Nat /\ i + (j - i) = j
  OBVIOUS
<1>5. f[i + (j - i)] = NoTask
  BY <1>3, <1>4
<1> QED BY <1>4, <1>5

\* Before its end a walk passes no container twice.
LEMMA WalkDistinct ==
    ASSUME NEW f, NEW head, NEW buf, Walk(f, head, buf),
           NEW n \in Nat, f[n] = NoTask,
           NEW i \in Nat, NEW j \in Nat, i < j, f[i] = f[j]
    PROVE  f[i] = NoTask
<1> DEFINE Ends == {k \in Nat : f[k] = NoTask}
<1>1. PICK e \in Ends : \A x \in Ends : e <= x
  <2>1. Ends \subseteq Nat /\ n \in Ends
    OBVIOUS
  <2> HIDE DEF Ends
  <2> QED BY <2>1, LeastMember
<1>2. e \in Nat /\ f[e] = NoTask
  BY <1>1
<1>3. CASE j <= e
  <2>1. e - j \in Nat /\ j + (e - j) = e /\ i + (e - j) \in Nat /\ i + (e - j) < e
    BY <1>2, <1>3
  <2>2. f[i + (e - j)] = f[j + (e - j)]
    BY <2>1, WalkRepeats
  <2>3. i + (e - j) \in Ends
    BY <1>2, <2>1, <2>2
  <2> QED BY <1>1, <1>2, <2>1, <2>3
<1>4. CASE ~(j <= e)
  <2>1. e <= j
    BY <1>2, <1>4
  <2>2. f[j] = NoTask
    BY <1>2, <2>1, WalkStays
  <2> QED BY <2>2
<1> HIDE DEF Ends
<1> QED BY <1>3, <1>4, Zenon

\* A walk that ends passes at most every container once.
LEMMA WalkEndsInTime ==
    ASSUME NEW f, NEW head, NEW buf, Walk(f, head, buf),
           NEW n \in Nat, f[n] = NoTask
    PROVE  f[Depth] = NoTask
<1> SUFFICES ASSUME f[Depth] # NoTask
             PROVE  FALSE
  OBVIOUS
<1>1. \A k \in 0 .. Depth : f[k] \in Containers
  <2> SUFFICES ASSUME NEW k \in 0 .. Depth, f[k] = NoTask
               PROVE  FALSE
    BY DEF Walk, Places
  <2> QED BY Sizes, WalkStays
<1> DEFINE g == [k \in 0 .. Depth |-> f[k]]
<1>2. g \in [0 .. Depth -> Containers]
  BY <1>1
<1>3. IsFiniteSet(0 .. Depth) /\ Cardinality(0 .. Depth) = Depth + 1
  BY Sizes, FS_Interval
<1>4. Cardinality(Containers) < Cardinality(0 .. Depth)
  BY <1>3, Sizes
<1>5. PICK x \in 0 .. Depth, y \in 0 .. Depth : x # y /\ g[x] = g[y]
  <2> HIDE DEF g
  <2> QED BY <1>2, <1>3, <1>4, Sizes, FS_PigeonHole
<1>6. x \in Nat /\ y \in Nat /\ f[x] = f[y] /\ (x < y \/ y < x)
  BY <1>5, Sizes
<1> QED BY <1>1, <1>5, <1>6, Sizes, WalkDistinct

-----------------------------------------------------------------------------
(* The inductive invariant. *)

\* The list ends, and a listed container is in use: the search for a free one
\* cannot find it.
ListInv ==
    /\ Hop[Depth] = NoTask
    /\ \A c \in Listed : taskBuf[c].full

\* Where the loop stands.  Between the load and the store the list still holds
\* the task it took and, behind it, the one it has read; pushes in between come
\* to lie before or between them.
LoopInv ==
    /\ pc = "test" <=> pThisTask = NoTask
    /\ pc = "load" => /\ pThisTask \in Listed
                      /\ ~raced => pThisTask = task_list
    /\ pc = "store" => /\ \E i, j \in 0 .. Depth : i < j /\ Hop[i] = pThisTask /\ Hop[j] = loaded
                       /\ ~raced => pThisTask = task_list /\ loaded = taskBuf[pThisTask].next
    /\ pc \in {"run", "clear_cb"} => taskBuf[pThisTask].full /\ pThisTask \notin Listed
    /\ pc \in {"clear_prio", "clear_next"} /\ ~raced
         => ~taskBuf[pThisTask].full /\ pThisTask \notin Listed

Sorted ==
    ~raced => \A c \in Listed : taskBuf[c].next # NoTask =>
                  taskBuf[c].prio <= taskBuf[taskBuf[c].next].prio

SchedulerInv ==
    /\ SchedulerTypeOK
    /\ ListInv
    /\ LoopInv
    /\ Sorted
    /\ NothingLost

-----------------------------------------------------------------------------
(* What a list that ends gives, and what a step makes of it. *)

LEMMA ListFacts ==
    SchedulerTypeOK /\ Hop[Depth] = NoTask =>
        /\ Walk(Hop, task_list, taskBuf)
        /\ \A c : c \in Listed <=> c \in Containers /\ \E k \in Nat : Hop[k] = c
        /\ \A i, j \in Nat : Hop[i] = Hop[j] /\ Hop[i] # NoTask => i = j
        /\ \A i, j \in Nat : Hop[i] = NoTask /\ i <= j => Hop[j] = NoTask
        /\ \A i \in Nat : Hop[i] # NoTask => i < Depth
<1> SUFFICES ASSUME SchedulerTypeOK, Hop[Depth] = NoTask
             PROVE  /\ Walk(Hop, task_list, taskBuf)
                    /\ \A c : c \in Listed <=> c \in Containers /\ \E k \in Nat : Hop[k] = c
                    /\ \A i, j \in Nat : Hop[i] = Hop[j] /\ Hop[i] # NoTask => i = j
                    /\ \A i, j \in Nat : Hop[i] = NoTask /\ i <= j => Hop[j] = NoTask
                    /\ \A i \in Nat : Hop[i] # NoTask => i < Depth
  OBVIOUS
<1>1. Walk(Hop, task_list, taskBuf)
  BY HopIsWalk
<1>2. \A i, j \in Nat : Hop[i] = NoTask /\ i <= j => Hop[j] = NoTask
  BY <1>1, WalkStays
<1>3. \A i \in Nat : Hop[i] # NoTask => i < Depth
  BY <1>2, Sizes
<1>4. \A i, j \in Nat : Hop[i] = Hop[j] /\ Hop[i] # NoTask => i = j
  <2> SUFFICES ASSUME NEW i \in Nat, NEW j \in Nat, Hop[i] = Hop[j], Hop[i] # NoTask, i # j
               PROVE  FALSE
    OBVIOUS
  <2>1. i < j \/ j < i
    OBVIOUS
  <2> QED BY <1>1, <2>1, Sizes, WalkDistinct
<1>5. ASSUME NEW c
      PROVE  c \in Listed <=> c \in Containers /\ \E k \in Nat : Hop[k] = c
  <2>1. ASSUME c \in Listed
        PROVE  c \in Containers /\ \E k \in Nat : Hop[k] = c
    <3>1. PICK k \in 0 .. Depth : Hop[k] = c /\ c # NoTask
      BY <2>1 DEF Listed
    <3> QED BY <1>1, <3>1, Sizes DEF Walk, Places
  <2>2. ASSUME c \in Containers, NEW k \in Nat, Hop[k] = c
        PROVE  c \in Listed
    <3>1. c # NoTask /\ k \in 0 .. Depth
      BY <1>3, <2>2, Sizes
    <3> QED BY <2>2, <3>1 DEF Listed
  <2> QED BY <2>1, <2>2
<1> QED BY <1>1, <1>2, <1>3, <1>4, <1>5

\* The list after a step is the one walk along the links after it.
LEMMA NewWalk ==
    ASSUME SchedulerTypeOK', NEW f, Walk(f, task_list', taskBuf'),
           NEW n \in Nat, f[n] = NoTask
    PROVE  /\ Hop' = f /\ Hop'[Depth] = NoTask
           /\ \A c : c \in Listed' <=> c \in Containers /\ \E k \in Nat : f[k] = c
<1>1. Walk(Hop', task_list', taskBuf')
  <2>1. SchedulerTypeOK' => Walk(Hop, task_list, taskBuf)'
    BY HopIsWalk, PTL
  <2>2. Walk(Hop, task_list, taskBuf)' <=> Walk(Hop', task_list', taskBuf')
    BY DEF Walk, After, Places
  <2> QED BY <2>1, <2>2
<1>2. Hop' = f
  BY <1>1, WalkUnique
<1>3. f[Depth] = NoTask
  BY WalkEndsInTime
<1>4. SchedulerTypeOK' /\ (Hop[Depth] = NoTask)'
        => (\A c : c \in Listed <=> c \in Containers /\ \E k \in Nat : Hop[k] = c)'
  BY ListFacts, PTL
<1> QED BY <1>2, <1>3, <1>4

LEMMA SameWalk ==
    ASSUME SchedulerTypeOK, ListInv, SchedulerTypeOK', task_list' = task_list,
           \A c \in Containers : taskBuf'[c].next = taskBuf[c].next
    PROVE  Hop' = Hop /\ Hop'[Depth] = NoTask /\ Listed' = Listed
<1>1. Walk(Hop, task_list, taskBuf)
      /\ \A c : c \in Listed <=> c \in Containers /\ \E k \in Nat : Hop[k] = c
  BY ListFacts DEF ListInv
<1>2. Walk(Hop, task_list', taskBuf')
  BY <1>1 DEF Walk, After, Places
<1>3. Depth \in Nat /\ Hop[Depth] = NoTask
  BY Sizes DEF ListInv
<1>4. /\ Hop' = Hop /\ Hop'[Depth] = NoTask
      /\ \A c : c \in Listed' <=> c \in Containers /\ \E k \in Nat : Hop[k] = c
  BY <1>2, <1>3, NewWalk
<1> QED BY <1>1, <1>4

-----------------------------------------------------------------------------
(* A push.  The walk after it passes the new container at its place. *)

LEMMA PlaceFacts ==
    ASSUME SchedulerTypeOK, ListInv, NEW prio \in 1 .. MaxPrio
    PROVE  /\ Place(prio) \in 0 .. Depth
           /\ ~Passes(Hop[Place(prio)], prio)
           /\ \A j \in Nat : j < Place(prio) => Passes(Hop[j], prio)
<1> DEFINE Stops == {k \in 0 .. Depth : ~Passes(Hop[k], prio)}
<1>1. Depth \in Stops
  BY Sizes DEF ListInv, Passes
<1>2. Stops \subseteq Nat
  BY Sizes
<1>3. Min(Stops) \in Stops /\ \A x \in Stops : Min(Stops) <= x
  <2> HIDE DEF Stops
  <2> QED BY <1>1, <1>2, MinIsLeast
<1>4. Place(prio) = Min(Stops)
  BY DEF Place
<1> HIDE DEF Stops
<1>5. Place(prio) \in Stops /\ \A x \in Stops : Place(prio) <= x
  BY <1>3, <1>4
<1> QED BY <1>5, Sizes DEF Stops

LEMMA InsertList ==
    ASSUME SchedulerTypeOK, ListInv, NEW prio \in 1 .. MaxPrio,
           NEW c \in Containers, ~taskBuf[c].full, Insert(c, prio)
    PROVE  LET k == Place(prio)
               f == [j \in Nat |-> IF j < k THEN Hop[j] ELSE IF j = k THEN c ELSE Hop[j - 1]] IN
           /\ c \notin Listed
           /\ taskBuf' \in [Containers -> Container]
           /\ task_list' \in Containers \cup {NoTask}
           /\ Walk(f, task_list', taskBuf') /\ f[Depth + 1] = NoTask
           /\ taskBuf'[c].full /\ taskBuf'[c].prio = prio /\ taskBuf'[c].next = Hop[k]
           /\ \A d \in Containers : d # c =>
                 /\ taskBuf'[d].full = taskBuf[d].full /\ taskBuf'[d].prio = taskBuf[d].prio
                 /\ \/ taskBuf'[d].next = taskBuf[d].next
                    \/ k > 0 /\ d = Hop[k - 1] /\ taskBuf'[d].next = c
<1> DEFINE k == Place(prio)
           item == [full |-> TRUE, prio |-> prio, next |-> Hop[k]]
           f == [j \in Nat |-> IF j < k THEN Hop[j] ELSE IF j = k THEN c ELSE Hop[j - 1]]
<1>1. /\ k \in 0 .. Depth /\ k \in Nat /\ \A j \in Nat : j < k => Hop[j] # NoTask
  BY PlaceFacts, Sizes DEF Passes
<1> HIDE DEF k
<1>2. /\ Walk(Hop, task_list, taskBuf) /\ Hop \in [Nat -> Places]
      /\ \A d : d \in Listed <=> d \in Containers /\ \E j \in Nat : Hop[j] = d
      /\ \A i, j \in Nat : Hop[i] = Hop[j] /\ Hop[i] # NoTask => i = j
      /\ Hop[Depth] = NoTask /\ Hop[0] = task_list
  BY ListFacts DEF ListInv, Walk
<1>3. c \notin Listed /\ \A j \in Nat : Hop[j] # c
  BY <1>2 DEF ListInv
<1>4. taskBuf \in [Containers -> Container] /\ item \in Container
  <2>1. Hop[k] \in Places
    BY <1>1, <1>2
  <2>2. prio \in 0 .. MaxPrio
    BY Sizes
  <2> QED BY <2>1, <2>2 DEF SchedulerTypeOK, Container, Places
<1>5. item.full /\ item.prio = prio /\ item.next = Hop[k]
  OBVIOUS
<1>6. IF k = 0 THEN task_list' = c /\ taskBuf' = [taskBuf EXCEPT ![c] = item]
      ELSE /\ taskBuf' = [taskBuf EXCEPT ![c] = item, ![Hop[k - 1]].next = c]
           /\ UNCHANGED task_list
  BY DEF Insert, k
<1> HIDE DEF item
<1>7. /\ taskBuf' \in [Containers -> Container] /\ taskBuf'[c] = item
      /\ task_list' = IF k = 0 THEN c ELSE task_list
      /\ \A d \in Containers : d # c =>
            taskBuf'[d] = IF k > 0 /\ d = Hop[k - 1] THEN [taskBuf[d] EXCEPT !.next = c] ELSE taskBuf[d]
  <2>1. CASE k = 0
    BY <1>1, <1>4, <1>6, <2>1
  <2>2. CASE k # 0
    <3>1. PICK p \in Containers : p = Hop[k - 1] /\ p # c
      <4>1. k - 1 \in Nat /\ k - 1 < k
        BY <1>1, <2>2
      <4> QED BY <1>1, <1>2, <1>3, <4>1 DEF Places
    <3>2. taskBuf' = [taskBuf EXCEPT ![c] = item, ![p].next = c] /\ task_list' = task_list
      BY <1>6, <2>2, <3>1
    <3>3. [taskBuf[p] EXCEPT !.next = c] \in Container
      BY <1>4 DEF Container
    <3>4. \A d \in Containers : taskBuf'[d] = IF d = c THEN item ELSE IF d = p
                                              THEN [taskBuf[p] EXCEPT !.next = c] ELSE taskBuf[d]
      BY <1>4, <3>1, <3>2
    <3>5. taskBuf' \in [Containers -> Container]
      BY <1>4, <3>2, <3>3, <3>4
    <3> QED BY <1>1, <2>2, <3>1, <3>2, <3>4, <3>5
  <2> QED BY <2>1, <2>2
<1>8. \A d \in Containers : d # c =>
          /\ taskBuf'[d].full = taskBuf[d].full /\ taskBuf'[d].prio = taskBuf[d].prio
          /\ taskBuf'[d].next = IF k > 0 /\ d = Hop[k - 1] THEN c ELSE taskBuf[d].next
  BY <1>4, <1>7 DEF Container
<1>9. Walk(f, task_list', taskBuf')
  <2>1. f \in [Nat -> Places]
    <3>1. \A j \in Nat : (IF j < k THEN Hop[j] ELSE IF j = k THEN c ELSE Hop[j - 1]) \in Places
      BY <1>1, <1>2 DEF Places
    <3> QED BY <3>1
  <2>2. f[0] = task_list'
    BY <1>1, <1>2, <1>7
  <2>3. ASSUME NEW j \in Nat
        PROVE  f[j + 1] = After(taskBuf', f[j])
    <3>1. CASE j + 1 < k
      <4>1. j < k /\ f[j] = Hop[j] /\ f[j + 1] = Hop[j + 1] /\ Hop[j] # NoTask
        BY <1>1, <3>1
      <4>2. Hop[j] \in Containers /\ Hop[j] # c /\ Hop[j + 1] = taskBuf[Hop[j]].next
        BY <1>2, <1>3, <4>1 DEF Walk, After, Places
      <4>3. ~(k > 0 /\ Hop[j] = Hop[k - 1])
        BY <1>1, <1>2, <3>1, <4>1
      <4> QED BY <1>8, <4>1, <4>2, <4>3 DEF After
    <3>2. CASE j + 1 = k
      <4>1. j < k /\ f[j] = Hop[j] /\ f[j + 1] = c /\ Hop[j] # NoTask /\ k > 0 /\ j = k - 1
        BY <1>1, <3>2
      <4>2. Hop[j] \in Containers /\ Hop[j] # c
        BY <1>2, <1>3, <4>1 DEF Places
      <4> QED BY <1>8, <4>1, <4>2 DEF After
    <3>3. CASE j = k
      <4>1. f[j] = c /\ f[j + 1] = Hop[k]
        BY <1>1, <3>3
      <4> QED BY <1>5, <1>7, <4>1, Sizes DEF After
    <3>4. CASE j > k
      <4>1. j - 1 \in Nat /\ j - 1 + 1 = j /\ f[j] = Hop[j - 1] /\ f[j + 1] = Hop[j]
        BY <1>1, <3>4
      <4>2. Hop[j] = After(taskBuf, Hop[j - 1]) /\ Hop[j - 1] \in Places /\ Hop[j - 1] # c
        BY <1>2, <1>3, <4>1 DEF Walk
      <4>3. CASE Hop[j - 1] = NoTask
        BY <4>1, <4>2, <4>3 DEF After
      <4>4. CASE Hop[j - 1] # NoTask
        <5>1. Hop[j - 1] \in Containers
          BY <4>2, <4>4 DEF Places
        <5>2. ~(k > 0 /\ Hop[j - 1] = Hop[k - 1])
          BY <1>1, <1>2, <3>4, <4>1, <4>4
        <5> QED BY <1>8, <4>1, <4>2, <4>4, <5>1, <5>2 DEF After
      <4> QED BY <4>3, <4>4
    <3> QED BY <1>1, <3>1, <3>2, <3>3, <3>4
  <2> HIDE DEF f
  <2> QED BY <2>1, <2>2, <2>3 DEF Walk
<1>10. f[Depth + 1] = NoTask
  BY <1>1, <1>2, Sizes
<1>11. /\ taskBuf'[c].full /\ taskBuf'[c].prio = prio /\ taskBuf'[c].next = Hop[k]
       /\ task_list' \in Containers \cup {NoTask}
  BY <1>5, <1>7 DEF SchedulerTypeOK
<1>12. \A d \in Containers : d # c =>
           /\ taskBuf'[d].full = taskBuf[d].full /\ taskBuf'[d].prio = taskBuf[d].prio
           /\ \/ taskBuf'[d].next = taskBuf[d].next
              \/ k > 0 /\ d = Hop[k - 1] /\ taskBuf'[d].next = c
  BY <1>1, <1>8
<1> QED BY <1>3, <1>7, <1>9, <1>10, <1>11, <1>12 DEF k

LEMMA PushKeeps ==
    ASSUME SchedulerInv, NEW prio \in 1 .. MaxPrio, PushTask(prio)
    PROVE  SchedulerInv'
<1> USE DEF SchedulerInv
<1>1. PICK c \in Containers : c = Min(FreeContainers) /\ ~taskBuf[c].full
  <2>1. FreeContainers # {} /\ FreeContainers \subseteq Nat
    BY Sizes DEF PushTask, FreeContainers
  <2>2. Min(FreeContainers) \in FreeContainers
    BY <2>1, MinIsLeast
  <2> QED BY <2>2 DEF FreeContainers
<1> DEFINE k == Place(prio)
           f == [j \in Nat |-> IF j < k THEN Hop[j] ELSE IF j = k THEN c ELSE Hop[j - 1]]
<1>2. /\ c \notin Listed
      /\ taskBuf' \in [Containers -> Container]
      /\ task_list' \in Containers \cup {NoTask}
      /\ Walk(f, task_list', taskBuf') /\ f[Depth + 1] = NoTask
      /\ taskBuf'[c].full /\ taskBuf'[c].prio = prio /\ taskBuf'[c].next = Hop[k]
      /\ \A d \in Containers : d # c =>
            /\ taskBuf'[d].full = taskBuf[d].full /\ taskBuf'[d].prio = taskBuf[d].prio
            /\ \/ taskBuf'[d].next = taskBuf[d].next
               \/ k > 0 /\ d = Hop[k - 1] /\ taskBuf'[d].next = c
  BY <1>1, InsertList DEF PushTask
<1>3. /\ raced' = (raced \/ InWindow) /\ UNCHANGED <<pc, pThisTask, loaded>>
      /\ raced \in BOOLEAN
  BY DEF PushTask, SchedulerTypeOK
<1>4. SchedulerTypeOK'
  BY <1>2, <1>3 DEF SchedulerTypeOK
<1>5. /\ Hop' = f /\ Hop'[Depth] = NoTask
      /\ \A d : d \in Listed' <=> d \in Containers /\ \E j \in Nat : f[j] = d
  <2> HIDE DEF f
  <2>1. Depth + 1 \in Nat
    BY Sizes
  <2> QED BY <1>2, <1>4, <2>1, NewWalk
<1>6. /\ Walk(Hop, task_list, taskBuf)
      /\ \A d : d \in Listed <=> d \in Containers /\ \E j \in Nat : Hop[j] = d
      /\ k \in Nat /\ ~Passes(Hop[k], prio) /\ \A j \in Nat : j < k => Passes(Hop[j], prio)
  BY ListFacts, PlaceFacts, Sizes DEF ListInv
<1> HIDE DEF k
<1>7. /\ \A j \in Nat : j < k => f[j] = Hop[j]
      /\ f[k] = c
      /\ \A j \in Nat : j >= k => f[j + 1] = Hop[j]
  BY <1>6
<1> HIDE DEF f
<1>8. \A d : d \in Listed' <=> d \in Listed \/ d = c
  <2>1. ASSUME NEW d \in Containers, NEW j \in Nat, Hop[j] = d
        PROVE  \E i \in Nat : f[i] = d
    <3>1. j < k \/ j >= k
      BY <1>6
    <3> QED BY <1>7, <2>1, <3>1
  <2>2. ASSUME NEW d \in Containers, NEW j \in Nat, f[j] = d, d # c
        PROVE  \E i \in Nat : Hop[i] = d
    <3>1. CASE j < k
      BY <1>7, <2>2, <3>1
    <3>2. CASE j > k
      <4>1. j - 1 \in Nat /\ j - 1 >= k /\ j - 1 + 1 = j
        BY <1>6, <3>2
      <4> QED BY <1>7, <2>2, <4>1
    <3> QED BY <1>6, <1>7, <2>2, <3>1, <3>2
  <2> QED BY <1>1, <1>5, <1>6, <1>7, <2>1, <2>2
<1>9. ListInv'
  BY <1>2, <1>5, <1>8, ListFacts DEF ListInv
<1>10. SchedulerTypeOK' /\ (Hop[Depth] = NoTask)'
         => (\A i \in Nat : Hop[i] # NoTask => i < Depth)'
  BY ListFacts, PTL
<1>13. LoopInv'
  <2>1. (pc' = "test" <=> pThisTask' = NoTask)
    BY <1>3 DEF LoopInv
  <2>2. ASSUME pc' = "load"
        PROVE  pThisTask' \in Listed' /\ raced'
    BY <1>3, <1>8, <2>2 DEF LoopInv, InWindow
  <2>3. ASSUME pc' = "store"
        PROVE  /\ \E i, j \in 0 .. Depth : i < j /\ Hop'[i] = pThisTask' /\ Hop'[j] = loaded'
               /\ raced'
    <3>1. PICK i \in 0 .. Depth, j \in 0 .. Depth : i < j /\ Hop[i] = pThisTask /\ Hop[j] = loaded
      BY <1>3, <2>3 DEF LoopInv
    <3>2. i \in Nat /\ j \in Nat /\ pThisTask # NoTask
      BY <1>3, <2>3, Sizes DEF LoopInv
    <3>3. PICK ii \in Nat : (ii = i \/ ii = i + 1) /\ f[ii] = Hop[i] /\ (ii = i + 1 <=> i >= k)
      <4>1. i < k \/ i >= k
        BY <1>6, <3>2
      <4> QED BY <1>6, <1>7, <3>2, <4>1
    <3>4. PICK jj \in Nat : (jj = j \/ jj = j + 1) /\ f[jj] = Hop[j] /\ (jj = j + 1 <=> j >= k)
      <4>1. j < k \/ j >= k
        BY <1>6, <3>2
      <4> QED BY <1>6, <1>7, <3>2, <4>1
    <3>5. ii < jj /\ Hop'[ii] = pThisTask' /\ Hop'[jj] = loaded'
      BY <1>3, <1>5, <1>6, <3>1, <3>2, <3>3, <3>4
    <3>6. ii < Depth /\ (loaded' # NoTask => jj < Depth)
      BY <1>3, <1>4, <1>5, <1>10, <3>2, <3>5
    <3>7. ii \in 0 .. Depth /\ Depth \in 0 .. Depth
      BY <3>6, Sizes
    <3>8. \E m, n \in 0 .. Depth : m < n /\ Hop'[m] = pThisTask' /\ Hop'[n] = loaded'
      <4>1. CASE loaded' # NoTask
        <5>1. jj \in 0 .. Depth
          BY <3>6, <4>1, Sizes
        <5> QED BY <3>5, <3>7, <5>1
      <4>2. CASE loaded' = NoTask
        <5>1. Hop'[Depth] = loaded'
          BY <1>5, <4>2
        <5> QED BY <3>5, <3>6, <3>7, <5>1
      <4> QED BY <4>1, <4>2
    <3> QED BY <1>3, <2>3, <3>8 DEF InWindow
  <2>4. ASSUME pc' \in {"run", "clear_cb"}
        PROVE  taskBuf'[pThisTask'].full /\ pThisTask' \notin Listed'
    <3>1. taskBuf[pThisTask].full /\ pThisTask \notin Listed /\ pThisTask \in Containers
      BY <1>3, <2>4 DEF LoopInv, SchedulerTypeOK
    <3> QED BY <1>1, <1>2, <1>3, <1>8, <3>1
  <2>5. pc' \in {"clear_prio", "clear_next"} => raced'
    BY <1>3 DEF InWindow
  <2> QED BY <2>1, <2>2, <2>3, <2>4, <2>5 DEF LoopInv
<1>11. Sorted'
  <2> SUFFICES ASSUME ~raced', NEW d \in Listed', taskBuf'[d].next # NoTask
               PROVE  taskBuf'[d].prio <= taskBuf'[taskBuf'[d].next].prio
    BY DEF Sorted
  <2>1. ~raced /\ d \in Containers
    BY <1>3, <1>5
  <2>2. Hop[k] \in Places /\ taskBuf \in [Containers -> Container] /\ prio \in Nat
    BY <1>6, Sizes DEF Walk, SchedulerTypeOK
  <2>3. CASE d = c
    <3>1. Hop[k] \in Containers /\ Hop[k] \in Listed /\ ~(taskBuf[Hop[k]].prio < prio)
      BY <1>2, <1>6, <2>2, <2>3 DEF Passes, Places
    <3>2. Hop[k] # c
      BY <1>2, <3>1
    <3>3. taskBuf[Hop[k]].prio \in Nat
      <4>1. taskBuf[Hop[k]] \in Container
        BY <2>2, <3>1
      <4> QED BY <4>1, Sizes DEF Container
    <3> QED BY <1>2, <2>2, <2>3, <3>1, <3>2, <3>3
  <2>4. CASE d # c
    <3>1. d \in Listed
      BY <1>8, <2>4
    <3>2. CASE taskBuf'[d].next = taskBuf[d].next
      <4>1. taskBuf[d].prio <= taskBuf[taskBuf[d].next].prio
        BY <2>1, <3>1, <3>2 DEF Sorted
      <4>2. taskBuf[d].next \in Containers /\ taskBuf[d].next # c
        <5>1. taskBuf[d].next \in Containers
          BY <2>1, <2>2, <3>2 DEF Container
        <5>2. PICK j \in Nat : Hop[j] = d
          BY <1>6, <3>1
        <5>3. Hop[j + 1] = taskBuf[d].next /\ j + 1 \in Nat
          BY <1>6, <2>1, <5>2, Sizes DEF Walk, After
        <5> QED BY <1>2, <1>6, <5>1, <5>3
      <4> QED BY <1>2, <2>1, <2>4, <3>2, <4>1, <4>2
    <3>3. CASE k > 0 /\ d = Hop[k - 1] /\ taskBuf'[d].next = c
      <4>1. k - 1 \in Nat /\ k - 1 < k
        BY <1>6, <3>3
      <4>2. taskBuf[d].prio < prio
        BY <1>6, <3>3, <4>1 DEF Passes
      <4>3. taskBuf[d].prio \in Nat
        BY <2>1, <2>2, Sizes DEF Container
      <4> QED BY <1>2, <2>1, <2>2, <2>4, <3>3, <4>2, <4>3
    <3> QED BY <1>2, <2>1, <2>4, <3>2, <3>3
  <2> QED BY <2>3, <2>4
<1>12. NothingLost'
  BY <1>1, <1>2, <1>3, <1>8 DEF NothingLost
<1> QED BY <1>4, <1>9, <1>11, <1>12, <1>13

LEMMA OverflowKeeps ==
    ASSUME SchedulerInv, PushOverflow
    PROVE  SchedulerInv'
<1> DEFINE f == [j \in Nat |-> NoTask]
<1>1. /\ taskBuf' = [c \in Containers |-> EmptyContainer] /\ task_list' = NoTask
      /\ pc' = "test" /\ pThisTask' = NoTask /\ loaded' = NoTask /\ raced' = FALSE
  BY DEF PushOverflow
<1>2. SchedulerTypeOK'
  <2>1. EmptyContainer \in Container
    BY Sizes DEF Container, EmptyContainer
  <2> QED BY <1>1, <2>1 DEF SchedulerTypeOK
<1>3. Walk(f, task_list', taskBuf') /\ f[0] = NoTask
  BY <1>1 DEF Walk, After, Places
<1>4. Hop' = f /\ Hop'[Depth] = NoTask
      /\ \A d : d \in Listed' <=> d \in Containers /\ \E j \in Nat : f[j] = d
  <2> HIDE DEF f
  <2> QED BY <1>2, <1>3, NewWalk
<1>5. \A d : d \notin Listed'
  BY <1>4, Sizes
<1>6. \A c \in Containers : ~taskBuf'[c].full
  BY <1>1 DEF EmptyContainer
<1> QED BY <1>1, <1>2, <1>4, <1>5, <1>6
        DEF SchedulerInv, ListInv, LoopInv, Sorted, NothingLost

-----------------------------------------------------------------------------
(* The steps of the loop. *)

LEMMA TakeHeadKeeps ==
    ASSUME SchedulerInv, TakeHead
    PROVE  SchedulerInv'
<1>1. /\ pc = "test" /\ task_list # NoTask /\ pThisTask' = task_list /\ pc' = "load"
      /\ UNCHANGED <<taskBuf, task_list, loaded, raced>>
      /\ SchedulerTypeOK /\ ListInv
  BY DEF TakeHead, SchedulerInv
<1>2. SchedulerTypeOK'
  BY <1>1 DEF SchedulerTypeOK
<1>3. Hop' = Hop /\ Hop'[Depth] = NoTask /\ Listed' = Listed
  BY <1>1, <1>2, SameWalk
<1>4. task_list \in Listed
  <2>1. Hop[0] = task_list /\ task_list \in Containers /\ 0 \in Nat
    BY <1>1, ListFacts DEF ListInv, Walk, SchedulerTypeOK
  <2> QED BY <1>1, <2>1, ListFacts DEF ListInv
<1> QED BY <1>1, <1>2, <1>3, <1>4
        DEF SchedulerInv, ListInv, LoopInv, Sorted, NothingLost

LEMMA LoadNextKeeps ==
    ASSUME SchedulerInv, LoadNext
    PROVE  SchedulerInv'
<1>1. /\ pc = "load" /\ loaded' = taskBuf[pThisTask].next /\ pc' = "store"
      /\ UNCHANGED <<taskBuf, task_list, pThisTask, raced>>
      /\ SchedulerTypeOK /\ ListInv
      /\ pThisTask \in Listed /\ (~raced => pThisTask = task_list)
  BY DEF LoadNext, SchedulerInv, LoopInv
<1>2. /\ Walk(Hop, task_list, taskBuf) /\ Hop[Depth] = NoTask
      /\ \A i \in Nat : Hop[i] # NoTask => i < Depth
  BY <1>1, ListFacts DEF ListInv
<1>3. PICK i \in Nat : Hop[i] = pThisTask /\ pThisTask \in Containers
  BY <1>1, <1>2, ListFacts
<1>4. SchedulerTypeOK'
  BY <1>1, <1>3 DEF SchedulerTypeOK, Container
<1>5. Hop' = Hop /\ Hop'[Depth] = NoTask /\ Listed' = Listed
  BY <1>1, <1>4, SameWalk
<1>6. Hop[i + 1] = loaded' /\ i < Depth
  BY <1>1, <1>2, <1>3, Sizes DEF Walk, After
<1>7. i \in 0 .. Depth /\ i + 1 \in 0 .. Depth /\ i < i + 1
  BY <1>6, Sizes
<1>8. LoopInv'
  <2>1. \E m, n \in 0 .. Depth : m < n /\ Hop'[m] = pThisTask' /\ Hop'[n] = loaded'
    BY <1>1, <1>3, <1>5, <1>6, <1>7
  <2> QED BY <1>1, <1>3, <2>1, Sizes DEF LoopInv
<1> QED BY <1>1, <1>4, <1>5, <1>8 DEF SchedulerInv, ListInv, Sorted, NothingLost

LEMMA StoreHeadKeeps ==
    ASSUME SchedulerInv, StoreHead
    PROVE  SchedulerInv'
<1>1. /\ pc = "store" /\ task_list' = loaded /\ loaded' = NoTask /\ pc' = "run"
      /\ UNCHANGED <<taskBuf, pThisTask, raced>>
      /\ SchedulerTypeOK /\ ListInv
      /\ ~raced => pThisTask = task_list /\ loaded = taskBuf[pThisTask].next
      /\ pThisTask \in Containers
  BY DEF StoreHead, SchedulerInv, LoopInv, SchedulerTypeOK
<1>2. PICK i \in 0 .. Depth, j \in 0 .. Depth : i < j /\ Hop[i] = pThisTask /\ Hop[j] = loaded
  BY <1>1 DEF SchedulerInv, LoopInv
<1>3. i \in Nat /\ j \in Nat
  BY <1>2, Sizes
<1>4. /\ Walk(Hop, task_list, taskBuf) /\ Hop[Depth] = NoTask
      /\ \A d : d \in Listed <=> d \in Containers /\ \E k \in Nat : Hop[k] = d
      /\ \A m, n \in Nat : Hop[m] = Hop[n] /\ Hop[m] # NoTask => m = n
      /\ \A m, n \in Nat : Hop[m] = NoTask /\ m <= n => Hop[n] = NoTask
  BY <1>1, ListFacts DEF ListInv
<1> DEFINE f == [k \in Nat |-> Hop[j + k]]
<1>5. SchedulerTypeOK'
  BY <1>1 DEF SchedulerTypeOK
<1>6. Walk(f, task_list', taskBuf') /\ f[Depth] = NoTask
  <2>1. \A k \in Nat : j + k \in Nat /\ j + (k + 1) = (j + k) + 1 /\ k + 1 \in Nat
    BY <1>3
  <2>2. f \in [Nat -> Places]
    BY <1>4, <2>1 DEF Walk
  <2>3. f[0] = task_list'
    BY <1>1, <1>2, <1>3
  <2>4. \A k \in Nat : f[k + 1] = After(taskBuf', f[k])
    BY <1>1, <1>4, <2>1 DEF Walk
  <2>5. f[Depth] = NoTask
    BY <1>3, <1>4, Sizes
  <2> HIDE DEF f
  <2> QED BY <2>2, <2>3, <2>4, <2>5 DEF Walk
<1>7. Hop' = f /\ Hop'[Depth] = NoTask
      /\ \A d : d \in Listed' <=> d \in Containers /\ \E k \in Nat : f[k] = d
  <2> HIDE DEF f
  <2> QED BY <1>5, <1>6, Sizes, NewWalk
<1>8. \A k \in Nat : f[k] = Hop[j + k] /\ j + k \in Nat
  BY <1>3
<1> HIDE DEF f
<1>9. Listed' \subseteq Listed
  BY <1>4, <1>7, <1>8
<1>10. pThisTask \in Listed /\ pThisTask \notin Listed' /\ taskBuf[pThisTask].full
  <2>1. pThisTask \in Listed
    BY <1>1, <1>2, <1>3, <1>4
  <2>2. ASSUME NEW k \in Nat, f[k] = pThisTask
        PROVE  FALSE
    <3>1. Hop[j + k] = Hop[i] /\ Hop[i] # NoTask /\ j + k # i
      BY <1>1, <1>2, <1>3, <1>8, <2>2, Sizes
    <3> QED BY <1>3, <1>4, <1>8, <3>1
  <2> QED BY <1>1, <1>7, <2>1, <2>2 DEF ListInv
<1>11. \A c \in Listed : ~raced /\ c # pThisTask => c \in Listed'
  <2> SUFFICES ASSUME NEW c \in Listed, ~raced, c # pThisTask
               PROVE  c \in Listed'
    OBVIOUS
  <2>1. PICK k \in Nat : Hop[k] = c
    BY <1>4
  <2>2. Hop[0] = pThisTask /\ Hop[0 + 1] = loaded /\ pThisTask # NoTask
    BY <1>1, <1>4, Sizes DEF Walk, After
  <2>3. i = 0 /\ (loaded # NoTask => j = 1)
    <3>1. i = 0
      BY <1>2, <1>3, <1>4, <2>2
    <3> QED BY <1>2, <1>3, <1>4, <2>2, <3>1
  <2>4. k # 0 /\ k - 1 \in Nat /\ 1 + (k - 1) = k /\ c # NoTask
    BY <2>1, <2>2, <1>4, Sizes
  <2>5. loaded # NoTask
    BY <1>4, <2>1, <2>2, <2>4
  <2>6. f[k - 1] = c
    BY <1>8, <2>1, <2>3, <2>4, <2>5
  <2> QED BY <1>4, <1>7, <2>4, <2>6
<1>12. NothingLost'
  BY <1>1, <1>11 DEF SchedulerInv, NothingLost
<1>13. Sorted'
  BY <1>1, <1>9 DEF SchedulerInv, Sorted
<1> QED BY <1>1, <1>5, <1>7, <1>9, <1>10, <1>12, <1>13, Sizes DEF SchedulerInv, ListInv, LoopInv

LEMMA RunTaskKeeps ==
    ASSUME SchedulerInv, RunTask
    PROVE  SchedulerInv'
<1>1. /\ pc = "run" /\ pc' = "clear_cb"
      /\ UNCHANGED <<taskBuf, task_list, pThisTask, loaded, raced>>
      /\ SchedulerTypeOK /\ ListInv
  BY DEF RunTask, SchedulerInv
<1>2. SchedulerTypeOK'
  BY <1>1 DEF SchedulerTypeOK
<1>3. Hop' = Hop /\ Hop'[Depth] = NoTask /\ Listed' = Listed
  BY <1>1, <1>2, SameWalk
<1> QED BY <1>1, <1>2, <1>3 DEF SchedulerInv, ListInv, LoopInv, Sorted, NothingLost

LEMMA ClearCbKeeps ==
    ASSUME SchedulerInv, ClearCb
    PROVE  SchedulerInv'
<1>1. /\ pc = "clear_cb" /\ pc' = "clear_prio"
      /\ taskBuf' = [taskBuf EXCEPT ![pThisTask].full = FALSE]
      /\ UNCHANGED <<task_list, pThisTask, loaded, raced>>
      /\ SchedulerTypeOK /\ ListInv
      /\ taskBuf[pThisTask].full /\ pThisTask \notin Listed
      /\ taskBuf \in [Containers -> Container] /\ pThisTask \in Containers
  BY DEF ClearCb, SchedulerInv, LoopInv, SchedulerTypeOK
<1>2. /\ taskBuf' \in [Containers -> Container]
      /\ \A c \in Containers : /\ taskBuf'[c].next = taskBuf[c].next
                               /\ taskBuf'[c].prio = taskBuf[c].prio
                               /\ taskBuf'[c].full = IF c = pThisTask THEN FALSE ELSE taskBuf[c].full
  BY <1>1 DEF Container
<1>3. SchedulerTypeOK'
  BY <1>1, <1>2 DEF SchedulerTypeOK
<1>4. Hop' = Hop /\ Hop'[Depth] = NoTask /\ Listed' = Listed /\ Listed \subseteq Containers
  BY <1>1, <1>2, <1>3, SameWalk, ListFacts DEF ListInv
<1>5. ListInv'
  BY <1>1, <1>2, <1>4 DEF ListInv
<1>6. LoopInv'
  BY <1>1, <1>2, <1>4, Sizes DEF LoopInv
<1>7. Sorted'
  BY <1>1, <1>2, <1>4 DEF SchedulerInv, Sorted, Container
<1>8. NothingLost'
  BY <1>1, <1>2, <1>4 DEF SchedulerInv, NothingLost
<1> QED BY <1>3, <1>5, <1>6, <1>7, <1>8 DEF SchedulerInv

LEMMA ClearPrioKeeps ==
    ASSUME SchedulerInv, ClearPrio
    PROVE  SchedulerInv'
<1>1. /\ pc = "clear_prio" /\ pc' = "clear_next"
      /\ taskBuf' = [taskBuf EXCEPT ![pThisTask].prio = 0]
      /\ UNCHANGED <<task_list, pThisTask, loaded, raced>>
      /\ SchedulerTypeOK /\ ListInv
      /\ ~raced => ~taskBuf[pThisTask].full /\ pThisTask \notin Listed
      /\ taskBuf \in [Containers -> Container] /\ pThisTask \in Containers
  BY DEF ClearPrio, SchedulerInv, LoopInv, SchedulerTypeOK
<1>2. /\ taskBuf' \in [Containers -> Container]
      /\ \A c \in Containers : /\ taskBuf'[c].next = taskBuf[c].next
                               /\ taskBuf'[c].prio = IF c = pThisTask THEN 0 ELSE taskBuf[c].prio
                               /\ taskBuf'[c].full = taskBuf[c].full
  BY <1>1, Sizes DEF Container
<1>3. SchedulerTypeOK'
  BY <1>1, <1>2 DEF SchedulerTypeOK
<1>4. Hop' = Hop /\ Hop'[Depth] = NoTask /\ Listed' = Listed /\ Listed \subseteq Containers
  BY <1>1, <1>2, <1>3, SameWalk, ListFacts DEF ListInv
<1>5. ListInv'
  BY <1>1, <1>2, <1>4 DEF ListInv
<1>6. LoopInv'
  BY <1>1, <1>2, <1>4, Sizes DEF LoopInv
<1>7. Sorted'
  <2> SUFFICES ASSUME ~raced, NEW c \in Listed, taskBuf[c].next # NoTask
               PROVE  taskBuf'[c].prio <= taskBuf'[taskBuf'[c].next].prio
    BY <1>1, <1>2, <1>4 DEF Sorted
  <2>1. taskBuf[c].prio <= taskBuf[taskBuf[c].next].prio
    BY DEF SchedulerInv, Sorted
  <2>2. taskBuf[c].next \in Listed
    <3>1. PICK k \in Nat : Hop[k] = c
      BY <1>1, ListFacts DEF ListInv
    <3>2. Hop[k + 1] = taskBuf[c].next /\ k + 1 \in Nat /\ taskBuf[c].next \in Containers
      BY <1>1, <1>4, <3>1, ListFacts, Sizes DEF ListInv, Walk, After, Container
    <3> QED BY <1>1, <3>2, ListFacts DEF ListInv
  <2> QED BY <1>1, <1>2, <1>4, <2>1, <2>2
<1>8. NothingLost'
  BY <1>1, <1>2, <1>4 DEF SchedulerInv, NothingLost
<1> QED BY <1>3, <1>5, <1>6, <1>7, <1>8 DEF SchedulerInv

LEMMA ClearNextKeeps ==
    ASSUME SchedulerInv, ClearNext
    PROVE  SchedulerInv'
<1>1. /\ pc = "clear_next" /\ pc' = "test" /\ pThisTask' = NoTask
      /\ taskBuf' = [taskBuf EXCEPT ![pThisTask].next = NoTask]
      /\ UNCHANGED <<task_list, loaded, raced>>
      /\ SchedulerTypeOK /\ ListInv
      /\ ~raced => ~taskBuf[pThisTask].full /\ pThisTask \notin Listed
      /\ taskBuf \in [Containers -> Container] /\ pThisTask \in Containers
  BY DEF ClearNext, SchedulerInv, LoopInv, SchedulerTypeOK
<1>2. /\ taskBuf' \in [Containers -> Container]
      /\ \A c \in Containers : /\ taskBuf'[c].next = IF c = pThisTask THEN NoTask ELSE taskBuf[c].next
                               /\ taskBuf'[c].prio = taskBuf[c].prio
                               /\ taskBuf'[c].full = taskBuf[c].full
  BY <1>1 DEF Container
<1>3. SchedulerTypeOK'
  BY <1>1, <1>2 DEF SchedulerTypeOK
<1>4. /\ Walk(Hop, task_list, taskBuf) /\ Hop[Depth] = NoTask
      /\ \A d : d \in Listed <=> d \in Containers /\ \E k \in Nat : Hop[k] = d
      /\ \A m, n \in Nat : Hop[m] = Hop[n] /\ Hop[m] # NoTask => m = n
  BY <1>1, ListFacts DEF ListInv
<1>5. CASE pThisTask \notin Listed
  <2>1. Walk(Hop, task_list', taskBuf')
    <3>1. \A k \in Nat : Hop[k] # pThisTask /\ Hop[k] \in Places
      BY <1>1, <1>4, <1>5 DEF Walk
    <3>2. \A k \in Nat : After(taskBuf', Hop[k]) = After(taskBuf, Hop[k])
      BY <1>2, <3>1 DEF After, Places
    <3> QED BY <1>1, <1>4, <3>2 DEF Walk
  <2>2. /\ Hop' = Hop /\ Hop'[Depth] = NoTask
        /\ \A c : c \in Listed' <=> c \in Containers /\ \E k \in Nat : Hop[k] = c
    BY <1>3, <1>4, <2>1, Sizes, NewWalk
  <2>3. Listed' = Listed
    BY <1>4, <2>2
  <2>4. Sorted'
    <3> SUFFICES ASSUME ~raced, NEW c \in Listed, taskBuf'[c].next # NoTask
                 PROVE  taskBuf'[c].prio <= taskBuf'[taskBuf'[c].next].prio
      BY <1>1, <2>3 DEF Sorted
    <3>1. c \in Containers /\ c # pThisTask /\ taskBuf'[c].next = taskBuf[c].next
      BY <1>2, <1>4, <1>5
    <3>2. taskBuf[c].next \in Containers
      BY <1>1, <3>1 DEF Container
    <3> QED BY <1>2, <3>1, <3>2 DEF SchedulerInv, Sorted
  <2> QED BY <1>1, <1>2, <1>3, <2>2, <2>3, <2>4
          DEF SchedulerInv, ListInv, LoopInv, NothingLost
<1>6. CASE pThisTask \in Listed
  <2>1. raced /\ raced'
    BY <1>1, <1>6 DEF SchedulerTypeOK
  <2>2. PICK i \in Nat : Hop[i] = pThisTask
    BY <1>4, <1>6
  <2> DEFINE f == [k \in Nat |-> IF k <= i THEN Hop[k] ELSE NoTask]
  <2>3. Walk(f, task_list', taskBuf') /\ f[i + 1] = NoTask
    <3>1. f \in [Nat -> Places]
      BY <1>4 DEF Walk, Places
    <3>2. f[0] = task_list' /\ f[i + 1] = NoTask
      BY <1>1, <1>4 DEF Walk
    <3>3. ASSUME NEW k \in Nat
          PROVE  f[k + 1] = After(taskBuf', f[k])
      <4>1. CASE k < i
        <5>1. f[k] = Hop[k] /\ f[k + 1] = Hop[k + 1] /\ Hop[k + 1] = After(taskBuf, Hop[k])
          BY <1>4, <4>1 DEF Walk
        <5>2. Hop[k] \in Places /\ (Hop[k] # NoTask => Hop[k] # pThisTask)
          BY <1>4, <2>2, <4>1 DEF Walk
        <5> QED BY <1>2, <5>1, <5>2 DEF After, Places
      <4>2. CASE k = i
        BY <1>1, <1>2, <2>2, <4>2, Sizes DEF After
      <4>3. CASE k > i
        BY <4>3 DEF After
      <4> QED BY <4>1, <4>2, <4>3
    <3> HIDE DEF f
    <3> QED BY <3>1, <3>2, <3>3 DEF Walk
  <2>4. \A k \in Nat : f[k] # NoTask => f[k] = Hop[k]
    OBVIOUS
  <2> HIDE DEF f
  <2>5. /\ Hop'[Depth] = NoTask
        /\ \A c : c \in Listed' <=> c \in Containers /\ \E k \in Nat : f[k] = c
    BY <1>3, <2>3, NewWalk
  <2>6. Listed' \subseteq Listed
    BY <1>4, <2>4, <2>5, Sizes
  <2> QED BY <1>1, <1>2, <1>3, <1>4, <2>1, <2>5, <2>6
          DEF SchedulerInv, ListInv, LoopInv, Sorted, NothingLost
<1> QED BY <1>5, <1>6

-----------------------------------------------------------------------------
LEMMA InitSchedulerInv == Init => SchedulerInv
<1> SUFFICES ASSUME Init
             PROVE  SchedulerInv
  OBVIOUS
<1> DEFINE f == [j \in Nat |-> NoTask]
<1>1. SchedulerTypeOK
  <2>1. EmptyContainer \in Container
    BY Sizes DEF Container, EmptyContainer
  <2> QED BY <2>1 DEF Init, SchedulerTypeOK
<1>2. Walk(Hop, task_list, taskBuf)
  BY <1>1, HopIsWalk
<1>3. Walk(f, task_list, taskBuf)
  BY DEF Init, Walk, After, Places
<1>4. Hop = f
  <2> HIDE DEF f
  <2> QED BY <1>2, <1>3, WalkUnique
<1>5. Hop[Depth] = NoTask /\ \A k \in Nat : Hop[k] = NoTask
  BY <1>4, Sizes
<1>6. Listed = {}
  BY <1>1, <1>5, ListFacts, Sizes
<1>7. \A c \in Containers : ~taskBuf[c].full
  BY DEF Init, EmptyContainer
<1> QED BY <1>1, <1>5, <1>6, <1>7
        DEF Init, SchedulerInv, ListInv, LoopInv, Sorted, NothingLost

LEMMA NextSchedulerInv == SchedulerInv /\ [Next]_vars => SchedulerInv'
<1> SUFFICES ASSUME SchedulerInv, [Next]_vars
             PROVE  SchedulerInv'
  OBVIOUS
<1>1. CASE Loop
  BY <1>1, TakeHeadKeeps, LoadNextKeeps, StoreHeadKeeps, RunTaskKeeps,
     ClearCbKeeps, ClearPrioKeeps, ClearNextKeeps DEF Loop
<1>2. CASE UNCHANGED vars
  <2>1. SchedulerTypeOK /\ ListInv /\ SchedulerTypeOK'
    BY <1>2 DEF vars, SchedulerInv, SchedulerTypeOK
  <2>2. Hop' = Hop /\ Hop'[Depth] = NoTask /\ Listed' = Listed
    BY <1>2, <2>1, SameWalk DEF vars
  <2> QED BY <1>2, <2>1, <2>2
          DEF vars, SchedulerInv, ListInv, LoopInv, Sorted, NothingLost
<1> QED BY <1>1, <1>2, PushKeeps, OverflowKeeps DEF Next

\* The inductive invariant of the scheduler holds in every reachable state.
THEOREM SchedulerInvariant == Spec => []SchedulerInv
BY InitSchedulerInv, NextSchedulerInv, PTL DEF Spec

\* Pushes from interrupts never make a container, a link or the head of the list
\* anything but a container of the array or NULL.
THEOREM SchedulerType == Spec => []SchedulerTypeOK
<1>1. SchedulerInv => SchedulerTypeOK
  BY DEF SchedulerInv
<1> QED BY <1>1, SchedulerInvariant, PTL

\* Whatever push comes between whatever two accesses of the loop, the walk of
\* scheduler_push_task ends; and as long as none has come in the loop's windows
\* the list is in order of priority.
THEOREM SchedulerListSorted == Spec => []ListSorted
<1>1. SchedulerInv => ListSorted
  BY DEF SchedulerInv, ListInv, Sorted, ListSorted
<1> QED BY <1>1, SchedulerInvariant, PTL

\* The task the loop calls has a callback and is no longer in the list, so that
\* it runs once for each time it was pushed, races with pushes included.
THEOREM SchedulerRunsOnce == Spec => []RunsOnce
<1>1. SchedulerInv => RunsOnce
  BY DEF SchedulerInv, LoopInv, RunsOnce
<1> QED BY <1>1, SchedulerInvariant, PTL

\* As long as no push has come in the windows of the loop, no container in use is
\* lost: it is in the list or holds the task that runs.
THEOREM SchedulerNothingLost == Spec => []NothingLost
<1>1. SchedulerInv => NothingLost
  BY DEF SchedulerInv
<1> QED BY <1>1, SchedulerInvariant, PTL
==============================================================================
