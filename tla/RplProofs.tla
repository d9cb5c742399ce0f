------------------------------ MODULE RplProofs ------------------------------
(***************************************************************************)
(* For every number of motes and rows, every network at boot and every     *)
(* cost of a link: the tables stay well formed; as long as nothing has     *)
(* been lost, ranks fall along preferred parents, however late the DIOs;   *)
(* and no step but the reconnection of a parent gives a mote a second one. *)
(***************************************************************************)
EXTENDS Rpl, FiniteSetTheorems, WellFoundedInduction, TLAPS

\* A row that is used is that of a mote.
RowsOK == \A m \in Routers : \A i \in Rows : neighbors[m][i].used => neighbors[m][i].addr \in Motes

\* As long as nothing has been lost, every mote only ever lowers its rank: what a
\* row or a DIO says of the rank of a mote is what it had then, or more.
RanksKnown ==
    /\ \A m \in Routers : \A i \in Rows : neighbors[m][i].used =>
           myDAGrank[neighbors[m][i].addr] <= neighbors[m][i].DAGrank
    /\ \A m \in Motes : myDAGrank[m] <= dio[m]

\* ... no row is disconnected or in need of removal ...
RowsStay ==
    \A m \in Routers : \A i \in Rows : neighbors[m][i].used =>
        neighbors[m][i].connected /\ neighbors[m][i].addr \in InRange(m)

\* ... what a row says of its rank is not above what a later DIO says ...
DiosFall ==
    \A m \in Routers : \A i \in Rows : neighbors[m][i].used =>
        dio[neighbors[m][i].addr] <= neighbors[m][i].DAGrank \/ dio[neighbors[m][i].addr] = NoDio

\* ... a mote with a rank has a row that gives it this rank or a better one, and
\* its preferred rows are there and lead down.
RankEarned ==
    \A m \in Routers : myDAGrank[m] < MaxRank =>
        /\ \E i \in Rows : neighbors[m][i].used /\ Tentative(neighbors[m][i]) <= myDAGrank[m]
        /\ PreferredRows(m) # {}
        /\ \A i \in PreferredRows(m) : neighbors[m][i].DAGrank < myDAGrank[m]

RplInv ==
    /\ RplTypeOK /\ RowsOK
    /\ ~worsened => RanksKnown /\ RowsStay /\ DiosFall /\ RankEarned

Table == [Rows -> Row]

NoneLost == RanksKnown /\ RowsStay /\ DiosFall /\ RankEarned

-----------------------------------------------------------------------------
(* Least members, and the operators on tables.                                *)

LEMMA LeastMember ==
    ASSUME NEW S, S \subseteq Nat, S # {}
    PROVE  \E m \in S : \A x \in S : m <= x
<1>1. IsWellFoundedOn(OpToRel(<, Nat), Nat)
  BY NatLessThanWellFounded, Zenon
<1>2. PICK m \in S : \A y \in S : ~(<<y, m>> \in OpToRel(<, Nat))
  BY <1>1, WFMin, Zenon
<1>3. \A y \in S : ~(y < m)
  BY <1>2, Zenon DEF OpToRel
<1> QED BY <1>3, SMT

LEMMA MinIsLeast ==
    ASSUME NEW S, S \subseteq Nat, S # {}
    PROVE  Min(S) \in S /\ \A x \in S : Min(S) <= x
<1>1. \E m \in S : \A x \in S : m =< x
  BY LeastMember
<1> QED BY <1>1, Zenon DEF Min

LEMMA Constants ==
    /\ TableSize \in Nat \ {0} /\ BestCost \in Nat \ {0} /\ DefaultCost \in Nat \ {0}
    /\ MaxRank \in Nat \ {0} /\ BestCost <= DefaultCost /\ DefaultCost < MaxRank
    /\ Rows \subseteq Nat /\ Root \in Motes /\ NoAddr \notin Motes
    /\ NoDio = MaxRank
    /\ Routers \subseteq Motes
BY RplAssumption DEF Rows, NoDio, Routers

LEMMA RowFields ==
    ASSUME NEW r \in Row
    PROVE  /\ r.used \in BOOLEAN /\ r.connected \in BOOLEAN /\ r.preferred \in BOOLEAN
           /\ r.addr \in Motes \cup {NoAddr} /\ r.DAGrank \in 0 .. MaxRank
           /\ r.DAGrank \in Nat /\ r.DAGrank <= MaxRank
           /\ r.cost \in Nat /\ r.cost > 0
           /\ Tentative(r) \in Nat /\ r.DAGrank < Tentative(r)
<1>1. /\ r.used \in BOOLEAN /\ r.connected \in BOOLEAN /\ r.preferred \in BOOLEAN
      /\ r.addr \in Motes \cup {NoAddr} /\ r.DAGrank \in 0 .. MaxRank
      /\ r.cost \in {BestCost, DefaultCost}
  BY DEF Row
<1> HIDE DEF Row
<1> QED BY <1>1, Constants DEF Tentative

\* A neighbor that is registered takes a row that was not used, or none.
NewRow(n, first) ==
    [used |-> TRUE, connected |-> TRUE, preferred |-> first,
     addr |-> n, DAGrank |-> MaxRank, cost |-> DefaultCost]

LEMMA RegisteredIs ==
    ASSUME NEW table \in Table, NEW n \in Motes
    PROVE  \/ Registered(table, n) = table
           \/ \E k \in Rows : \E first \in BOOLEAN :
                 /\ ~table[k].used
                 /\ first => \A i \in Rows : ~table[i].preferred
                 /\ Registered(table, n) = [table EXCEPT ![k] = NewRow(n, first)]
                 /\ NewRow(n, first) \in Row
<1> DEFINE free == {i \in Rows : ~table[i].used}
           first == \A i \in Rows : ~table[i].preferred
<1>1. CASE Matching(table, n) # {} \/ free = {}
  BY <1>1 DEF Registered
<1>2. CASE ~(Matching(table, n) # {} \/ free = {})
  <2>1. Min(free) \in free
    <3> HIDE DEF free
    <3>1. free \subseteq Nat /\ free # {}
      BY <1>2, Constants DEF free
    <3> QED BY <3>1, MinIsLeast
  <2>2. Registered(table, n) = [table EXCEPT ![Min(free)] = NewRow(n, first)]
    BY <1>2 DEF Registered, NewRow
  <2>3. NewRow(n, first) \in Row
    BY Constants DEF NewRow, Row
  <2> QED BY <2>1, <2>2, <2>3
<1> QED BY <1>1, <1>2

\* The best row is one, leads to the lowest rank, and exists if some rank is good
\* enough.
LEMMA BestIs ==
    ASSUME NEW table \in Table
    PROVE  /\ Best(table) \subseteq Eligible(table)
           /\ \A i \in Best(table) : /\ Tentative(table[i]) < MaxRank
                                     /\ \A j \in Eligible(table) :
                                            Tentative(table[i]) <= Tentative(table[j])
           /\ \A i, j \in Best(table) : i = j
           /\ (\E j \in Eligible(table) : Tentative(table[j]) < MaxRank) => Best(table) # {}
<1> DEFINE E == Eligible(table)
           R(i) == Tentative(table[i])
<1>1. /\ E \subseteq Rows /\ E \subseteq Nat
      /\ \A i \in E : R(i) \in Nat
  <2>1. \A i \in Rows : table[i] \in Row
    BY DEF Table
  <2> QED BY <2>1, Constants, RowFields DEF Eligible
<1>2. \A i : i \in Best(table) <=>
          /\ i \in E /\ R(i) < MaxRank
          /\ \A j \in E : R(i) < R(j) \/ (R(i) = R(j) /\ i <= j)
  BY DEF Best
<1> HIDE DEF R, E
<1>3. ASSUME NEW i \in Best(table), NEW j \in E
      PROVE  R(i) <= R(j)
  <2>1. i \in E /\ R(i) \in Nat /\ R(j) \in Nat
    BY <1>1, <1>2
  <2>2. R(i) < R(j) \/ (R(i) = R(j) /\ i <= j)
    BY <1>2
  <2> QED BY <2>1, <2>2
<1>4. ASSUME NEW i \in Best(table), NEW j \in Best(table)
      PROVE  i = j
  <2>1. i \in E /\ j \in E /\ R(i) \in Nat /\ R(j) \in Nat /\ i \in Nat /\ j \in Nat
    BY <1>1, <1>2
  <2>2. R(i) < R(j) \/ (R(i) = R(j) /\ i <= j)
    BY <1>2, <2>1
  <2>3. R(j) < R(i) \/ (R(j) = R(i) /\ j <= i)
    BY <1>2, <2>1
  <2> QED BY <2>1, <2>2, <2>3
<1>5. ASSUME NEW k \in E, R(k) < MaxRank
      PROVE  Best(table) # {}
  <2> DEFINE Ranks == {R(i) : i \in E}
  <2>1. PICK r \in Ranks : \A x \in Ranks : r <= x
    <3>1. Ranks \subseteq Nat /\ Ranks # {}
      BY <1>1, <1>5
    <3> HIDE DEF Ranks
    <3> QED BY <3>1, LeastMember
  <2>2. \A i \in E : r <= R(i)
    BY <2>1
  <2> DEFINE Firsts == {i \in E : R(i) = r}
  <2>3. PICK i \in Firsts : \A x \in Firsts : i <= x
    <3>1. Firsts \subseteq Nat /\ Firsts # {}
      BY <1>1, <2>1
    <3> HIDE DEF Firsts
    <3> QED BY <3>1, LeastMember
  <2>4. i \in E /\ R(i) = r
    BY <2>3
  <2>5. R(i) < MaxRank
    BY <1>1, <1>5, <2>2, <2>4, Constants
  <2>6. \A j \in E : R(i) < R(j) \/ (R(i) = R(j) /\ i <= j)
    BY <1>1, <2>2, <2>3, <2>4
  <2>7. i \in Best(table)
    BY <1>2, <2>4, <2>5, <2>6
  <2> QED BY <2>7
<1> QED BY <1>2, <1>3, <1>4, <1>5 DEF E, R

LEMMA NewRankIs ==
    ASSUME NEW table \in Table
    PROVE  LET rank == NewRank(table, Best(table)) IN
           /\ rank \in 0 .. MaxRank
           /\ \A j \in Eligible(table) : Tentative(table[j]) < MaxRank =>
                  rank <= Tentative(table[j])
           /\ rank < MaxRank => \E i \in Eligible(table) : /\ Best(table) = {i}
                                                           /\ rank = Tentative(table[i])
           /\ Best(table) = {} => rank = MaxRank
<1> DEFINE rank == NewRank(table, Best(table))
<1>1. CASE Best(table) = {}
  <2>1. rank = MaxRank
    BY <1>1 DEF NewRank
  <2> QED BY <1>1, <2>1, BestIs, Constants
<1>2. CASE Best(table) # {}
  <2>1. PICK i \in Best(table) : TRUE
    BY <1>2
  <2>2. Best(table) = {i} /\ i \in Eligible(table)
    BY <2>1, BestIs
  <2>3. table[i] \in Row /\ Tentative(table[i]) \in Nat
    BY <2>2, RowFields DEF Eligible, Table
  <2>4. rank = Tentative(table[i])
    <3>1. {Tentative(table[j]) : j \in Best(table)} = {Tentative(table[i])}
      BY <2>2
    <3>2. rank = Min({Tentative(table[i])})
      BY <1>2, <3>1 DEF NewRank
    <3>3. Min({Tentative(table[i])}) \in {Tentative(table[i])}
      BY <2>3, MinIsLeast
    <3> QED BY <3>2, <3>3
  <2>5. rank < MaxRank /\ \A j \in Eligible(table) : rank <= Tentative(table[j])
    BY <2>1, <2>4, BestIs
  <2> QED BY <1>2, <2>2, <2>3, <2>4, <2>5, Constants
<1> QED BY <1>1, <1>2

\* What a DIO leaves of a table.
LEMMA AfterDioIs ==
    ASSUME NEW table \in Table, NEW n \in Motes, NEW rank \in 0 .. MaxRank
    PROVE  /\ AfterDio(table, n, rank) \in Table
           /\ \A i \in Rows :
                \/ /\ AfterDio(table, n, rank)[i] = table[i]
                   /\ table[i].used => table[i].addr # n
                \/ /\ table[i].used /\ table[i].addr = n
                   /\ AfterDio(table, n, rank)[i] =
                          [table[i] EXCEPT !.DAGrank = Dampened(@, rank)]
                \/ /\ ~table[i].used
                   /\ \E first \in BOOLEAN :
                         AfterDio(table, n, rank)[i] =
                             [NewRow(n, first) EXCEPT !.DAGrank = Dampened(@, rank)]
<1> DEFINE reg == Registered(table, n)
<1>1. \A old \in 0 .. MaxRank : Dampened(old, rank) \in 0 .. MaxRank
  BY Constants DEF Dampened
<1>2. reg \in Table
  BY RegisteredIs DEF Table
<1>3. \A i \in Rows : AfterDio(table, n, rank)[i] =
          IF reg[i].used /\ reg[i].addr = n
          THEN [reg[i] EXCEPT !.DAGrank = Dampened(@, rank)] ELSE reg[i]
  BY DEF AfterDio, WithRank, Matching
<1>4. \A r \in Row : [r EXCEPT !.DAGrank = Dampened(@, rank)] \in Row
  BY <1>1 DEF Row
<1>5. AfterDio(table, n, rank) \in Table
  <2>1. \A i \in Rows : reg[i] \in Row
    BY <1>2 DEF Table
  <2>2. \A i \in Rows : AfterDio(table, n, rank)[i] \in Row
    BY <1>3, <1>4, <2>1
  <2>3. AfterDio(table, n, rank) = [i \in Rows |-> AfterDio(table, n, rank)[i]]
    BY DEF AfterDio, WithRank
  <2> HIDE DEF reg
  <2> QED BY <2>2, <2>3 DEF Table
<1>6. ASSUME NEW i \in Rows
      PROVE  \/ reg[i] = table[i]
             \/ ~table[i].used /\ \E first \in BOOLEAN : reg[i] = NewRow(n, first)
  BY RegisteredIs DEF Table
<1>7. \A first \in BOOLEAN : NewRow(n, first).used /\ NewRow(n, first).addr = n
  BY DEF NewRow
<1> HIDE DEF reg
<1>8. ASSUME NEW i \in Rows
      PROVE  \/ /\ AfterDio(table, n, rank)[i] = table[i]
                /\ table[i].used => table[i].addr # n
             \/ /\ table[i].used /\ table[i].addr = n
                /\ AfterDio(table, n, rank)[i] =
                       [table[i] EXCEPT !.DAGrank = Dampened(@, rank)]
             \/ /\ ~table[i].used
                /\ \E first \in BOOLEAN :
                      AfterDio(table, n, rank)[i] =
                          [NewRow(n, first) EXCEPT !.DAGrank = Dampened(@, rank)]
  <2>1. CASE reg[i] = table[i]
    BY <1>3, <2>1
  <2>2. CASE ~table[i].used /\ \E first \in BOOLEAN : reg[i] = NewRow(n, first)
    BY <1>3, <1>7, <2>2
  <2> QED BY <1>6, <2>1, <2>2
<1> QED BY <1>5, <1>8

-----------------------------------------------------------------------------
(* The steps.                                                                 *)

LEMMA Typed ==
    ASSUME RplTypeOK
    PROVE  /\ \A m \in Routers : neighbors[m] \in Table
           /\ \A m \in Routers : \A i \in Rows : neighbors[m][i] \in Row
           /\ \A m \in Motes : myDAGrank[m] \in Nat /\ myDAGrank[m] <= MaxRank
           /\ \A m \in Motes : dio[m] \in Nat /\ dio[m] <= MaxRank
<1>1. \A m \in Motes : myDAGrank[m] \in 0 .. MaxRank /\ dio[m] \in 0 .. MaxRank
  BY DEF RplTypeOK
<1> QED BY <1>1, Constants DEF RplTypeOK, Table

\* Motes in range of each other are two.
LEMMA RangeIs ==
    ASSUME RplTypeOK, NEW m \in Motes, NEW n \in InRange(m)
    PROVE  n \in Motes /\ n # m /\ m \in InRange(n)
<1>1. n \in Motes /\ {m, n} \in links
  BY DEF InRange
<1>2. {m, n} = {n, m}
  OBVIOUS
<1>3. n # m
  <2>1. Cardinality({m, n}) = 2
    BY <1>1 DEF RplTypeOK, Pairs
  <2>2. Cardinality({m}) = 1
    BY FS_Singleton
  <2>3. n = m => {m, n} = {m}
    OBVIOUS
  <2> QED BY <2>1, <2>2, <2>3
<1> QED BY <1>1, <1>2, <1>3 DEF InRange

LEMMA InitRplInv == Init => RplInv
<1> SUFFICES ASSUME Init
             PROVE  RplInv
  OBVIOUS
<1> USE DEF Init
<1>1. EmptyRow \in Row /\ EmptyRow.used = FALSE
  BY Constants DEF EmptyRow, Row
<1>2. RplTypeOK
  <2>1. \A m \in Motes : FirstRank(m) \in 0 .. MaxRank
    BY Constants DEF FirstRank
  <2>2. links \subseteq Pairs /\ NoDio \in 0 .. MaxRank /\ 0 \in Nat
    BY RplAssumption, Constants
  <2>3. neighbors \in [Routers -> [Rows -> Row]]
    BY <1>1
  <2>4. myDAGrank \in [Motes -> 0 .. MaxRank] /\ dio \in [Motes -> 0 .. MaxRank]
    BY <2>1, <2>2
  <2> QED BY <2>2, <2>3, <2>4 DEF RplTypeOK
<1>3. \A m \in Routers : /\ \A i \in Rows : ~neighbors[m][i].used
                         /\ ~(myDAGrank[m] < MaxRank)
  <2>1. \A m \in Routers : m \in Motes /\ m # Root /\ FirstRank(m) = MaxRank
    BY DEF Routers, FirstRank
  <2> QED BY <1>1, <2>1, Constants
<1>4. \A m \in Motes : myDAGrank[m] <= dio[m]
  BY Constants DEF FirstRank
<1> QED BY <1>2, <1>3, <1>4 DEF RplInv, RowsOK, RanksKnown, RowsStay, DiosFall, RankEarned

\* Rows that change in nothing but their cost, which falls, and links that come.
LEMMA HearKeeps ==
    ASSUME RplInv, NEW m \in Routers, NEW n \in Motes, Hear(m, n)
    PROVE  RplInv'
<1> USE DEF RplInv
<1> DEFINE reg == Registered(neighbors[m], n)
<1>1. /\ n \in InRange(m) /\ Matching(neighbors[m], n) = {}
      /\ neighbors' = [neighbors EXCEPT ![m] = reg]
      /\ UNCHANGED <<myDAGrank, dio, links, worsened, changes>>
  BY DEF Hear, history
<1>2. m \in Motes /\ neighbors[m] \in Table
  BY Typed, Constants
<1> HIDE DEF reg
<1>3. /\ neighbors[m]' = reg
      /\ \A p \in Routers : p # m => neighbors[p]' = neighbors[p]
  BY <1>1 DEF RplTypeOK
<1>4. CASE reg = neighbors[m]
  <2>1. neighbors' = neighbors
    BY <1>1, <1>4 DEF RplTypeOK
  <2> QED BY <1>1, <2>1, ZenonT(30) DEF RplTypeOK, RowsOK, RanksKnown, RowsStay, DiosFall, RankEarned,
                            PreferredRows, InRange
<1>5. CASE \E k \in Rows : \E first \in BOOLEAN :
                 /\ ~neighbors[m][k].used
                 /\ first => \A i \in Rows : ~neighbors[m][i].preferred
                 /\ reg = [neighbors[m] EXCEPT ![k] = NewRow(n, first)]
                 /\ NewRow(n, first) \in Row
  <2>1. PICK k \in Rows, first \in BOOLEAN :
                 /\ ~neighbors[m][k].used
                 /\ first => \A i \in Rows : ~neighbors[m][i].preferred
                 /\ reg = [neighbors[m] EXCEPT ![k] = NewRow(n, first)]
                 /\ NewRow(n, first) \in Row
    BY <1>5
  <2>2. /\ neighbors[m]'[k] = NewRow(n, first)
        /\ \A i \in Rows : i # k => neighbors[m]'[i] = neighbors[m][i]
    BY <1>2, <1>3, <2>1 DEF Table
  <2>3. /\ NewRow(n, first).used /\ NewRow(n, first).addr = n /\ NewRow(n, first).connected
        /\ NewRow(n, first).DAGrank = MaxRank /\ NewRow(n, first).preferred = first
    BY DEF NewRow
  <2>4. RplTypeOK'
    <3>1. reg \in [Rows -> Row]
      BY <1>2, <2>1 DEF Table
    <3> QED BY <1>1, <3>1 DEF RplTypeOK
  <2>5. ASSUME NEW p \in Routers, NEW i \in Rows
        PROVE  \/ neighbors[p]'[i] = neighbors[p][i]
               \/ /\ p = m /\ i = k /\ neighbors[p]'[i] = NewRow(n, first)
    BY <1>3, <2>2
  <2>6. RowsOK'
    BY <2>3, <2>5 DEF RowsOK
  <2>7. ASSUME ~worsened
        PROVE  NoneLost'
    <3>1. NoneLost
      BY <2>7 DEF NoneLost
    <3>2. RanksKnown'
      <4>1. myDAGrank[n] <= MaxRank
        BY Typed
      <4> QED BY <1>1, <2>3, <2>5, <3>1, <4>1 DEF NoneLost, RanksKnown
    <3>3. RowsStay'
      BY <1>1, <2>3, <2>5, <3>1 DEF NoneLost, RowsStay, InRange
    <3>4. DiosFall'
      <4>1. dio[n] <= MaxRank
        BY Typed
      <4> QED BY <1>1, <2>3, <2>5, <3>1, <4>1 DEF NoneLost, DiosFall
    <3>5. RankEarned'
      <4> SUFFICES ASSUME NEW p \in Routers, myDAGrank[p] < MaxRank
                   PROVE  /\ \E i \in Rows : /\ neighbors[p]'[i].used
                                             /\ Tentative(neighbors[p]'[i]) <= myDAGrank[p]
                          /\ PreferredRows(p)' # {}
                          /\ \A i \in PreferredRows(p)' :
                                 neighbors[p]'[i].DAGrank < myDAGrank[p]
        BY <1>1 DEF RankEarned, Tentative
      <4>1. /\ \E i \in Rows : neighbors[p][i].used /\ Tentative(neighbors[p][i]) <= myDAGrank[p]
            /\ PreferredRows(p) # {}
            /\ \A i \in PreferredRows(p) : neighbors[p][i].DAGrank < myDAGrank[p]
        BY <3>1 DEF NoneLost, RankEarned
      <4>2. CASE p # m
        <5>1. PreferredRows(p)' = PreferredRows(p)
          BY <1>3, <4>2 DEF PreferredRows, Eligible
        <5> QED BY <1>3, <4>1, <4>2, <5>1
      <4>3. CASE p = m
        <5>1. first = FALSE
          BY <2>1, <4>1, <4>3 DEF PreferredRows, Eligible
        <5>2. PreferredRows(m)' = PreferredRows(m)
          BY <2>1, <2>2, <2>3, <5>1 DEF PreferredRows, Eligible
        <5>3. k \notin PreferredRows(m) /\ PreferredRows(m) \subseteq Rows
          BY <2>1 DEF PreferredRows, Eligible
        <5> QED BY <2>1, <2>2, <4>1, <4>3, <5>2, <5>3
      <4> QED BY <4>2, <4>3
    <3> QED BY <3>2, <3>3, <3>4, <3>5 DEF NoneLost
  <2> QED BY <1>1, <2>4, <2>6, <2>7 DEF NoneLost
<1> QED BY <1>2, <1>4, <1>5, RegisteredIs, Constants DEF reg

\* A DIO that waits, and one that is not waiting yet.
LEMMA SendDIOKeeps ==
    ASSUME RplInv, NEW m \in Motes, SendDIO(m)
    PROVE  RplInv'
<1> USE DEF RplInv
<1>1. /\ dio[m] = NoDio /\ dio' = [dio EXCEPT ![m] = myDAGrank[m]]
      /\ UNCHANGED <<neighbors, myDAGrank, links, worsened, changes>>
  BY DEF SendDIO, history
<1>2. dio[m]' = myDAGrank[m] /\ \A p \in Motes : p # m => dio[p]' = dio[p]
  BY <1>1 DEF RplTypeOK
<1>3. RplTypeOK' /\ RowsOK'
  BY <1>1 DEF RplTypeOK, RowsOK
<1>4. ASSUME ~worsened
      PROVE  NoneLost'
  <2>1. RanksKnown'
    BY <1>1, <1>2, <1>4, Typed DEF RanksKnown
  <2>2. DiosFall'
    BY <1>1, <1>2, <1>4 DEF RowsOK, RanksKnown, DiosFall
  <2>3. RowsStay' /\ RankEarned'
    BY <1>1, <1>4 DEF RowsStay, RankEarned, InRange, PreferredRows
  <2> QED BY <2>1, <2>2, <2>3 DEF NoneLost
<1> QED BY <1>1, <1>3, <1>4 DEF NoneLost

\* A DIO that is received by S.
LEMMA ReceiveDIOKeeps ==
    ASSUME RplInv, NEW m \in Motes, NEW S \in SUBSET (InRange(m) \ {Root}), ReceiveDIO(m, S)
    PROVE  RplInv'
<1> USE DEF RplInv
<1>1. /\ dio[m] # NoDio
      /\ dio' = [dio EXCEPT ![m] = NoDio]
      /\ UNCHANGED <<links, worsened, changes>>
  BY DEF ReceiveDIO, history
<1> DEFINE T(n) == AfterDio(neighbors[n], m, dio[m])
<1>2. /\ neighbors' = [n \in Routers |-> IF n \in S THEN Preferred(T(n), Best(T(n)))
                                         ELSE neighbors[n]]
      /\ myDAGrank' = [n \in Motes |-> IF n \in S THEN NewRank(T(n), Best(T(n)))
                                       ELSE myDAGrank[n]]
  <2>1. PICK table \in {[n \in S |-> T(n)]} : \E best \in {[n \in S |-> Best(table[n])]} :
          /\ neighbors' = [n \in Routers |-> IF n \in S THEN Preferred(table[n], best[n])
                                             ELSE neighbors[n]]
          /\ myDAGrank' = [n \in Motes |-> IF n \in S THEN NewRank(table[n], best[n])
                                           ELSE myDAGrank[n]]
    BY Zenon DEF ReceiveDIO
  <2>2. PICK best \in {[n \in S |-> Best(table[n])]} :
          /\ neighbors' = [n \in Routers |-> IF n \in S THEN Preferred(table[n], best[n])
                                             ELSE neighbors[n]]
          /\ myDAGrank' = [n \in Motes |-> IF n \in S THEN NewRank(table[n], best[n])
                                           ELSE myDAGrank[n]]
    BY <2>1
  <2> HIDE DEF T
  <2>3. \A n \in S : table[n] = T(n) /\ best[n] = Best(T(n))
    BY <2>1, <2>2
  <2> QED BY <2>2, <2>3
<1>3. dio[m] \in 0 .. MaxRank /\ dio[m] < MaxRank
  BY <1>1, Typed, Constants
<1>4. ASSUME NEW n \in S
      PROVE  n \in Routers /\ n \in Motes /\ n \in InRange(m) /\ m \in InRange(n)
             /\ neighbors[n] \in Table
  BY RangeIs, Typed, Constants DEF Routers
<1>5. ASSUME NEW n \in S
      PROVE  T(n) \in Table
  BY <1>3, <1>4, AfterDioIs
\* A row of a mote that has received the DIO, but for its preference.
<1>6. ASSUME NEW n \in S, NEW i \in Rows
      PROVE  /\ T(n)[i] \in Row
             /\ \/ T(n)[i] = neighbors[n][i] /\ (neighbors[n][i].used => neighbors[n][i].addr # m)
                \/ /\ T(n)[i].used /\ T(n)[i].addr = m
                   /\ neighbors[n][i].used => /\ T(n)[i].connected = neighbors[n][i].connected
                                              /\ T(n)[i].cost = neighbors[n][i].cost
                                              /\ neighbors[n][i].addr = m
                   /\ ~neighbors[n][i].used => T(n)[i].connected
                   /\ T(n)[i].DAGrank =
                          Dampened(IF neighbors[n][i].used THEN neighbors[n][i].DAGrank ELSE MaxRank,
                                   dio[m])
  <2>1. T(n)[i] \in Row
    BY <1>5 DEF Table
  <2>2. neighbors[n][i] \in Row
    BY <1>4 DEF Table
  <2>3. CASE T(n)[i] = neighbors[n][i] /\ (neighbors[n][i].used => neighbors[n][i].addr # m)
    BY <2>1, <2>3
  <2>4. CASE /\ neighbors[n][i].used /\ neighbors[n][i].addr = m
             /\ T(n)[i] = [neighbors[n][i] EXCEPT !.DAGrank = Dampened(@, dio[m])]
    <3>1. /\ T(n)[i].used = neighbors[n][i].used /\ T(n)[i].addr = neighbors[n][i].addr
          /\ T(n)[i].connected = neighbors[n][i].connected
          /\ T(n)[i].cost = neighbors[n][i].cost
          /\ T(n)[i].DAGrank = Dampened(neighbors[n][i].DAGrank, dio[m])
      BY <2>2, <2>4 DEF Row
    <3> QED BY <2>1, <2>4, <3>1
  <2>5. CASE /\ ~neighbors[n][i].used
             /\ \E first \in BOOLEAN :
                  T(n)[i] = [NewRow(m, first) EXCEPT !.DAGrank = Dampened(@, dio[m])]
    <3>1. PICK first \in BOOLEAN :
              T(n)[i] = [NewRow(m, first) EXCEPT !.DAGrank = Dampened(@, dio[m])]
      BY <2>5
    <3>2. /\ T(n)[i].used /\ T(n)[i].addr = m /\ T(n)[i].connected
          /\ T(n)[i].DAGrank = Dampened(MaxRank, dio[m])
      BY <3>1 DEF NewRow
    <3> QED BY <2>1, <2>5, <3>2
  <2> QED BY <1>3, <1>4, <2>3, <2>4, <2>5, AfterDioIs
<1> HIDE DEF T
<1>7. ASSUME NEW n \in S
      PROVE  /\ neighbors[n]' = Preferred(T(n), Best(T(n)))
             /\ myDAGrank[n]' = NewRank(T(n), Best(T(n)))
             /\ Preferred(T(n), Best(T(n))) \in Table
             /\ Eligible(Preferred(T(n), Best(T(n)))) = Eligible(T(n))
             /\ \A i \in Rows : /\ neighbors[n]'[i] \in Row
                                /\ neighbors[n]'[i].used = T(n)[i].used
                                /\ neighbors[n]'[i].connected = T(n)[i].connected
                                /\ neighbors[n]'[i].addr = T(n)[i].addr
                                /\ neighbors[n]'[i].DAGrank = T(n)[i].DAGrank
                                /\ neighbors[n]'[i].cost = T(n)[i].cost
                                /\ i \in Eligible(T(n)) =>
                                       (neighbors[n]'[i].preferred <=> i \in Best(T(n)))
  <2> DEFINE P == Preferred(T(n), Best(T(n)))
             b(i) == i \in Best(T(n))
  <2>1. neighbors[n]' = P /\ myDAGrank[n]' = NewRank(T(n), Best(T(n)))
    BY <1>2, <1>4
  <2>2. \A i \in Rows : T(n)[i] \in Row
    BY <1>6
  <2>3. P = [i \in Rows |-> IF i \in Eligible(T(n)) THEN [T(n)[i] EXCEPT !.preferred = b(i)]
                            ELSE T(n)[i]]
    BY DEF Preferred
  <2>4. \A i : b(i) \in BOOLEAN
    OBVIOUS
  <2>5. \A i : b(i) <=> i \in Best(T(n))
    OBVIOUS
  <2> HIDE DEF P, b
  <2>6. \A i \in Rows : /\ P[i] \in Row
                        /\ P[i].used = T(n)[i].used /\ P[i].connected = T(n)[i].connected
                        /\ P[i].addr = T(n)[i].addr /\ P[i].DAGrank = T(n)[i].DAGrank
                        /\ P[i].cost = T(n)[i].cost
                        /\ i \in Eligible(T(n)) => P[i].preferred = b(i)
    <3> TAKE i \in Rows
    <3>1. CASE i \in Eligible(T(n))
      <4>1. P[i] = [T(n)[i] EXCEPT !.preferred = b(i)]
        BY <2>3, <3>1
      <4> QED BY <2>2, <2>4, <4>1 DEF Row
    <3>2. CASE i \notin Eligible(T(n))
      BY <2>2, <2>3, <3>2
    <3> QED BY <3>1, <3>2
  <2>7. P \in Table
    BY <2>3, <2>6 DEF Table
  <2>8. Eligible(P) = Eligible(T(n))
    BY <2>6 DEF Eligible
  <2> QED BY <2>1, <2>5, <2>6, <2>7, <2>8 DEF P
<1>8. ASSUME NEW n \in Motes, n \notin S
      PROVE  myDAGrank[n]' = myDAGrank[n] /\ (n \in Routers => neighbors[n]' = neighbors[n])
  BY <1>2, <1>8
<1>9. RplTypeOK'
  <2>1. \A n \in Routers : neighbors[n]' \in Table
    BY <1>7, <1>8, Constants, Typed
  <2>2. \A n \in Motes : myDAGrank[n]' \in 0 .. MaxRank
    <3>1. ASSUME NEW n \in S
          PROVE  NewRank(T(n), Best(T(n))) \in 0 .. MaxRank
      BY <1>5, NewRankIs
    <3> QED BY <1>7, <1>8, <3>1 DEF RplTypeOK
  <2>3. neighbors' \in [Routers -> [Rows -> Row]] /\ myDAGrank' \in [Motes -> 0 .. MaxRank]
    <3>1. DOMAIN neighbors' = Routers /\ neighbors' = [n \in Routers |-> neighbors'[n]]
      BY <1>2
    <3>2. myDAGrank' = [n \in Motes |-> myDAGrank'[n]]
      BY <1>2
    <3> QED BY <2>1, <2>2, <3>1, <3>2 DEF Table
  <2>4. dio' \in [Motes -> 0 .. MaxRank]
    BY <1>1, Constants DEF RplTypeOK
  <2> QED BY <1>1, <2>3, <2>4 DEF RplTypeOK
<1>10. RowsOK'
  <2> SUFFICES ASSUME NEW n \in Routers, NEW i \in Rows, neighbors[n]'[i].used
               PROVE  neighbors[n]'[i].addr \in Motes
    BY DEF RowsOK
  <2>1. CASE n \in S
    BY <1>4, <1>6, <1>7, <2>1 DEF RowsOK
  <2>2. CASE n \notin S
    BY <1>8, <2>2, Constants DEF RowsOK
  <2> QED BY <2>1, <2>2
<1>11. ASSUME ~worsened
       PROVE  NoneLost'
  <2>1. RanksKnown /\ RowsStay /\ DiosFall /\ RankEarned
    BY <1>11
  <2>2. \A old \in 0 .. MaxRank : /\ dio[m] <= old => Dampened(old, dio[m]) = dio[m]
    BY <1>3, Constants DEF Dampened
  \* The rank in the row of the sender is that of the DIO.
  <2>3. ASSUME NEW n \in S, NEW i \in Rows
        PROVE  \/ T(n)[i] = neighbors[n][i] /\ (neighbors[n][i].used => neighbors[n][i].addr # m)
               \/ /\ T(n)[i].used /\ T(n)[i].addr = m /\ T(n)[i].connected
                  /\ T(n)[i].DAGrank = dio[m]
                  /\ neighbors[n][i].used => /\ T(n)[i].cost = neighbors[n][i].cost
                                             /\ dio[m] <= neighbors[n][i].DAGrank
    <3>1. neighbors[n][i] \in Row /\ n \in Routers
      BY <1>4 DEF Table
    <3>2. neighbors[n][i].DAGrank \in 0 .. MaxRank /\ MaxRank \in 0 .. MaxRank
      BY <3>1, RowFields, Constants
    <3>3. neighbors[n][i].used /\ neighbors[n][i].addr = m =>
              dio[m] <= neighbors[n][i].DAGrank /\ neighbors[n][i].connected
      BY <1>1, <2>1, <3>1 DEF DiosFall, RowsStay
    <3>4. dio[m] <= MaxRank
      BY <1>3
    <3> QED BY <1>6, <2>2, <3>2, <3>3, <3>4
  \* Nobody's rank rises.
  <2>4. ASSUME NEW n \in Motes
        PROVE  myDAGrank[n]' \in Nat /\ myDAGrank[n]' <= myDAGrank[n]
    <3>1. CASE n \in S
      <4> DEFINE rank == NewRank(T(n), Best(T(n)))
      <4>1. /\ rank \in 0 .. MaxRank
            /\ \A j \in Eligible(T(n)) : Tentative(T(n)[j]) < MaxRank =>
                   rank <= Tentative(T(n)[j])
        BY <1>5, <3>1, NewRankIs
      <4>2. myDAGrank[n]' = rank
        BY <1>7, <3>1
      <4> HIDE DEF rank
      <4>3. CASE myDAGrank[n] = MaxRank
        BY <4>1, <4>2, <4>3, Constants
      <4>4. CASE myDAGrank[n] # MaxRank
        <5>1. myDAGrank[n] < MaxRank /\ myDAGrank[n] \in Nat /\ n \in Routers
          BY <1>4, <3>1, <4>4, Typed, Constants
        <5>2. PICK j \in Rows : neighbors[n][j].used
                                /\ Tentative(neighbors[n][j]) <= myDAGrank[n]
          BY <2>1, <5>1 DEF RankEarned
        <5>3. /\ neighbors[n][j] \in Row /\ T(n)[j] \in Row
              /\ neighbors[n][j].connected
          BY <1>4, <1>6, <2>1, <3>1, <5>1, <5>2 DEF Table, RowsStay
        <5>4. j \in Eligible(T(n)) /\ Tentative(T(n)[j]) <= Tentative(neighbors[n][j])
          <6>1. CASE T(n)[j] = neighbors[n][j]
            BY <5>2, <5>3, <6>1, RowFields DEF Eligible
          <6>2. CASE T(n)[j] # neighbors[n][j]
            <7>1. /\ T(n)[j].used /\ T(n)[j].connected /\ T(n)[j].DAGrank = dio[m]
                  /\ T(n)[j].cost = neighbors[n][j].cost
                  /\ dio[m] <= neighbors[n][j].DAGrank
              BY <2>3, <3>1, <5>2, <6>2
            <7> QED BY <1>3, <5>3, <7>1, RowFields DEF Eligible, Tentative
          <6> QED BY <6>1, <6>2
        <5>5. Tentative(T(n)[j]) \in Nat /\ Tentative(neighbors[n][j]) \in Nat /\ MaxRank \in Nat
          BY <5>3, RowFields, Constants
        <5> QED BY <4>1, <4>2, <5>1, <5>2, <5>4, <5>5
      <4> QED BY <4>3, <4>4
    <3>2. CASE n \notin S
      BY <1>8, <3>2, Typed
    <3> QED BY <3>1, <3>2
  <2>5. RanksKnown'
    <3>1. ASSUME NEW n \in Routers, NEW i \in Rows, neighbors[n]'[i].used
          PROVE  myDAGrank'[neighbors[n]'[i].addr] <= neighbors[n]'[i].DAGrank
      <4>0. neighbors[n][i] \in Row
        BY Typed
      <4> PICK a \in Motes : a = neighbors[n]'[i].addr
        BY <1>10, <3>1 DEF RowsOK
      <4>1. myDAGrank[a]' <= myDAGrank[a] /\ myDAGrank[a]' \in Nat /\ myDAGrank[a] \in Nat
        BY <2>4, <4>0, Typed
      <4>2. CASE n \in S /\ T(n)[i] # neighbors[n][i]
        <5>1. a = m /\ neighbors[n]'[i].DAGrank = dio[m]
          BY <1>7, <2>3, <4>2
        <5>2. myDAGrank[m] <= dio[m]
          BY <2>1 DEF RanksKnown
        <5> QED BY <1>3, <4>1, <5>1, <5>2
      <4>3. CASE ~(n \in S /\ T(n)[i] # neighbors[n][i])
        <5>1. /\ neighbors[n][i].used /\ a = neighbors[n][i].addr
              /\ neighbors[n]'[i].DAGrank = neighbors[n][i].DAGrank
          BY <1>7, <1>8, <3>1, <4>3, Constants
        <5>2. myDAGrank[a] <= neighbors[n][i].DAGrank
          BY <2>1, <5>1 DEF RanksKnown
        <5>3. neighbors[n][i].DAGrank \in Nat
          BY <4>0, RowFields
        <5> QED BY <4>1, <5>1, <5>2, <5>3
      <4> QED BY <4>2, <4>3
    <3>2. ASSUME NEW n \in Motes
          PROVE  myDAGrank[n]' <= dio[n]'
      <4>1. dio[n]' = (IF n = m THEN MaxRank ELSE dio[n]) /\ myDAGrank[n] <= MaxRank
            /\ dio[n] \in Nat /\ myDAGrank[n] \in Nat /\ myDAGrank[n] <= dio[n]
        BY <1>1, <2>1, Typed, Constants DEF RplTypeOK, RanksKnown
      <4> QED BY <2>4, <4>1, Constants
    <3> QED BY <3>1, <3>2 DEF RanksKnown
  <2>6. RowsStay'
    <3> SUFFICES ASSUME NEW n \in Routers, NEW i \in Rows, neighbors[n]'[i].used
                 PROVE  neighbors[n]'[i].connected /\ neighbors[n]'[i].addr \in InRange(n)
      BY <1>1 DEF RowsStay, InRange
    <3>1. CASE n \in S /\ T(n)[i] # neighbors[n][i]
      BY <1>4, <1>7, <2>3, <3>1
    <3>2. CASE ~(n \in S /\ T(n)[i] # neighbors[n][i])
      BY <1>7, <1>8, <2>1, <3>2, Constants DEF RowsStay
    <3> QED BY <3>1, <3>2
  <2>7. DiosFall'
    <3> SUFFICES ASSUME NEW n \in Routers, NEW i \in Rows, neighbors[n]'[i].used,
                        neighbors[n]'[i].addr # m
                 PROVE  \/ dio[neighbors[n]'[i].addr] <= neighbors[n]'[i].DAGrank
                        \/ dio[neighbors[n]'[i].addr] = NoDio
      <4>1. dio'[m] = NoDio /\ \A p \in Motes : p # m => dio'[p] = dio[p]
        BY <1>1 DEF RplTypeOK
      <4> QED BY <1>10, <4>1 DEF DiosFall, RowsOK
    <3>1. /\ neighbors[n][i].used /\ neighbors[n][i].addr = neighbors[n]'[i].addr
          /\ neighbors[n][i].DAGrank = neighbors[n]'[i].DAGrank
      BY <1>7, <1>8, <2>3, Constants
    <3> QED BY <2>1, <3>1 DEF DiosFall
  <2>8. RankEarned'
    <3> SUFFICES ASSUME NEW n \in Routers, myDAGrank[n]' < MaxRank
                 PROVE  /\ \E i \in Rows : /\ neighbors[n]'[i].used
                                           /\ Tentative(neighbors[n]'[i]) <= myDAGrank[n]'
                        /\ PreferredRows(n)' # {}
                        /\ \A i \in PreferredRows(n)' :
                               neighbors[n]'[i].DAGrank < myDAGrank[n]'
      BY DEF RankEarned, Tentative
    <3>1. CASE n \in S
      <4>1. PICK i \in Eligible(T(n)) : /\ Best(T(n)) = {i}
                                        /\ myDAGrank[n]' = Tentative(T(n)[i])
        BY <1>5, <1>7, <3>1, NewRankIs
      <4>2. i \in Rows /\ T(n)[i].used /\ T(n)[i] \in Row
        BY <1>6, <3>1, <4>1 DEF Eligible
      <4>3. PreferredRows(n)' = {i}
        <5>1. Eligible(neighbors[n])' = Eligible(T(n))
          BY <1>7, <3>1 DEF Eligible
        <5>2. PreferredRows(n)' = {j \in Eligible(neighbors[n])' : neighbors[n]'[j].preferred}
          BY DEF PreferredRows
        <5>3. Eligible(T(n)) \subseteq Rows
          BY DEF Eligible
        <5> QED BY <1>7, <3>1, <4>1, <5>1, <5>2, <5>3
      <4>4. /\ Tentative(neighbors[n]'[i]) = Tentative(T(n)[i])
            /\ neighbors[n]'[i].DAGrank = T(n)[i].DAGrank /\ neighbors[n]'[i].used
        BY <1>7, <3>1, <4>2 DEF Tentative
      <4>5. T(n)[i].DAGrank < Tentative(T(n)[i]) /\ Tentative(T(n)[i]) \in Nat
        BY <4>2, RowFields
      <4> QED BY <4>1, <4>2, <4>3, <4>4, <4>5
    <3>2. CASE n \notin S
      <4>1. neighbors[n]' = neighbors[n] /\ myDAGrank[n]' = myDAGrank[n]
        BY <1>8, <3>2, Constants
      <4>2. PreferredRows(n)' = PreferredRows(n)
        BY <4>1 DEF PreferredRows, Eligible
      <4> QED BY <2>1, <4>1, <4>2 DEF RankEarned
    <3> QED BY <3>1, <3>2
  <2> QED BY <2>5, <2>6, <2>7, <2>8 DEF NoneLost
<1> QED BY <1>1, <1>9, <1>10, <1>11 DEF NoneLost

\* One row of one table is written.
LEMMA OneRow ==
    ASSUME RplTypeOK, NEW m \in Routers, NEW i \in Rows, NEW r \in Row,
           neighbors' = [neighbors EXCEPT ![m][i] = r]
    PROVE  /\ neighbors' \in [Routers -> [Rows -> Row]]
           /\ neighbors[m]'[i] = r
           /\ \A p \in Routers : \A j \in Rows :
                  ~(p = m /\ j = i) => neighbors[p]'[j] = neighbors[p][j]
BY DEF RplTypeOK

\* A row that is no longer used, or only changes what it knows of the link.
LEMMA RemoveOldKeeps ==
    ASSUME RplInv, NEW m \in Routers, NEW i \in Rows, RemoveOld(m, i)
    PROVE  RplInv'
<1> USE DEF RplInv
<1> DEFINE r == [EmptyRow EXCEPT !.connected = neighbors[m][i].connected]
<1>1. /\ Removable(m, i)
      /\ neighbors' = [neighbors EXCEPT ![m][i] = r]
      /\ UNCHANGED <<myDAGrank, dio, links, worsened, changes>>
  BY DEF RemoveOld, history
<1>2. r \in Row /\ r.used = FALSE
  <2>1. neighbors[m][i].connected \in BOOLEAN
    BY Typed, RowFields
  <2>2. /\ EmptyRow \in Row /\ EmptyRow.used = FALSE
        /\ \A c \in BOOLEAN : \A e \in Row :
               [e EXCEPT !.connected = c] \in Row /\ [e EXCEPT !.connected = c].used = e.used
    BY Constants DEF EmptyRow, Row
  <2> QED BY <2>1, <2>2
<1> HIDE DEF r
<1>3. RplTypeOK' /\ RowsOK'
  BY <1>1, <1>2, OneRow DEF RplTypeOK, RowsOK
<1>4. worsened
  BY <1>1 DEF Removable, RowsStay
<1> QED BY <1>1, <1>3, <1>4

LEMMA GetPreferredParentKeeps ==
    ASSUME RplInv, NEW m \in Routers, GetPreferredParent(m)
    PROVE  RplInv'
<1> USE DEF RplInv
<1>1. PICK i \in Ranked(m) : neighbors' = [neighbors EXCEPT ![m][i].preferred = TRUE]
  BY DEF GetPreferredParent
<1> DEFINE r == [neighbors[m][i] EXCEPT !.preferred = TRUE]
<1>2. /\ i \in Rows /\ neighbors[m][i] \in Row /\ PreferredRows(m) = {}
      /\ UNCHANGED <<myDAGrank, dio, links, worsened, changes>>
  BY Typed DEF GetPreferredParent, history, Ranked, Eligible, Promotes, PreferredRows
<1>3. /\ r \in Row /\ r.used = neighbors[m][i].used /\ r.connected = neighbors[m][i].connected
      /\ r.addr = neighbors[m][i].addr /\ r.DAGrank = neighbors[m][i].DAGrank
      /\ neighbors' = [neighbors EXCEPT ![m][i] = r]
  BY <1>1, <1>2 DEF Row, RplTypeOK
<1> HIDE DEF r
<1>4. \A p \in Routers : \A j \in Rows :
          /\ neighbors[p]'[j].used = neighbors[p][j].used
          /\ neighbors[p]'[j].connected = neighbors[p][j].connected
          /\ neighbors[p]'[j].addr = neighbors[p][j].addr
          /\ neighbors[p]'[j].DAGrank = neighbors[p][j].DAGrank
          /\ p # m => neighbors[p]'[j] = neighbors[p][j]
  BY <1>2, <1>3, OneRow
<1>5. RplTypeOK' /\ RowsOK'
  BY <1>2, <1>3, <1>4, OneRow DEF RplTypeOK, RowsOK
<1>6. ASSUME ~worsened
      PROVE  NoneLost'
  <2>1. RanksKnown' /\ RowsStay' /\ DiosFall'
    <3>1. RanksKnown /\ RowsStay /\ DiosFall
      BY <1>6
    <3>2. RanksKnown'
      BY <1>2, <1>4, <3>1 DEF RanksKnown
    <3>3. RowsStay'
      BY <1>2, <1>4, <3>1, ZenonT(30) DEF RowsStay, InRange
    <3>4. DiosFall'
      BY <1>2, <1>4, <3>1 DEF DiosFall
    <3> QED BY <3>2, <3>3, <3>4
  <2>2. RankEarned'
    <3> SUFFICES ASSUME NEW p \in Routers, myDAGrank[p] < MaxRank
                 PROVE  /\ \E j \in Rows : /\ neighbors[p]'[j].used
                                           /\ Tentative(neighbors[p]'[j]) <= myDAGrank[p]
                        /\ PreferredRows(p)' # {}
                        /\ \A j \in PreferredRows(p)' :
                               neighbors[p]'[j].DAGrank < myDAGrank[p]
      BY <1>2 DEF RankEarned, Tentative
    <3>1. /\ \E j \in Rows : neighbors[p][j].used /\ Tentative(neighbors[p][j]) <= myDAGrank[p]
          /\ PreferredRows(p) # {}
          /\ \A j \in PreferredRows(p) : neighbors[p][j].DAGrank < myDAGrank[p]
      BY <1>6 DEF RankEarned
    <3>2. p # m
      BY <1>2, <3>1
    <3>3. PreferredRows(p)' = PreferredRows(p) /\ PreferredRows(p) \subseteq Rows
      BY <1>4, <3>2 DEF PreferredRows, Eligible
    <3> QED BY <1>4, <3>1, <3>2, <3>3
  <2> QED BY <2>1, <2>2 DEF NoneLost
<1> QED BY <1>2, <1>5, <1>6 DEF NoneLost

LEMMA ImproveKeeps ==
    ASSUME RplInv, NEW m \in Routers, NEW i \in Rows, Improve(m, i)
    PROVE  RplInv'
<1> USE DEF RplInv
<1> DEFINE r == [neighbors[m][i] EXCEPT !.cost = BestCost]
<1>1. /\ neighbors[m][i] \in Row /\ changes' \in Nat
      /\ neighbors' = [neighbors EXCEPT ![m][i].cost = BestCost]
      /\ UNCHANGED <<myDAGrank, dio, links, worsened>>
  BY Typed DEF Improve, Change, RplTypeOK
<1>2. /\ r \in Row /\ r.used = neighbors[m][i].used /\ r.connected = neighbors[m][i].connected
      /\ r.addr = neighbors[m][i].addr /\ r.DAGrank = neighbors[m][i].DAGrank
      /\ r.preferred = neighbors[m][i].preferred /\ r.cost = BestCost
      /\ neighbors' = [neighbors EXCEPT ![m][i] = r]
  BY <1>1 DEF Row, RplTypeOK
<1>3. Tentative(r) <= Tentative(neighbors[m][i])
  <2>1. neighbors[m][i].cost \in {BestCost, DefaultCost}
    BY <1>1 DEF Row
  <2> QED BY <1>1, <1>2, <2>1, RowFields, Constants DEF Tentative
<1> HIDE DEF r
<1>4. \A p \in Routers : \A j \in Rows :
          /\ neighbors[p]'[j].used = neighbors[p][j].used
          /\ neighbors[p]'[j].connected = neighbors[p][j].connected
          /\ neighbors[p]'[j].addr = neighbors[p][j].addr
          /\ neighbors[p]'[j].DAGrank = neighbors[p][j].DAGrank
          /\ neighbors[p]'[j].preferred = neighbors[p][j].preferred
          /\ neighbors[p]'[j] = neighbors[p][j] \/
                 Tentative(neighbors[p]'[j]) <= Tentative(neighbors[p][j])
  BY <1>1, <1>2, <1>3, OneRow
<1>5. RplTypeOK' /\ RowsOK'
  <2>1. RplTypeOK'
    <3>1. neighbors' \in [Routers -> [Rows -> Row]]
      BY <1>2, OneRow
    <3>2. /\ UNCHANGED <<myDAGrank, dio, links, worsened>> /\ changes' \in Nat
      BY <1>1
    <3> QED BY <3>1, <3>2 DEF RplTypeOK
  <2>2. RowsOK'
    BY <1>4 DEF RowsOK
  <2> QED BY <2>1, <2>2
<1>6. ASSUME ~worsened
      PROVE  NoneLost'
  <2>1. RanksKnown' /\ RowsStay' /\ DiosFall'
    <3>1. RanksKnown /\ RowsStay /\ DiosFall
      BY <1>6
    <3>2. RanksKnown'
      BY <1>1, <1>4, <3>1 DEF RanksKnown
    <3>3. RowsStay'
      <4>1. \A p \in Motes : InRange(p)' = InRange(p)
        BY <1>1 DEF InRange
      <4>2. \A p \in Routers : \A j \in Rows :
                /\ neighbors[p]'[j].used = neighbors[p][j].used
                /\ neighbors[p]'[j].connected = neighbors[p][j].connected
                /\ neighbors[p]'[j].addr = neighbors[p][j].addr
        BY <1>4
      <4> QED BY <3>1, <4>1, <4>2, Constants DEF RowsStay
    <3>4. DiosFall'
      BY <1>1, <1>4, <3>1 DEF DiosFall
    <3> QED BY <3>2, <3>3, <3>4
  <2>2. RankEarned'
    <3> SUFFICES ASSUME NEW p \in Routers, myDAGrank[p] < MaxRank
                 PROVE  /\ \E j \in Rows : /\ neighbors[p]'[j].used
                                           /\ Tentative(neighbors[p]'[j]) <= myDAGrank[p]
                        /\ PreferredRows(p)' # {}
                        /\ \A j \in PreferredRows(p)' :
                               neighbors[p]'[j].DAGrank < myDAGrank[p]
      BY <1>1 DEF RankEarned, Tentative
    <3>1. PICK j \in Rows : neighbors[p][j].used /\ Tentative(neighbors[p][j]) <= myDAGrank[p]
      BY <1>6 DEF RankEarned
    <3>2. /\ PreferredRows(p) # {}
          /\ \A k \in PreferredRows(p) : neighbors[p][k].DAGrank < myDAGrank[p]
      BY <1>6 DEF RankEarned
    <3>3. PreferredRows(p)' = PreferredRows(p) /\ PreferredRows(p) \subseteq Rows
      BY <1>4 DEF PreferredRows, Eligible
    <3>4. /\ neighbors[p]'[j] \in Row /\ neighbors[p][j] \in Row
          /\ p \in Motes /\ myDAGrank[p] \in Nat
      BY <1>5, Typed, Constants DEF RplTypeOK
    <3>5. neighbors[p]'[j].used /\ Tentative(neighbors[p]'[j]) <= myDAGrank[p]
      <4>1. Tentative(neighbors[p]'[j]) \in Nat /\ Tentative(neighbors[p][j]) \in Nat
        BY <3>4, RowFields
      <4> QED BY <1>4, <3>1, <3>4, <4>1
    <3> QED BY <1>4, <3>2, <3>3, <3>5
  <2> QED BY <2>1, <2>2 DEF NoneLost
<1> QED BY <1>1, <1>5, <1>6 DEF NoneLost

\* What the manager or the environment makes worse: only the types remain.
LEMMA TroubleKeeps ==
    ASSUME RplInv,
           \/ LoseLink
           \/ \E m \in Routers : Reboot(m)
           \/ \E m \in Routers : \E i \in Rows : BlacklistToggle(m, i) \/ Degrade(m, i)
    PROVE  RplInv'
<1> USE DEF RplInv
<1>1. worsened' = TRUE /\ changes' \in Nat
  BY DEF LoseLink, Reboot, BlacklistToggle, Degrade, Trouble, Change, RplTypeOK
<1>2. CASE LoseLink
  BY <1>1, <1>2 DEF LoseLink, RplTypeOK, RowsOK
<1>3. ASSUME NEW m \in Routers, Reboot(m)
      PROVE  RplTypeOK' /\ RowsOK'
  <2>1. EmptyRow \in Row /\ EmptyRow.used = FALSE
    BY Constants DEF EmptyRow, Row
  <2>2. FirstRank(m) \in 0 .. MaxRank /\ NoDio \in 0 .. MaxRank
    BY Constants DEF FirstRank
  <2>3. neighbors' = [neighbors EXCEPT ![m] = [i \in Rows |-> EmptyRow]]
        /\ myDAGrank' = [myDAGrank EXCEPT ![m] = FirstRank(m)]
        /\ dio' = [dio EXCEPT ![m] = NoDio] /\ links' = links
    BY <1>3 DEF Reboot
  <2> QED BY <1>1, <2>1, <2>2, <2>3 DEF RplTypeOK, RowsOK
<1>4. ASSUME NEW m \in Routers, NEW i \in Rows, BlacklistToggle(m, i) \/ Degrade(m, i)
      PROVE  RplTypeOK' /\ RowsOK'
  <2>1. neighbors[m][i] \in Row /\ neighbors[m][i].used /\ UNCHANGED <<myDAGrank, dio, links>>
    BY <1>4, Typed DEF BlacklistToggle, Degrade
  <2>2. PICK r \in Row : /\ r.used = neighbors[m][i].used /\ r.addr = neighbors[m][i].addr
                         /\ neighbors' = [neighbors EXCEPT ![m][i] = r]
    <3>1. CASE BlacklistToggle(m, i)
      <4> DEFINE r == [neighbors[m][i] EXCEPT !.connected = ~@]
      <4>1. r \in Row /\ r.used = neighbors[m][i].used /\ r.addr = neighbors[m][i].addr
        BY <2>1 DEF Row
      <4>2. neighbors' = [neighbors EXCEPT ![m][i] = r]
        BY <3>1 DEF BlacklistToggle, RplTypeOK
      <4> QED BY <4>1, <4>2
    <3>2. CASE Degrade(m, i)
      <4> DEFINE r == [neighbors[m][i] EXCEPT !.cost = DefaultCost]
      <4>1. r \in Row /\ r.used = neighbors[m][i].used /\ r.addr = neighbors[m][i].addr
        BY <2>1 DEF Row
      <4>2. neighbors' = [neighbors EXCEPT ![m][i] = r]
        BY <3>2 DEF Degrade, RplTypeOK
      <4> QED BY <4>1, <4>2
    <3> QED BY <1>4, <3>1, <3>2
  <2> QED BY <1>1, <2>1, <2>2, OneRow DEF RplTypeOK, RowsOK
<1> QED BY <1>1, <1>2, <1>3, <1>4

LEMMA GainLinkKeeps ==
    ASSUME RplInv, GainLink
    PROVE  RplInv'
BY DEF RplInv, GainLink, history, RplTypeOK, RowsOK, RanksKnown, RowsStay, DiosFall,
       RankEarned, InRange, PreferredRows, Eligible, Tentative

LEMMA NextRplInv == RplInv /\ [Next]_vars => RplInv'
<1> SUFFICES ASSUME RplInv, [Next]_vars
             PROVE  RplInv'
  OBVIOUS
<1>1. CASE Environment
  BY <1>1, TroubleKeeps, GainLinkKeeps, ImproveKeeps DEF Environment
<1>2. CASE \E m \in Motes : SendDIO(m) \/ \E S \in SUBSET (InRange(m) \ {Root}) : ReceiveDIO(m, S)
  BY <1>2, SendDIOKeeps, ReceiveDIOKeeps
<1>3. CASE \E m \in Routers : \/ GetPreferredParent(m)
                              \/ \E n \in Motes : Hear(m, n)
                              \/ \E i \in Rows : RemoveOld(m, i)
  BY <1>3, GetPreferredParentKeeps, HearKeeps, RemoveOldKeeps
<1>4. CASE UNCHANGED vars
  BY <1>4 DEF vars, RplInv, RplTypeOK, RowsOK, RanksKnown, RowsStay, DiosFall,
              RankEarned, InRange, PreferredRows, Eligible, Tentative
<1> QED BY <1>1, <1>2, <1>3, <1>4 DEF Next

\* The inductive invariant holds in every reachable state: as long as nothing has
\* been lost, every rank only falls, so what rows and DIOs say of it is never too
\* low, and a mote with a rank has a preferred row that leads down.
THEOREM RplInvariant == Spec => []RplInv
<1> QED BY InitRplInv, NextRplInv, PTL DEF Spec

\* Every row of a neighbor table is well formed and no rank is beyond MAXDAGRANK,
\* whatever DIOs arrive however late.
THEOREM RplType == Spec => []RplTypeOK
<1>1. RplInv => RplTypeOK
  BY DEF RplInv
<1> QED BY <1>1, RplInvariant, PTL

\* As long as nothing has been lost, ranks fall along preferred parents.
THEOREM RplRanksFall == Spec => []RanksFall
<1>1. RplInv => RanksFall
  <2> SUFFICES ASSUME RplInv, ~worsened, NEW m \in Routers, NEW i \in PreferredRows(m),
                      myDAGrank[m] < MaxRank
               PROVE  myDAGrank[neighbors[m][i].addr] < myDAGrank[m]
    BY DEF RanksFall
  <2>1. i \in Rows /\ neighbors[m][i].used
    BY DEF PreferredRows, Eligible
  <2>2. neighbors[m][i].addr \in Motes /\ neighbors[m][i] \in Row /\ m \in Motes
    BY <2>1, Typed, Constants DEF RplInv, RowsOK
  <2>3. /\ myDAGrank[neighbors[m][i].addr] \in Nat /\ myDAGrank[m] \in Nat
        /\ neighbors[m][i].DAGrank \in Nat
    BY <2>2, Typed, RowFields DEF RplInv
  <2>4. /\ myDAGrank[neighbors[m][i].addr] <= neighbors[m][i].DAGrank
        /\ neighbors[m][i].DAGrank < myDAGrank[m]
    BY <2>1 DEF RplInv, RanksKnown, RankEarned
  <2> QED BY <2>3, <2>4
<1> QED BY <1>1, RplInvariant, PTL

-----------------------------------------------------------------------------
(* The second parent.                                                         *)

LEMMA NoSecondParent ==
    ASSUME RplInv, [Next]_vars, NEW m \in Routers, TwoParents(m)', ~TwoParents(m)
    PROVE  \E i \in Rows : Reconnected(m, i)
<1> USE DEF RplInv
\* The rows whose preference and eligibility come with the step make the second.
<1>1. PICK a \in PreferredRows(m)', b \in PreferredRows(m)' : a # b
  BY DEF TwoParents
<1>2. /\ PreferredRows(m)' = {i \in Rows : neighbors[m]'[i].used /\ neighbors[m]'[i].connected
                                           /\ neighbors[m]'[i].preferred}
      /\ PreferredRows(m) = {i \in Rows : neighbors[m][i].used /\ neighbors[m][i].connected
                                          /\ neighbors[m][i].preferred}
  BY DEF PreferredRows, Eligible
<1>3. \A i, j \in PreferredRows(m) : i = j
  BY DEF TwoParents
\* A step that makes no row preferred, or makes one when there is none.
<1>4. ASSUME NEW k, \A i \in PreferredRows(m)' : i \in PreferredRows(m) \/ i = k,
             k \in PreferredRows(m)' /\ k \notin PreferredRows(m) => PreferredRows(m) = {}
      PROVE  FALSE
  BY <1>1, <1>3, <1>4
<1>5. UNCHANGED neighbors => FALSE
  BY <1>1, <1>2, <1>3
<1>6. \A p \in Routers : \A i \in Rows : neighbors[p][i] \in Row
  BY Typed
<1>7. ASSUME NEW n \in Motes, Hear(m, n)
      PROVE  FALSE
  <2>1. neighbors[m]' = Registered(neighbors[m], n) /\ neighbors[m] \in Table
    BY <1>7, Typed DEF Hear, RplTypeOK
  <2>2. neighbors[m]' # neighbors[m]
    BY <1>1, <1>2, <1>3
  <2>3. PICK k \in Rows, first \in BOOLEAN :
            /\ first => \A i \in Rows : ~neighbors[m][i].preferred
            /\ neighbors[m]' = [neighbors[m] EXCEPT ![k] = NewRow(n, first)]
    BY <2>1, <2>2, RegisteredIs
  <2>4. /\ neighbors[m]'[k] = NewRow(n, first) /\ NewRow(n, first).preferred = first
        /\ \A i \in Rows : i # k => neighbors[m]'[i] = neighbors[m][i]
    BY <2>1, <2>3 DEF Table, NewRow
  <2> QED BY <1>2, <1>4, <2>3, <2>4
<1>8. ASSUME NEW s \in Motes, NEW S \in SUBSET (InRange(s) \ {Root}), ReceiveDIO(s, S)
      PROVE  FALSE
  <2> DEFINE T == AfterDio(neighbors[m], s, dio[s])
  <2>1. neighbors[m]' = Preferred(T, Best(T)) \/ neighbors[m]' = neighbors[m]
    <3>1. PICK table \in {[n \in S |-> AfterDio(neighbors[n], s, dio[s])]} :
              \E best \in {[n \in S |-> Best(table[n])]} :
                neighbors' = [n \in Routers |-> IF n \in S THEN Preferred(table[n], best[n])
                                                ELSE neighbors[n]]
      BY <1>8 DEF ReceiveDIO
    <3>2. PICK best \in {[n \in S |-> Best(table[n])]} :
                neighbors' = [n \in Routers |-> IF n \in S THEN Preferred(table[n], best[n])
                                                ELSE neighbors[n]]
      BY <3>1
    <3>3. m \in S => table[m] = T /\ best[m] = Best(T)
      BY <3>1, <3>2
    <3> HIDE DEF T
    <3> QED BY <3>2, <3>3
  <2>2. CASE neighbors[m]' = Preferred(T, Best(T))
    <3>1. T \in Table
      BY Typed, AfterDioIs DEF RplTypeOK
    <3> HIDE DEF T
    <3>2. Best(T) \subseteq Eligible(T) /\ \A i, j \in Best(T) : i = j
      BY <3>1, BestIs
    <3>3. ASSUME NEW i \in PreferredRows(m)'
          PROVE  i \in Best(T)
      <4>1. i \in Rows /\ neighbors[m]'[i].used /\ neighbors[m]'[i].connected
            /\ neighbors[m]'[i].preferred
        BY <1>2
      <4>2. T[i] \in Row
        BY <3>1, <4>1 DEF Table
      <4>3. neighbors[m]'[i] = IF i \in Eligible(T) THEN [T[i] EXCEPT !.preferred = i \in Best(T)]
                               ELSE T[i]
        BY <2>2, <4>1 DEF Preferred
      <4>4. CASE i \in Eligible(T)
        <5>1. neighbors[m]'[i].preferred <=> i \in Best(T)
          BY <4>2, <4>3, <4>4 DEF Row
        <5> QED BY <4>1, <5>1
      <4>5. CASE i \notin Eligible(T)
        BY <4>1, <4>3, <4>5 DEF Eligible
      <4> QED BY <4>4, <4>5
    <3> QED BY <1>1, <3>2, <3>3
  <2>3. CASE neighbors[m]' = neighbors[m]
    BY <1>1, <1>2, <1>3, <2>3
  <2> QED BY <2>1, <2>2, <2>3
\* One row of some mote is written.
<1>9. ASSUME NEW p \in Routers, NEW k \in Rows, NEW r \in Row,
             neighbors' = [neighbors EXCEPT ![p][k] = r]
      PROVE  /\ neighbors[p]'[k] = r
             /\ k \in PreferredRows(m)' /\ k \notin PreferredRows(m) /\ PreferredRows(m) # {}
             /\ p = m
  <2>1. /\ neighbors[p]'[k] = r
        /\ \A q \in Routers : \A j \in Rows : ~(q = p /\ j = k) => neighbors[q]'[j] = neighbors[q][j]
    BY <1>9, OneRow, ZenonT(30)
  <2>2. p = m
    BY <1>1, <1>2, <1>3, <2>1
  <2>3. \A i \in PreferredRows(m)' : i \in PreferredRows(m) \/ i = k
    BY <1>2, <2>1
  <2> QED BY <1>4, <2>1, <2>2, <2>3
<1>10. ASSUME NEW p \in Routers, GetPreferredParent(p)
       PROVE  FALSE
  <2>1. PICK i \in Ranked(p) : neighbors' = [neighbors EXCEPT ![p][i].preferred = TRUE]
    BY <1>10 DEF GetPreferredParent
  <2>2. i \in Rows /\ neighbors[p][i] \in Row /\ PreferredRows(p) = {}
    BY <1>6, <1>10, <2>1 DEF GetPreferredParent, Promotes, Ranked, Eligible, PreferredRows
  <2> DEFINE r == [neighbors[p][i] EXCEPT !.preferred = TRUE]
  <2>3. r \in Row /\ neighbors' = [neighbors EXCEPT ![p][i] = r]
    BY <2>1, <2>2 DEF Row, RplTypeOK
  <2> HIDE DEF r
  <2> QED BY <1>9, <2>2, <2>3
<1>11. ASSUME NEW p \in Routers, NEW i \in Rows, RemoveOld(p, i)
       PROVE  FALSE
  <2> DEFINE r == [EmptyRow EXCEPT !.connected = neighbors[p][i].connected]
  <2>1. neighbors' = [neighbors EXCEPT ![p][i] = r]
    BY <1>11 DEF RemoveOld
  <2>2. r \in Row /\ r.used = FALSE
    <3>1. neighbors[p][i].connected \in BOOLEAN
      BY <1>6, RowFields
    <3>2. /\ EmptyRow \in Row /\ EmptyRow.used = FALSE
          /\ \A c \in BOOLEAN : \A e \in Row :
                 [e EXCEPT !.connected = c] \in Row /\ [e EXCEPT !.connected = c].used = e.used
      BY Constants DEF EmptyRow, Row
    <3> QED BY <3>1, <3>2
  <2> HIDE DEF r
  <2>3. neighbors[p]'[i] = r /\ p = m /\ i \in PreferredRows(m)'
    BY <1>9, <2>1, <2>2
  <2> QED BY <1>2, <2>2, <2>3
<1>12. ASSUME NEW p \in Routers, NEW i \in Rows, Improve(p, i) \/ Degrade(p, i)
       PROVE  FALSE
  <2>1. PICK c \in {BestCost, DefaultCost} : neighbors' = [neighbors EXCEPT ![p][i].cost = c]
    BY <1>12 DEF Improve, Degrade
  <2> DEFINE r == [neighbors[p][i] EXCEPT !.cost = c]
  <2>2. /\ r \in Row /\ neighbors' = [neighbors EXCEPT ![p][i] = r]
        /\ r.used = neighbors[p][i].used /\ r.connected = neighbors[p][i].connected
        /\ r.preferred = neighbors[p][i].preferred
    BY <1>6, <2>1 DEF Row, RplTypeOK
  <2> HIDE DEF r
  <2>3. neighbors[p]'[i] = r /\ p = m /\ i \in PreferredRows(m)' /\ i \notin PreferredRows(m)
    BY <1>9, <2>2
  <2> QED BY <1>2, <2>2, <2>3
<1>13. ASSUME NEW p \in Routers, NEW i \in Rows, BlacklistToggle(p, i)
       PROVE  Reconnected(m, i)
  <2> DEFINE r == [neighbors[p][i] EXCEPT !.connected = ~@]
  <2>1. neighbors' = [neighbors EXCEPT ![p][i].connected = ~@]
    BY <1>13 DEF BlacklistToggle
  <2>2. /\ r \in Row /\ neighbors' = [neighbors EXCEPT ![p][i] = r]
        /\ r.used = neighbors[p][i].used /\ r.preferred = neighbors[p][i].preferred
    BY <1>6, <2>1 DEF Row, RplTypeOK
  <2> HIDE DEF r
  <2>3. neighbors[p]'[i] = r /\ p = m /\ i \in PreferredRows(m)' /\ i \notin PreferredRows(m)
    BY <1>9, <2>2
  <2> QED BY <1>2, <2>2, <2>3 DEF Reconnected
<1>14. ASSUME NEW p \in Routers, Reboot(p)
       PROVE  FALSE
  <2>1. /\ neighbors' = [neighbors EXCEPT ![p] = [i \in Rows |-> EmptyRow]]
        /\ EmptyRow.used = FALSE
    BY <1>14 DEF Reboot, EmptyRow
  <2>2. \/ \A i \in Rows : neighbors[m]'[i].used = FALSE
        \/ neighbors[m]' = neighbors[m]
    BY <2>1 DEF RplTypeOK
  <2> QED BY <1>1, <1>2, <1>3, <2>2
<1>15. ASSUME NEW p \in Routers, p # m, NEW n \in Motes, Hear(p, n)
       PROVE  FALSE
  <2>1. neighbors[m]' = neighbors[m]
    BY <1>15 DEF Hear, RplTypeOK
  <2> QED BY <1>1, <1>2, <1>3, <2>1
<1>16. CASE Environment
  BY <1>5, <1>12, <1>13, <1>14, <1>16 DEF Environment, GainLink, LoseLink
<1>17. CASE \E p \in Motes : SendDIO(p) \/ \E S \in SUBSET (InRange(p) \ {Root}) : ReceiveDIO(p, S)
  BY <1>5, <1>8, <1>17 DEF SendDIO
<1>18. CASE \E p \in Routers : \/ GetPreferredParent(p)
                               \/ \E n \in Motes : Hear(p, n)
                               \/ \E i \in Rows : RemoveOld(p, i)
  BY <1>7, <1>10, <1>11, <1>15, <1>18
<1>19. CASE UNCHANGED vars
  BY <1>5, <1>19 DEF vars
<1> QED BY <1>16, <1>17, <1>18, <1>19 DEF Next

\* A mote never comes to have two preferred parents, through registrations,
\* promotions, removals and late DIOs, unless the manager reconnects a neighbor
\* that was preferred when it was disconnected.
THEOREM RplSecondParent == Spec => SecondParentByReconnection
<1>1. RplInv /\ [Next]_vars =>
        [\A m \in Routers : TwoParents(m)' /\ ~TwoParents(m) => \E i \in Rows : Reconnected(m, i)]_vars
  BY NoSecondParent
<1> QED BY <1>1, RplInvariant, PTL DEF Spec, SecondParentByReconnection
==============================================================================
