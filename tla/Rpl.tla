-------------------------------- MODULE Rpl ---------------------------------
(***************************************************************************)
(* openstack/02b-MAChigh/neighbors.c and 03b-IPv6/icmpv6rpl.c on several   *)
(* motes: the neighbor table, the rank computed from it, the preferred     *)
(* parent, and the DIOs that carry ranks from mote to mote.  Everything    *)
(* runs in tasks, so a handler is one step.  A DIO waits in the queue with *)
(* the rank of the moment it was made; a broadcast reaches any of the      *)
(* motes in range.  Links come and go, and so do the neighbors the network *)
(* manager disconnects.                                                    *)
(***************************************************************************)
EXTENDS Integers, FiniteSets, FiniteSetsExt

CONSTANTS
    Motes, Root,
    NoAddr,
    TableSize,       \* MAXNUMNEIGHBORS
    BestCost,        \* rank increase of a link that never loses a frame
    DefaultCost,     \* DEFAULTLINKCOST*2*MINHOPRANKINCREASE
    MaxRank,         \* MAXDAGRANK and DEFAULTDAGRANK
    FirstLinks,      \* the links at boot, as sets of two motes
    MaxChanges       \* bound: links lost, delivery ratios that change, reboots, and
                     \* requests of the manager to (dis)connect a neighbor

Pairs == {p \in SUBSET Motes : Cardinality(p) = 2}

ASSUME RplAssumption ==
    /\ Root \in Motes /\ NoAddr \notin Motes
    /\ {TableSize, BestCost, DefaultCost, MaxRank} \subseteq Nat \ {0}
    /\ BestCost <= DefaultCost /\ DefaultCost < MaxRank
    /\ FirstLinks \subseteq Pairs
    /\ MaxChanges \in Nat

VARIABLES
    neighbors,   \* the table of each mote; the root's ranks nobody and is left out
    myDAGrank,
    dio,         \* rank in the DIO each mote has queued, NoDio without one
    links,       \* pairs of motes in range of each other
    worsened,    \* a change other than a better delivery ratio has happened
    changes      \* how many of the bounded events have happened

vars == <<neighbors, myDAGrank, dio, links, worsened, changes>>
history == <<worsened, changes>>

Rows == 1 .. TableSize
Routers == Motes \ {Root}
NoDio == MaxRank
InRange(m) == {n \in Motes : {m, n} \in links}

\* neighborRow_t; preferred is parentPreference==MAXPREFERENCE, cost the rank
\* increase that numTx and numTxACK amount to.
Row == [used : BOOLEAN, connected : BOOLEAN, preferred : BOOLEAN,
        addr : Motes \cup {NoAddr}, DAGrank : 0 .. MaxRank,
        cost : {BestCost, DefaultCost}]

EmptyRow == [used |-> FALSE, connected |-> FALSE, preferred |-> FALSE,
             addr |-> NoAddr, DAGrank |-> MaxRank, cost |-> DefaultCost]

-----------------------------------------------------------------------------
\* neighbors_init, and idmanager_setIsDAGroot at the root.
FirstRank(m) == IF m = Root THEN 0 ELSE MaxRank

Init ==
    /\ neighbors = [m \in Routers |-> [i \in Rows |-> EmptyRow]]
    /\ myDAGrank = [m \in Motes |-> FirstRank(m)]
    /\ dio = [m \in Motes |-> NoDio]
    /\ links = FirstLinks
    /\ worsened = FALSE /\ changes = 0

\* isThisRowMatching: whatever "connected" says.
Matching(table, n) == {i \in Rows : table[i].used /\ table[i].addr = n}

\* The rows that count in routing decisions.
Eligible(table) == {i \in Rows : table[i].used /\ table[i].connected}

\* registerNewNeighbor in the first unused row; in a full table, nothing.  The
\* test for a preferred parent looks at disconnected rows as well.
Registered(table, n) ==
    LET free == {i \in Rows : ~table[i].used}
        first == \A i \in Rows : ~table[i].preferred
    IN  IF Matching(table, n) # {} \/ free = {} THEN table
        ELSE [table EXCEPT ![Min(free)] =
                 [used |-> TRUE, connected |-> TRUE, preferred |-> first,
                  addr |-> n, DAGrank |-> MaxRank, cost |-> DefaultCost]]

\* Mutant: the rank of the best neighbor is taken over.
TentativeFree(row) == row.DAGrank

Tentative(row) == row.DAGrank + row.cost

\* Mutant: a rank beyond MAXDAGRANK is taken.
BestUnbounded(table) ==
    LET ranks == [i \in Eligible(table) |-> Tentative(table[i])]
    IN  {i \in DOMAIN ranks :
            \A j \in DOMAIN ranks : ranks[i] < ranks[j] \/ (ranks[i] = ranks[j] /\ i <= j)}

\* The row that leads to the lowest rank, the first of them, if that rank is below
\* MAXDAGRANK.
Best(table) ==
    LET ranks == [i \in Eligible(table) |-> Tentative(table[i])]
    IN  {i \in DOMAIN ranks :
            /\ ranks[i] < MaxRank
            /\ \A j \in DOMAIN ranks : ranks[i] < ranks[j] \/ (ranks[i] = ranks[j] /\ i <= j)}

\* neighbors_updateMyDAGrankAndNeighborPreference
NewRank(table, best) == IF best = {} THEN MaxRank ELSE Min({Tentative(table[i]) : i \in best})

\* Mutant: the old preferred parent keeps its preference.
PreferredKept(table, best) ==
    [i \in Rows |-> IF i \in best THEN [table[i] EXCEPT !.preferred = TRUE] ELSE table[i]]

\* The preference of disconnected rows is not reset.
Preferred(table, best) ==
    [i \in Rows |-> IF i \in Eligible(table) THEN [table[i] EXCEPT !.preferred = i \in best]
                    ELSE table[i]]

\* neighbors_indicateRxDIO: "the new DAGrank looks suspiciously high, only
\* increment a bit".
Dampened(old, new) == IF new > old + DefaultCost THEN old + DefaultCost ELSE new

WithRank(table, n, rank) ==
    [i \in Rows |-> IF i \in Matching(table, n)
                    THEN [table[i] EXCEPT !.DAGrank = Dampened(@, rank)] ELSE table[i]]

\* The table after neighbors_indicateRx and neighbors_indicateRxDIO, before
\* neighbors_updateMyDAGrankAndNeighborPreference.
AfterDio(table, n, rank) == WithRank(Registered(table, n), n, rank)

-----------------------------------------------------------------------------
\* A frame other than a DIO: neighbors_indicateRx.
Hear(m, n) ==
    /\ n \in InRange(m)
    /\ Matching(neighbors[m], n) = {}
    /\ neighbors' = [neighbors EXCEPT ![m] = Registered(@, n)]
    /\ UNCHANGED <<myDAGrank, dio, links, history>>

\* sendDIO, when the packet before has left the queue (a bound: there may be
\* more than one in it).  A mote without a rank keeps silent.
SendDIO(m) ==
    /\ myDAGrank[m] # MaxRank
    /\ dio[m] = NoDio
    /\ dio' = [dio EXCEPT ![m] = myDAGrank[m]]
    /\ UNCHANGED <<neighbors, myDAGrank, links, history>>

\* The DIO is broadcast and received by S; the root ignores it.
ReceiveDIO(m, S) ==
    /\ dio[m] # NoDio
    /\ dio' = [dio EXCEPT ![m] = NoDio]
    /\ \E table \in {[n \in S |-> AfterDio(neighbors[n], m, dio[m])]} :
       \E best \in {[n \in S |-> Best(table[n])]} :
         /\ neighbors' = [n \in Routers |-> IF n \in S THEN Preferred(table[n], best[n])
                                            ELSE neighbors[n]]
         /\ myDAGrank' = [n \in Motes |-> IF n \in S THEN NewRank(table[n], best[n])
                                          ELSE myDAGrank[n]]
    /\ UNCHANGED <<links, history>>

\* Mutant: the preferred parent is never found too old.
RemovableButParent(m, i) ==
    /\ neighbors[m][i].used /\ ~neighbors[m][i].preferred
    /\ neighbors[m][i].addr \notin InRange(m)

\* A neighbor in range is heard before DESYNCTIMEOUT has passed.
Removable(m, i) == neighbors[m][i].used /\ neighbors[m][i].addr \notin InRange(m)

\* neighbors_removeOld for one row: the rank is not computed again.
RemoveOld(m, i) ==
    /\ Removable(m, i)
    /\ neighbors' = [neighbors EXCEPT ![m][i] =
                        [EmptyRow EXCEPT !.connected = neighbors[m][i].connected]]
    /\ UNCHANGED <<myDAGrank, dio, links, history>>

\* neighbors_getPreferredParentEui64 has no preferred parent to return and falls
\* back on "promote neighbor with min rank".
Promotes(m) ==
    /\ Eligible(neighbors[m]) # {}
    /\ \A i \in Eligible(neighbors[m]) : ~neighbors[m][i].preferred

Ranked(m) == {i \in Eligible(neighbors[m]) : neighbors[m][i].DAGrank < MaxRank}

\* The promotion.  When no neighbor has a rank, minRankIdx is MAXNUMNEIGHBORS+1,
\* and what is written lies behind the table: no step of this model.
GetPreferredParent(m) ==
    /\ Promotes(m)
    /\ \E i \in Ranked(m) :
         /\ \A j \in Ranked(m) : LET r == neighbors[m][i].DAGrank
                                     t == neighbors[m][j].DAGrank
                                 IN  r < t \/ (r = t /\ i <= j)
         /\ neighbors' = [neighbors EXCEPT ![m][i].preferred = TRUE]
    /\ UNCHANGED <<myDAGrank, dio, links, history>>

-----------------------------------------------------------------------------
Change == changes < MaxChanges /\ changes' = changes + 1
Trouble == Change /\ worsened' = TRUE

\* neighbors_blacklist_toggle, a CoAP request of the manager.
BlacklistToggle(m, i) ==
    /\ Trouble
    /\ neighbors[m][i].used
    /\ neighbors' = [neighbors EXCEPT ![m][i].connected = ~@]
    /\ UNCHANGED <<myDAGrank, dio, links>>

\* neighbors_indicateTx: the delivery ratio rises or falls, the rank not yet.
Improve(m, i) ==
    /\ Change
    /\ neighbors[m][i].used /\ neighbors[m][i].cost # BestCost
    /\ neighbors' = [neighbors EXCEPT ![m][i].cost = BestCost]
    /\ UNCHANGED <<myDAGrank, dio, links, worsened>>

Degrade(m, i) ==
    /\ Trouble
    /\ neighbors[m][i].used /\ neighbors[m][i].cost # DefaultCost
    /\ neighbors' = [neighbors EXCEPT ![m][i].cost = DefaultCost]
    /\ UNCHANGED <<myDAGrank, dio, links>>

\* Two motes come into range of each other, or go out of it.
GainLink ==
    /\ \E l \in Pairs \ links : links' = links \cup {l}
    /\ UNCHANGED <<neighbors, myDAGrank, dio, history>>

LoseLink ==
    /\ Trouble
    /\ \E l \in links : links' = links \ {l}
    /\ UNCHANGED <<neighbors, myDAGrank, dio>>

\* A mote starts again: neighbors_init, and an empty queue.
Reboot(m) ==
    /\ Trouble
    /\ neighbors' = [neighbors EXCEPT ![m] = [i \in Rows |-> EmptyRow]]
    /\ myDAGrank' = [myDAGrank EXCEPT ![m] = FirstRank(m)]
    /\ dio' = [dio EXCEPT ![m] = NoDio]
    /\ UNCHANGED <<links>>

Environment ==
    \/ GainLink \/ LoseLink
    \/ \E m \in Routers :
         \/ Reboot(m)
         \/ \E i \in Rows : BlacklistToggle(m, i) \/ Improve(m, i) \/ Degrade(m, i)

Next ==
    \/ Environment
    \/ \E m \in Motes : SendDIO(m) \/ \E S \in SUBSET (InRange(m) \ {Root}) : ReceiveDIO(m, S)
    \/ \E m \in Routers :
         \/ GetPreferredParent(m)
         \/ \E n \in Motes : Hear(m, n)
         \/ \E i \in Rows : RemoveOld(m, i)

\* The DIO timer and the maintenance timer are periodic; of the DIOs broadcast
\* again and again, some reach everyone in range.
Spec ==
    /\ Init /\ [][Next]_vars
    /\ WF_vars(\E m \in Routers : \E i \in Rows : RemoveOld(m, i))
    /\ \A m \in Motes : WF_vars(SendDIO(m)) /\ SF_vars(ReceiveDIO(m, InRange(m) \ {Root}))

-----------------------------------------------------------------------------
RplTypeOK ==
    /\ neighbors \in [Routers -> [Rows -> Row]]
    /\ myDAGrank \in [Motes -> 0 .. MaxRank]
    /\ dio \in [Motes -> 0 .. MaxRank]
    /\ links \subseteq Pairs
    /\ worsened \in BOOLEAN /\ changes \in Nat

PreferredRows(m) == {i \in Eligible(neighbors[m]) : neighbors[m][i].preferred}

TwoParents(m) == \E i, j \in PreferredRows(m) : i # j

Reconnected(m, i) ==
    /\ neighbors[m][i].preferred
    /\ ~neighbors[m][i].connected /\ neighbors[m][i].connected'

\* As long as nothing has been lost, ranks fall along preferred parents, however
\* late the DIOs: packets that follow them do not run in circles.
RanksFall ==
    ~worsened =>
        \A m \in Routers : \A i \in PreferredRows(m) :
            myDAGrank[m] < MaxRank => myDAGrank[neighbors[m][i].addr] < myDAGrank[m]

\* A mote never comes to have two preferred parents at once, through registrations,
\* promotions, removals and late DIOs, unless the manager reconnects a neighbor
\* that was preferred when it was disconnected.
SecondParentByReconnection ==
    [][\A m \in Routers : TwoParents(m)' /\ ~TwoParents(m) => \E i \in Rows : Reconnected(m, i)]_vars

\* The motes from which packets get to the root along preferred parents.
Routed ==
    LET Parents(m) == {neighbors[m][i].addr : i \in PreferredRows(m)}
        Up(S) == S \cup {m \in Routers : Parents(m) # {} /\ Parents(m) \subseteq S \cap InRange(m)}
        Hop[k \in 0 .. Cardinality(Routers)] == IF k = 0 THEN {Root} ELSE Up(Hop[k - 1])
    IN  Hop[Cardinality(Routers)]

\* The motes with a path of links to the root.
Reachable ==
    LET Hop[k \in 0 .. Cardinality(Routers)] ==
            IF k = 0 THEN {Root} ELSE Hop[k - 1] \cup UNION {InRange(n) : n \in Hop[k - 1]}
    IN  Hop[Cardinality(Routers)]

\* No neighbor in range is disconnected by the manager.
NoneBlacklisted ==
    \A m \in Routers : \A i \in Rows : neighbors[m][i].used => neighbors[m][i].connected

\* Once links and blacklists stay as they are, with every mote in reach of the
\* root, every mote gets a loop-free way to it, whatever loops the changes, stale
\* ranks and promotions have left behind.
RoutesSettle ==
    <>[](Reachable = Motes /\ NoneBlacklisted) => <>[](Routed = Motes)

=============================================================================
