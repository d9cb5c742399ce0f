---------------------------- MODULE ManagerProofs ----------------------------
(***************************************************************************)
(* For every network, number of rows, timers and requests, whatever is     *)
(* lost, overtaken or sent twice: the state of the manager and of the      *)
(* motes stays well formed, and once nothing is on its way the manager's   *)
(* tables agree with those of the motes on every neighbor not missed.      *)
(***************************************************************************)
EXTENDS Manager, TLAPS

Link(x) == <<x.from, x.about>>

Transaction == [to : Motes \cup {NoMote}, retryCount : 0 .. RetryLimit + 1,
                step : {"idle", "running", "over"}, ack : Motes \cup {NoMote}]

\* The rows of a mote hold different neighbors, all of them possible ones.
RowsOK ==
    \A m \in Motes :
        /\ \A i \in Rows : rows[m][i] # NoMote => <<m, rows[m][i]>> \in Links
        /\ \A i, j \in Rows : rows[m][i] # NoMote /\ rows[m][i] = rows[m][j] => i = j

\* A mote has no more timers than there are, and what table_update keeps for them
\* is the last change of the table, as long as its block has not been refilled.
EntriesOK ==
    \A m \in Motes :
        /\ Running(m) <= FreeTimers
        /\ tableEntry[m].about # NoMote => <<m, tableEntry[m].about>> \in Links
        /\ tableEntry[m].block # "refilled" =>
               /\ due[m] > 0 => tableEntry[m].about # NoMote
               /\ tableEntry[m].about # NoMote =>
                      (tableEntry[m].action = "n" <=> tableEntry[m].about \in Neighbors(m))

\* A request that still runs has an attempt left, and has been sent to somebody.
RequestsOK ==
    \A r \in Requests :
        /\ transaction[r].step # "over" => transaction[r].retryCount <= RetryLimit
        /\ transaction[r].step = "running" => transaction[r].to \in Motes

\* A report that names a mote is about some version of a row, or about none; one
\* about the present version says what is in the row.  One that names nobody was
\* meant for a removal.
Names(x) ==
    /\ Link(x) \in Links
    /\ x.version <= version[Link(x)]
    /\ x.version = version[Link(x)] => (x.action = "n" <=> x.about \in Neighbors(x.from))

ReportsOK ==
    \A x \in reports :
        /\ x.about # NoMote => Names(x)
        /\ x.about = NoMote => x.action = "r" /\ x.version = Never

\* The present version of a row waits for its timer, or is on its way.
Waiting(l) ==
    due[l[1]] > 0 /\ tableEntry[l[1]].about = l[2] /\ tableEntry[l[1]].block = "owned"

OnItsWay(l) ==
    \E x \in reports : Link(x) = l /\ x.version = version[l]

\* The manager has seen no version that is not there yet; if the present one has
\* not been missed, the manager has seen it and agrees with it, or will see it.
VersionsOK ==
    \A l \in Links :
        /\ seen[l] <= version[l]
        /\ l \notin missed =>
               /\ seen[l] = version[l] => (l[2] \in view[l[1]] <=> l[2] \in Neighbors(l[1]))
               /\ seen[l] < version[l] /\ ~hung[l[1]] => Waiting(l) \/ OnItsWay(l)

ManagerInv ==
    ManagerTypeOK /\ RowsOK /\ EntriesOK /\ RequestsOK /\ ReportsOK /\ VersionsOK

-----------------------------------------------------------------------------
(* The rows and the network.                                                  *)

LEMMA NeighborsAre ==
    ASSUME ManagerTypeOK, NEW m \in Motes
    PROVE  \A n : n \in Neighbors(m) <=> n # NoMote /\ \E i \in Rows : rows[m][i] = n
<1>1. rows[m] \in [Rows -> Addresses \cup {NoMote}]
  BY DEF ManagerTypeOK
<1>2. Range(rows[m]) = {rows[m][i] : i \in Rows}
  BY <1>1 DEF Range
<1> QED BY <1>2 DEF Neighbors

LEMMA Typed ==
    ASSUME ManagerTypeOK
    PROVE  /\ \A x \in reports : /\ x.from \in Motes /\ x.about \in Addresses \cup {NoMote}
                                 /\ x.action \in Actions /\ x.version \in Int
           /\ \A l \in Links : /\ version[l] \in Nat /\ seen[l] \in Nat
                               /\ l = <<l[1], l[2]>> /\ l[1] \in Motes /\ l[2] \in Addresses
           /\ \A m \in Motes : /\ due[m] \in 0 .. FreeTimers /\ orphans[m] \in 0 .. FreeTimers
                               /\ latest[m] \in BOOLEAN /\ Running(m) \in Nat
                               /\ due[m] <= Running(m) /\ orphans[m] <= Running(m)
                               /\ tableEntry[m].about \in Addresses \cup {NoMote}
                               /\ tableEntry[m].action \in Actions
                               /\ tableEntry[m].block \in Blocks
           /\ FreeTimers \in Nat
           /\ changes \in Nat /\ losses \in Nat
<1>1. Links \subseteq Motes \X Addresses /\ FreeTimers \in Nat
  BY ManagerAssumption DEF Addresses
<1>2. \A x \in reports : /\ x.from \in Motes /\ x.about \in Addresses \cup {NoMote}
                         /\ x.action \in Actions /\ x.version \in Int
  BY DEF ManagerTypeOK, Report, Never
<1>3. \A l \in Links : /\ version[l] \in Nat /\ seen[l] \in Nat
                       /\ l = <<l[1], l[2]>> /\ l[1] \in Motes /\ l[2] \in Addresses
  BY <1>1 DEF ManagerTypeOK
<1>4. \A m \in Motes : /\ due[m] \in 0 .. FreeTimers /\ orphans[m] \in 0 .. FreeTimers
                       /\ latest[m] \in BOOLEAN
                       /\ tableEntry[m].about \in Addresses \cup {NoMote}
                       /\ tableEntry[m].action \in Actions
                       /\ tableEntry[m].block \in Blocks
  BY DEF ManagerTypeOK
<1>5. \A m \in Motes : /\ Running(m) \in Nat
                       /\ due[m] <= Running(m) /\ orphans[m] <= Running(m)
  BY <1>1, <1>4 DEF Running
<1>6. changes \in Nat /\ losses \in Nat
  BY DEF ManagerTypeOK
<1> QED BY <1>1, <1>2, <1>3, <1>4, <1>5, <1>6

\* What stays true of the rows, the entries and the requests when nothing of them
\* changes.
LEMMA Unmoved ==
    ASSUME ManagerInv
    PROVE  /\ UNCHANGED rows => RowsOK' /\ \A m \in Motes : Neighbors(m)' = Neighbors(m)
           /\ UNCHANGED <<rows, due, orphans, latest, tableEntry>> => EntriesOK'
           /\ UNCHANGED transaction => RequestsOK'
           /\ UNCHANGED <<rows, reports, version>> => ReportsOK'
           /\ UNCHANGED <<rows, due, tableEntry, reports, version, seen, missed, view, hung>>
                => VersionsOK'
<1>1. UNCHANGED rows => RowsOK' /\ \A m \in Motes : Neighbors(m)' = Neighbors(m)
  BY DEF ManagerInv, RowsOK, Neighbors
<1>2. UNCHANGED <<rows, due, orphans, latest, tableEntry>> => EntriesOK'
  BY DEF ManagerInv, EntriesOK, Neighbors, Running
<1>3. UNCHANGED transaction => RequestsOK'
  BY DEF ManagerInv, RequestsOK
<1>4. UNCHANGED <<rows, reports, version>> => ReportsOK'
  BY DEF ManagerInv, ReportsOK, Names, Neighbors, Link
<1>5. UNCHANGED <<rows, due, tableEntry, reports, version, seen, missed, view, hung>>
        => VersionsOK'
  BY DEF ManagerInv, VersionsOK, Neighbors, Link, Waiting, OnItsWay
<1> QED BY <1>1, <1>2, <1>3, <1>4, <1>5

LEMMA InitManagerInv == Init => ManagerInv
<1> SUFFICES ASSUME Init
             PROVE  ManagerInv
  OBVIOUS
<1> USE DEF Init
<1>1. ManagerTypeOK
  <2>1. NoEntry \in [about : Addresses \cup {NoMote}, action : Actions, block : Blocks]
    BY DEF NoEntry, Actions, Blocks
  <2>2. 0 \in 0 .. FreeTimers /\ 1 \in 1 .. NumRows + 1 /\ 0 \in 0 .. RetryLimit + 1
    BY ManagerAssumption
  <2>3. transaction \in [Requests -> [to : Motes \cup {NoMote}, retryCount : 0 .. RetryLimit + 1,
                              step : {"idle", "running", "over"}, ack : Motes \cup {NoMote}]]
    BY <2>2
  <2> QED BY <2>1, <2>2, <2>3 DEF ManagerTypeOK
<1>2. \A m \in Motes : Neighbors(m) = {}
  BY <1>1, NeighborsAre
<1>3. RowsOK
  BY DEF RowsOK
<1>4. EntriesOK
  BY ManagerAssumption DEF EntriesOK, NoEntry, Running
<1>5. RequestsOK
  BY ManagerAssumption DEF RequestsOK
<1>6. ReportsOK
  BY DEF ReportsOK
<1>7. VersionsOK
  BY <1>1, <1>2, Typed DEF VersionsOK
<1> QED BY <1>1, <1>3, <1>4, <1>5, <1>6, <1>7 DEF ManagerInv

-----------------------------------------------------------------------------
(* table_update.                                                              *)

LEMMA UpdateKeeps ==
    ASSUME ManagerInv, NEW m \in Motes, NEW n \in Addresses, <<m, n>> \in Links,
           NEW action \in Actions, Update(m, n, action), ~hung[m],
           rows' \in [Motes -> [Rows -> Addresses \cup {NoMote}]], RowsOK',
           action = "n" <=> n \in Neighbors(m)',
           \A k : k # n => (k \in Neighbors(m)' <=> k \in Neighbors(m)),
           \A p \in Motes : p # m => Neighbors(p)' = Neighbors(p)
    PROVE  ManagerInv'
<1> USE DEF ManagerInv
<1> DEFINE started == Running(m) < FreeTimers
<1>1. n # NoMote
  BY ManagerAssumption DEF Addresses
<1>2. /\ resources' = [resources EXCEPT ![m] = Registered(@)]
      /\ tableEntry' = [tableEntry EXCEPT ![m] =
             [about |-> n, action |-> action, block |-> "owned"]]
      /\ due' = [due EXCEPT ![m] = IF started THEN @ + 1 ELSE @]
      /\ version' = [version EXCEPT ![<<m, n>>] = @ + 1]
      /\ missed' = ((missed \ {<<m, n>>}) \cup (Unsent(m) \ {<<m, n>>}))
                     \cup (IF started \/ due[m] > 0 THEN {} ELSE {<<m, n>>})
      /\ changes' = changes + 1
      /\ UNCHANGED <<twiceFreed, rowIndex, latest, orphans, hung, reports, answers, orders,
                     view, transaction, listener, heard, seen, losses>>
  BY DEF Update, network, console
<1>3. Unsent(m) \subseteq Links
  BY DEF Unsent, EntriesOK
<1>4. /\ due' \in [Motes -> 0 .. FreeTimers]
      /\ due[m]' = (IF started THEN due[m] + 1 ELSE due[m])
      /\ \A p \in Motes : p # m => due[p]' = due[p]
  BY <1>2, Typed DEF ManagerTypeOK
<1>5. /\ tableEntry[m]' = [about |-> n, action |-> action, block |-> "owned"]
      /\ \A p \in Motes : p # m => tableEntry[p]' = tableEntry[p]
  BY <1>2 DEF ManagerTypeOK
<1>6. /\ version[<<m, n>>]' = version[<<m, n>>] + 1
      /\ \A l \in Links : l # <<m, n>> => version[l]' = version[l]
  BY <1>2 DEF ManagerTypeOK
<1>7. ManagerTypeOK'
  <2>1. resources' \in [Motes -> {"absent", "last", "loop"}]
    BY <1>2 DEF ManagerTypeOK, Registered
  <2>2. tableEntry' \in [Motes -> [about : Addresses \cup {NoMote}, action : Actions,
                                   block : Blocks]]
    BY <1>2 DEF ManagerTypeOK, Blocks
  <2>3. version' \in [Links -> Nat]
    BY <1>2, Typed DEF ManagerTypeOK
  <2>4. missed' \subseteq Links
    BY <1>2, <1>3 DEF ManagerTypeOK
  <2> QED BY <1>2, <1>4, <2>1, <2>2, <2>3, <2>4 DEF ManagerTypeOK
<1>8. EntriesOK'
  <2> SUFFICES ASSUME NEW p \in Motes
               PROVE  /\ Running(p)' <= FreeTimers
                      /\ tableEntry[p].about' # NoMote => <<p, tableEntry[p].about'>> \in Links
                      /\ tableEntry[p].block' # "refilled" =>
                           /\ due[p]' > 0 => tableEntry[p].about' # NoMote
                           /\ tableEntry[p].about' # NoMote =>
                                (tableEntry[p].action' = "n" <=>
                                     tableEntry[p].about' \in Neighbors(p)')
    BY DEF EntriesOK
  <2>1. /\ due[p] \in Nat /\ orphans[p] \in Nat /\ FreeTimers \in Nat
        /\ Running(p) <= FreeTimers
        /\ Running(p) = due[p] + orphans[p] + (IF latest[p] THEN 1 ELSE 0)
        /\ Running(p)' = due[p]' + orphans[p] + (IF latest[p] THEN 1 ELSE 0)
    <3>1. due[p] \in Nat /\ orphans[p] \in Nat /\ FreeTimers \in Nat
      BY Typed
    <3>2. Running(p) <= FreeTimers
      BY DEF EntriesOK
    <3>3. /\ Running(p) = due[p] + orphans[p] + (IF latest[p] THEN 1 ELSE 0)
          /\ Running(p)' = due[p]' + orphans[p] + (IF latest[p] THEN 1 ELSE 0)
      BY <1>2 DEF Running
    <3> QED BY <3>1, <3>2, <3>3
  <2>2. \/ due[p]' = due[p]
        \/ Running(p) < FreeTimers /\ due[p]' = due[p] + 1
    BY <1>4
  <2>3. Running(p)' <= FreeTimers
    BY <2>1, <2>2
  <2> QED BY <1>1, <1>4, <1>5, <2>3 DEF EntriesOK
<1>9. RequestsOK'
  BY <1>2, Unmoved
<1>10. ReportsOK'
  <2> SUFFICES ASSUME NEW x \in reports
               PROVE  x.about # NoMote =>
                        /\ Link(x) \in Links
                        /\ x.version <= version[Link(x)]'
                        /\ x.version = version[Link(x)]' =>
                             (x.action = "n" <=> x.about \in Neighbors(x.from)')
    BY <1>2 DEF ReportsOK, Names, Link
  <2> SUFFICES ASSUME x.about # NoMote
               PROVE  /\ Link(x) \in Links
                      /\ x.version <= version[Link(x)]'
                      /\ x.version = version[Link(x)]' =>
                           (x.action = "n" <=> x.about \in Neighbors(x.from)')
    OBVIOUS
  <2>1. /\ x.from \in Motes /\ Link(x) = <<x.from, x.about>> /\ Link(x) \in Links
        /\ x.version \in Int /\ x.version <= version[Link(x)] /\ version[Link(x)] \in Nat
        /\ x.version = version[Link(x)] => (x.action = "n" <=> x.about \in Neighbors(x.from))
    BY Typed DEF ReportsOK, Names, Link
  <2>2. CASE Link(x) = <<m, n>>
    BY <1>6, <2>1, <2>2
  <2>3. CASE Link(x) # <<m, n>>
    <3>1. x.about \in Neighbors(x.from)' <=> x.about \in Neighbors(x.from)
      BY <2>1, <2>3
    <3> QED BY <1>6, <2>1, <2>3, <3>1
  <2> QED BY <2>2, <2>3
<1>11. VersionsOK'
  <2> SUFFICES ASSUME NEW l \in Links
               PROVE  /\ seen[l] <= version[l]'
                      /\ l \notin missed' =>
                           /\ seen[l] = version[l]' =>
                                (l[2] \in view[l[1]] <=> l[2] \in Neighbors(l[1])')
                           /\ seen[l] < version[l]' /\ ~hung[l[1]] => Waiting(l)' \/ OnItsWay(l)'
    BY <1>2 DEF VersionsOK
  <2>1. /\ seen[l] <= version[l] /\ seen[l] \in Nat /\ version[l] \in Nat
        /\ l = <<l[1], l[2]>> /\ l[1] \in Motes
    BY Typed DEF VersionsOK
  <2>2. CASE l = <<m, n>>
    <3>1. l \notin missed' => due[m]' > 0
      BY <1>2, <1>4, <2>2, Typed
    <3>2. due[m]' > 0 => Waiting(l)'
      BY <1>5, <2>2 DEF Waiting
    <3> QED BY <1>6, <2>1, <2>2, <3>1, <3>2
  <2>3. CASE l # <<m, n>>
    <3>1. l \notin missed' => l \notin missed /\ l \notin Unsent(m)
      BY <1>2, <2>3
    <3>2. l[2] \in Neighbors(l[1])' <=> l[2] \in Neighbors(l[1])
      BY <2>1, <2>3
    <3>3. OnItsWay(l) => OnItsWay(l)'
      BY <1>2, <1>6, <2>3 DEF OnItsWay, Link
    <3>4. Waiting(l) /\ l \notin Unsent(m) => Waiting(l)'
      BY <1>4, <1>5, <2>1, Typed DEF Waiting, Unsent
    <3> QED BY <1>6, <2>1, <2>3, <3>1, <3>2, <3>3, <3>4 DEF VersionsOK
  <2> QED BY <2>2, <2>3
<1> QED BY <1>7, <1>8, <1>9, <1>10, <1>11 DEF ManagerInv

LEMMA RegisterKeeps ==
    ASSUME ManagerInv, NEW m \in Motes, NEW n \in Addresses, <<m, n>> \in Links, Register(m, n)
    PROVE  ManagerInv'
<1>1. ManagerTypeOK /\ RowsOK /\ n # NoMote /\ ~hung[m] /\ Update(m, n, "n")
  BY ManagerAssumption DEF ManagerInv, Addresses, Register
<1>2. PICK i \in Rows : rows[m][i] = NoMote /\ rows' = [rows EXCEPT ![m][i] = n]
  BY DEF Register
<1>3. \A j \in Rows : rows[m][j] # n
  BY <1>1, NeighborsAre DEF Register
<1>4. /\ rows' \in [Motes -> [Rows -> Addresses \cup {NoMote}]]
      /\ \A j \in Rows : rows[m]'[j] = IF j = i THEN n ELSE rows[m][j]
      /\ \A p \in Motes : p # m => rows[p]' = rows[p]
  BY <1>1, <1>2 DEF ManagerTypeOK
<1>5. RowsOK'
  BY <1>1, <1>3, <1>4 DEF RowsOK
<1>6. \A p \in Motes : \A k :
          k \in Neighbors(p)' <=> k # NoMote /\ \E j \in Rows : rows[p]'[j] = k
  <2> TAKE p \in Motes
  <2>1. rows'[p] \in [Rows -> Addresses \cup {NoMote}]
    BY <1>4
  <2>2. Range(rows'[p]) = {rows'[p][j] : j \in Rows}
    BY <2>1 DEF Range
  <2> QED BY <2>2 DEF Neighbors
<1>7. n \in Neighbors(m)'
  BY <1>1, <1>4, <1>6
<1>8. \A k : k # n => (k \in Neighbors(m)' <=> k \in Neighbors(m))
  BY <1>1, <1>2, <1>4, <1>6, NeighborsAre
<1>9. \A p \in Motes : p # m => Neighbors(p)' = Neighbors(p)
  BY <1>4 DEF Neighbors
<1>10. "n" \in Actions
  BY DEF Actions
<1> QED BY <1>1, <1>4, <1>5, <1>7, <1>8, <1>9, <1>10, UpdateKeeps

LEMMA RemoveKeeps ==
    ASSUME ManagerInv, NEW m \in Motes, NEW n \in Addresses, <<m, n>> \in Links, Remove(m, n)
    PROVE  ManagerInv'
<1>1. ManagerTypeOK /\ RowsOK /\ n # NoMote /\ ~hung[m] /\ Update(m, n, "r")
  BY ManagerAssumption DEF ManagerInv, Addresses, Remove
<1>2. PICK i \in Rows : rows[m][i] = n /\ rows' = [rows EXCEPT ![m][i] = NoMote]
  BY DEF Remove
<1>3. \A j \in Rows : rows[m][j] = n => j = i
  BY <1>1, <1>2 DEF RowsOK
<1>4. /\ rows' \in [Motes -> [Rows -> Addresses \cup {NoMote}]]
      /\ \A j \in Rows : rows[m]'[j] = IF j = i THEN NoMote ELSE rows[m][j]
      /\ \A p \in Motes : p # m => rows[p]' = rows[p]
  BY <1>1, <1>2 DEF ManagerTypeOK
<1>5. RowsOK'
  BY <1>1, <1>3, <1>4 DEF RowsOK
<1>6. \A p \in Motes : \A k :
          k \in Neighbors(p)' <=> k # NoMote /\ \E j \in Rows : rows[p]'[j] = k
  <2> TAKE p \in Motes
  <2>1. rows'[p] \in [Rows -> Addresses \cup {NoMote}]
    BY <1>4
  <2>2. Range(rows'[p]) = {rows'[p][j] : j \in Rows}
    BY <2>1 DEF Range
  <2> QED BY <2>2 DEF Neighbors
<1>7. n \notin Neighbors(m)'
  BY <1>1, <1>3, <1>4, <1>6
<1>8. \A k : k # n => (k \in Neighbors(m)' <=> k \in Neighbors(m))
  BY <1>1, <1>2, <1>4, <1>6, NeighborsAre
<1>9. \A p \in Motes : p # m => Neighbors(p)' = Neighbors(p)
  BY <1>4 DEF Neighbors
<1>10. "r" \in Actions /\ "r" # "n"
  BY DEF Actions
<1> QED BY <1>1, <1>4, <1>5, <1>7, <1>8, <1>9, <1>10, UpdateKeeps

\* A timer of a table report comes due, and the report leaves or does not.
LEMMA SendReportKeeps ==
    ASSUME ManagerInv, NEW m \in Motes, SendReport(m)
    PROVE  ManagerInv'
<1> USE DEF ManagerInv
<1> DEFINE e == tableEntry[m]
<1> DEFINE l0 == <<m, e.about>>
<1>1. PICK n \in Read(m) :
          reports' = IF n = NoMote /\ e.action = "n" THEN reports
                     ELSE reports \cup {ReportOf(m, n)}
  BY DEF SendReport
<1> DEFINE x0 == ReportOf(m, n)
<1>2. /\ due[m] > 0
      /\ due' = [due EXCEPT ![m] = @ - 1]
      /\ twiceFreed' = [twiceFreed EXCEPT ![m] = @ \/ tableEntry[m].block # "owned"]
      /\ tableEntry' = [tableEntry EXCEPT ![m].block = IF @ = "owned" THEN "freed" ELSE @]
      /\ UNCHANGED <<rows, resources, rowIndex, latest, orphans, hung, answers, orders,
                     view, transaction, listener, heard, version, seen, missed, changes, losses>>
  BY DEF SendReport, console, history
<1>3. /\ e.about \in Addresses \cup {NoMote} /\ e.action \in Actions /\ e.block \in Blocks
      /\ e.about # NoMote => l0 \in Links /\ version[l0] \in Nat
      /\ e.block # "refilled" =>
            e.about # NoMote /\ (e.action = "n" <=> e.about \in Neighbors(m))
  BY <1>2, Typed DEF EntriesOK
<1>4. /\ due' \in [Motes -> 0 .. FreeTimers] /\ due[m]' = due[m] - 1
      /\ \A p \in Motes : p # m => due[p]' = due[p]
  BY <1>2, Typed DEF ManagerTypeOK
<1>5. /\ tableEntry' \in [Motes -> [about : Addresses \cup {NoMote}, action : Actions,
                                    block : Blocks]]
      /\ \A p \in Motes : /\ tableEntry[p]'.about = tableEntry[p].about
                          /\ tableEntry[p]'.action = tableEntry[p].action
                          /\ tableEntry[p]'.block # "refilled" => tableEntry[p].block # "refilled"
                          /\ p # m => tableEntry[p]' = tableEntry[p]
  <2>1. e \in [about : Addresses \cup {NoMote}, action : Actions, block : Blocks]
    BY DEF ManagerTypeOK
  <2>2. PICK b : b = IF e.block = "owned" THEN "freed" ELSE e.block
    OBVIOUS
  <2>3. b \in Blocks /\ (b # "refilled" => e.block # "refilled")
    BY <1>3, <2>2 DEF Blocks
  <2>4. tableEntry' = [tableEntry EXCEPT ![m].block = b]
    BY <1>2, <2>2, Zenon
  <2>5. /\ tableEntry'[m] = [e EXCEPT !.block = b]
        /\ \A p \in Motes : p # m => tableEntry'[p] = tableEntry[p]
    BY <2>4 DEF ManagerTypeOK
  <2>6. tableEntry' \in [Motes -> [about : Addresses \cup {NoMote}, action : Actions,
                                   block : Blocks]]
    <3>1. [tableEntry[m] EXCEPT !.block = b] \in [about : Addresses \cup {NoMote},
                                                  action : Actions, block : Blocks]
      BY <2>1, <2>3
    <3> QED BY <2>4, <3>1 DEF ManagerTypeOK
  <2>7. /\ tableEntry'[m].about = e.about /\ tableEntry'[m].action = e.action
        /\ tableEntry'[m].block = b
    BY <2>1, <2>5
  <2> QED BY <2>3, <2>5, <2>6, <2>7
<1>6. n = e.about \/ (n = NoMote /\ e.block # "owned")
  BY DEF Read
<1>7. /\ x0.from = m /\ x0.about = n /\ x0.action = e.action /\ Link(x0) = <<m, n>>
      /\ x0.version = (IF e.block = "refilled" \/ n = NoMote THEN Never ELSE version[<<m, n>>])
  BY DEF ReportOf, Link
<1>8. x0 \in Report
  <2>1. (IF e.block = "refilled" \/ n = NoMote THEN Never ELSE version[<<m, n>>])
            \in Nat \cup {Never}
    BY <1>3, <1>6
  <2> QED BY <1>3, <1>6, <2>1 DEF ReportOf, Report
<1> HIDE DEF x0, e
<1>9. /\ reports' = reports \cup {x0} \/ reports' = reports
      /\ n # NoMote => x0 \in reports'
      /\ x0 \in reports' => x0 \in reports \/ n # NoMote \/ e.action # "n"
  BY <1>1 DEF x0
<1>10. twiceFreed' \in [Motes -> BOOLEAN]
  BY <1>2 DEF ManagerTypeOK
<1>11. \A p \in Motes : Neighbors(p)' = Neighbors(p)
  BY <1>2, Unmoved
<1>12. ManagerTypeOK'
  BY <1>2, <1>4, <1>5, <1>8, <1>9, <1>10 DEF ManagerTypeOK
<1>13. RowsOK' /\ RequestsOK'
  BY <1>2, Unmoved
<1>14. EntriesOK'
  <2>1. \A p \in Motes : Running(p)' <= Running(p) /\ due[p]' <= due[p]
    BY <1>2, <1>4, Typed DEF Running
  <2>2. \A p \in Motes : Running(p) \in Nat /\ due[p] \in Nat /\ due[p]' \in Nat
                         /\ Running(p)' \in Nat /\ FreeTimers \in Nat
    BY <1>2, <1>4, <2>1, Typed DEF Running
  <2>3. \A p \in Motes : Running(p)' <= FreeTimers /\ (due[p]' > 0 => due[p] > 0)
    <3> TAKE p \in Motes
    <3>1. Running(p) <= FreeTimers
      BY DEF EntriesOK
    <3> QED BY <2>1, <2>2, <3>1
  <2> QED BY <1>5, <1>11, <2>3 DEF EntriesOK
<1>15. ReportsOK'
  <2> SUFFICES ASSUME NEW x \in reports'
               PROVE  /\ x.about # NoMote =>
                           /\ Link(x) \in Links
                           /\ x.version <= version[Link(x)]
                           /\ x.version = version[Link(x)] =>
                                  (x.action = "n" <=> x.about \in Neighbors(x.from)')
                      /\ x.about = NoMote => x.action = "r" /\ x.version = Never
    BY <1>2 DEF ReportsOK, Names, Link
  <2>1. CASE x \in reports
    BY <1>11, <2>1, Typed DEF ReportsOK, Names
  <2>2. CASE x \notin reports
    <3>1. x = x0
      BY <1>9, <2>2
    <3>2. CASE n = NoMote
      <4>1. e.action = "r"
        BY <1>3, <1>9, <2>2, <3>1, <3>2 DEF Actions
      <4> QED BY <1>7, <3>1, <3>2, <4>1
    <3>3. CASE n # NoMote
      <4>1. n = e.about /\ Link(x0) = l0
        BY <1>6, <1>7, <3>3
      <4>2. CASE e.block = "refilled"
        <5>1. x0.version = Never
          BY <1>7, <4>2
        <5> QED BY <1>3, <1>7, <3>1, <3>3, <4>1, <5>1 DEF Never
      <4>3. CASE e.block # "refilled"
        <5>1. x0.version = version[l0]
          BY <1>7, <3>3, <4>1, <4>3
        <5> QED BY <1>3, <1>7, <1>11, <3>1, <3>3, <4>1, <4>3, <5>1
      <4> QED BY <4>2, <4>3
    <3> QED BY <3>2, <3>3
  <2> QED BY <2>1, <2>2
<1>16. VersionsOK'
  <2> SUFFICES ASSUME NEW l \in Links
               PROVE  /\ seen[l] <= version[l]
                      /\ l \notin missed =>
                           /\ seen[l] = version[l] =>
                                (l[2] \in view[l[1]] <=> l[2] \in Neighbors(l[1])')
                           /\ seen[l] < version[l] /\ ~hung[l[1]] => Waiting(l)' \/ OnItsWay(l)'
    BY <1>2 DEF VersionsOK
  <2>1. l = <<l[1], l[2]>> /\ l[1] \in Motes
    BY Typed
  <2>2. OnItsWay(l) => OnItsWay(l)'
    BY <1>2, <1>9 DEF OnItsWay, Link
  <2>3. Waiting(l) => Waiting(l)' \/ OnItsWay(l)'
    <3> SUFFICES ASSUME Waiting(l)
                 PROVE  Waiting(l)' \/ OnItsWay(l)'
      OBVIOUS
    <3>1. CASE l[1] = m
      <4>1. e.block = "owned" /\ e.about = l[2]
        BY <3>1 DEF Waiting, e
      <4>2. n = l[2] /\ n # NoMote
        BY <1>3, <1>6, <4>1
      <4>3. x0 \in reports' /\ Link(x0) = l /\ x0.version = version[l]'
        BY <1>2, <1>7, <1>9, <2>1, <3>1, <4>1, <4>2
      <4> QED BY <4>3 DEF OnItsWay, Link
    <3>2. CASE l[1] # m
      BY <1>4, <1>5, <2>1, <3>2 DEF Waiting
    <3> QED BY <3>1, <3>2
  <2> QED BY <1>11, <2>1, <2>2, <2>3 DEF VersionsOK
<1> QED BY <1>12, <1>13, <1>14, <1>15, <1>16

\* A timer that goes and sends nothing: what was waiting for it alone is missed.
LEMMA TimerGone ==
    ASSUME ManagerInv, NEW m \in Motes, due[m] > 0,
           due' = [due EXCEPT ![m] = @ - 1],
           missed' = missed \cup (IF due[m] = 1 THEN Unsent(m) ELSE {}),
           UNCHANGED <<rows, tableEntry, orphans, reports, version, seen, view, hung>>,
           \A p \in Motes : latest[p]' => latest[p]
    PROVE  /\ due' \in [Motes -> 0 .. FreeTimers] /\ missed' \subseteq Links
           /\ EntriesOK' /\ VersionsOK'
<1> USE DEF ManagerInv
<1>1. /\ due' \in [Motes -> 0 .. FreeTimers] /\ due[m]' = due[m] - 1
      /\ \A p \in Motes : p # m => due[p]' = due[p]
  BY Typed DEF ManagerTypeOK
<1>2. missed' \subseteq Links
  BY DEF ManagerTypeOK, EntriesOK, Unsent
<1>3. \A p \in Motes : Neighbors(p)' = Neighbors(p)
  BY Unmoved
<1>4. EntriesOK'
  <2>1. \A p \in Motes : Running(p)' <= Running(p) /\ due[p]' <= due[p]
    BY <1>1, Typed DEF Running
  <2>2. \A p \in Motes : Running(p) \in Nat /\ due[p] \in Nat /\ due[p]' \in Nat
                         /\ Running(p)' \in Nat /\ FreeTimers \in Nat
    BY <1>1, <2>1, Typed DEF Running
  <2> QED BY <1>3, <2>1, <2>2 DEF EntriesOK
<1>5. VersionsOK'
  <2> SUFFICES ASSUME NEW l \in Links
               PROVE  /\ seen[l] <= version[l]
                      /\ l \notin missed' =>
                           /\ seen[l] = version[l] =>
                                (l[2] \in view[l[1]] <=> l[2] \in Neighbors(l[1])')
                           /\ seen[l] < version[l] /\ ~hung[l[1]] => Waiting(l)' \/ OnItsWay(l)'
    BY DEF VersionsOK
  <2>1. l = <<l[1], l[2]>> /\ l[1] \in Motes
    BY Typed
  <2>2. OnItsWay(l) => OnItsWay(l)'
    BY DEF OnItsWay, Link
  <2>3. Waiting(l) /\ l \notin missed' => Waiting(l)'
    BY <1>1, <2>1, Typed DEF Waiting, Unsent
  <2> QED BY <1>3, <2>1, <2>2, <2>3 DEF VersionsOK
<1> QED BY <1>1, <1>2, <1>4, <1>5

LEMMA SkipReportKeeps ==
    ASSUME ManagerInv, NEW m \in Motes, SkipReport(m)
    PROVE  ManagerInv'
<1> USE DEF ManagerInv
<1>1. /\ due[m] > 0
      /\ due' = [due EXCEPT ![m] = @ - 1]
      /\ missed' = missed \cup (IF due[m] = 1 THEN Unsent(m) ELSE {})
      /\ losses' \in Nat
      /\ UNCHANGED <<rows, tableEntry, twiceFreed, resources, rowIndex, latest, orphans, hung,
                     reports, answers, orders, view, transaction, listener, heard, version,
                     seen, changes>>
  BY Typed DEF SkipReport, Late, network, console
<1>2. /\ due' \in [Motes -> 0 .. FreeTimers] /\ missed' \subseteq Links
      /\ EntriesOK' /\ VersionsOK'
  BY <1>1, TimerGone
<1>3. ManagerTypeOK'
  BY <1>1, <1>2 DEF ManagerTypeOK
<1> QED BY <1>1, <1>2, <1>3, Unmoved

LEMMA EndTransferKeeps ==
    ASSUME ManagerInv, NEW m \in Motes, EndTransfer(m)
    PROVE  ManagerInv'
<1> USE DEF ManagerInv
<1>1. /\ rowIndex' = [rowIndex EXCEPT ![m] = 1]
      /\ latest' = [latest EXCEPT ![m] = FALSE]
      /\ UNCHANGED <<rows, tableEntry, twiceFreed, resources, orphans, hung, reports, answers,
                     orders, view, transaction, listener, heard, version, seen, changes, losses>>
  BY DEF EndTransfer, network, console
<1>2. /\ rowIndex' \in [Motes -> 1 .. NumRows + 1] /\ latest' \in [Motes -> BOOLEAN]
      /\ \A p \in Motes : latest[p]' => latest[p]
  BY <1>1, ManagerAssumption DEF ManagerTypeOK
<1>3. /\ due' \in [Motes -> 0 .. FreeTimers] /\ missed' \subseteq Links
      /\ EntriesOK' /\ VersionsOK'
  <2>1. CASE UNCHANGED <<due, missed>>
    <3>1. \A p \in Motes : Running(p)' <= Running(p) /\ Running(p)' \in Nat
      BY <1>1, <1>2, <2>1, Typed DEF Running
    <3>2. \A p \in Motes : Neighbors(p)' = Neighbors(p)
      BY <1>1, Unmoved
    <3>3. EntriesOK'
      BY <1>1, <2>1, <3>1, <3>2, Typed DEF EntriesOK
    <3> QED BY <1>1, <2>1, <3>3, Unmoved DEF ManagerTypeOK
  <2>2. CASE /\ due[m] > 0
             /\ due' = [due EXCEPT ![m] = @ - 1]
             /\ missed' = missed \cup (IF due[m] = 1 THEN Unsent(m) ELSE {})
    BY <1>1, <1>2, <2>2, TimerGone
  <2> QED BY <2>1, <2>2 DEF EndTransfer
<1>4. ManagerTypeOK'
  BY <1>1, <1>2, <1>3 DEF ManagerTypeOK
<1> QED BY <1>1, <1>3, <1>4, Unmoved

-----------------------------------------------------------------------------
(* neighbor_table and the commands of the manager.                            *)

LEMMA SendRowKeeps ==
    ASSUME ManagerInv, NEW m \in Motes, SendRow(m)
    PROVE  ManagerInv'
<1> USE DEF ManagerInv
<1> DEFINE i == rowIndex[m]
<1> DEFINE x0 == [from |-> m, about |-> rows[m][i], action |-> "n",
                  version |-> version[<<m, rows[m][i]>>]]
<1>1. /\ i \in Rows
      /\ rowIndex' = [rowIndex EXCEPT ![m] = i + 1]
      /\ reports' = reports \/ (rows[m][i] # NoMote /\ reports' = reports \cup {x0})
      /\ Refill(m) \/ UNCHANGED <<tableEntry, missed>>
      /\ UNCHANGED <<rows, due, twiceFreed, resources, latest, orphans, hung, answers,
                     orders, view, transaction, listener, heard, version, seen, changes, losses>>
  BY DEF SendRow, RowAfter, console
<1>2. rowIndex' \in [Motes -> 1 .. NumRows + 1]
  BY <1>1, ManagerAssumption, SMTT(30) DEF ManagerTypeOK, Rows
<1>3. \A p \in Motes : Neighbors(p)' = Neighbors(p)
  BY <1>1, Unmoved
<1>4. reports' # reports => /\ x0 \in Report /\ Link(x0) \in Links /\ reports' = reports \cup {x0}
                            /\ x0.version = version[Link(x0)]
                            /\ x0.action = "n" /\ x0.about \in Neighbors(x0.from)
                            /\ x0.from \in Motes /\ x0.about # NoMote
  BY <1>1, Typed, NeighborsAre DEF RowsOK, ManagerTypeOK, Report, Link, Actions
<1>5. /\ missed' = missed \/ missed' = missed \cup Unsent(m)
      /\ \A p \in Motes : tableEntry[p]' = tableEntry[p] \/ (p = m /\ Refill(m))
      /\ tableEntry' \in [Motes -> [about : Addresses \cup {NoMote}, action : Actions,
                                    block : Blocks]]
      /\ Refill(m) => /\ tableEntry[m]'.block = "refilled"
                      /\ tableEntry[m]'.about # NoMote => <<m, tableEntry[m]'.about>> \in Links
                      /\ missed' = missed \cup Unsent(m)
  <2>1. CASE UNCHANGED <<tableEntry, missed>> /\ ~Refill(m)
    BY <2>1 DEF ManagerTypeOK
  <2>2. CASE Refill(m)
    <3>1. PICK n \in Held(m, i) :
              tableEntry' = [tableEntry EXCEPT ![m].about = n, ![m].block = "refilled"]
      BY <2>2 DEF Refill
    <3>2. missed' = missed \cup Unsent(m)
      BY <2>2 DEF Refill
    <3>3. n = NoMote \/ (n \in Addresses /\ <<m, n>> \in Links)
      <4>1. CASE rows[m][i] # NoMote
        <5>1. n = rows[m][i] /\ <<m, n>> \in Links
          BY <1>1, <3>1, <4>1 DEF Held, RowsOK
        <5> QED BY <5>1, ManagerAssumption DEF Addresses
      <4>2. CASE rows[m][i] = NoMote
        BY <3>1, <4>2 DEF Held
      <4> QED BY <4>1, <4>2
    <3>4. /\ tableEntry'[m].block = "refilled" /\ tableEntry'[m].about = n
          /\ \A p \in Motes : p # m => tableEntry'[p] = tableEntry[p]
      BY <3>1 DEF ManagerTypeOK
    <3>5. tableEntry' \in [Motes -> [about : Addresses \cup {NoMote}, action : Actions,
                                     block : Blocks]]
      <4> DEFINE entry == [about |-> n, action |-> tableEntry[m].action, block |-> "refilled"]
      <4>1. tableEntry[m] \in [about : Addresses \cup {NoMote}, action : Actions, block : Blocks]
        BY DEF ManagerTypeOK
      <4>2. entry \in [about : Addresses \cup {NoMote}, action : Actions, block : Blocks]
        BY <3>3, <4>1 DEF Blocks
      <4>3. tableEntry' = [tableEntry EXCEPT ![m] = [[@ EXCEPT !.about = n]
                                                        EXCEPT !.block = "refilled"]]
        BY <3>1
      <4>4. PICK e : e = tableEntry[m]
        OBVIOUS
      <4>5. e = [about |-> e.about, action |-> e.action, block |-> e.block]
        BY <4>1, <4>4
      <4>6. [e EXCEPT !.about = n] = [about |-> n, action |-> e.action, block |-> e.block]
        BY <4>5
      <4>7. PICK e2 : /\ e2 = [e EXCEPT !.about = n]
                       /\ e2 = [about |-> n, action |-> e.action, block |-> e.block]
        BY <4>6
      <4>8. [e2 EXCEPT !.block = "refilled"] = entry
        <5>1. e2 \in [about : Addresses \cup {NoMote}, action : Actions, block : Blocks]
          BY <3>3, <4>1, <4>4, <4>7
        <5>2. [e2 EXCEPT !.block = "refilled"]
                  = [about |-> e2.about, action |-> e2.action, block |-> "refilled"]
          BY <5>1
        <5>3. e2.about = n /\ e2.action = e.action
          BY <4>7
        <5> QED BY <4>4, <5>2, <5>3
      <4>9. tableEntry' = [tableEntry EXCEPT ![m] = entry]
        BY <4>3, <4>4, <4>7, <4>8
      <4> HIDE DEF entry
      <4> QED BY <4>2, <4>9 DEF ManagerTypeOK
    <3> QED BY <2>2, <3>2, <3>3, <3>4, <3>5
  <2> QED BY <1>1, <2>1, <2>2
<1> HIDE DEF x0, i
<1>6. reports' = reports \/ reports' = reports \cup {x0}
  BY <1>1
<1>7. missed' \subseteq Links /\ missed \subseteq missed'
  BY <1>5 DEF ManagerTypeOK, EntriesOK, Unsent
<1>8. ManagerTypeOK'
  BY <1>1, <1>2, <1>4, <1>5, <1>6, <1>7 DEF ManagerTypeOK
<1>9. EntriesOK'
  <2>1. \A p \in Motes : Running(p)' = Running(p)
    BY <1>1 DEF Running
  <2> QED BY <1>1, <1>3, <1>5, <2>1 DEF EntriesOK
<1>10. ReportsOK'
  <2> SUFFICES ASSUME NEW x \in reports'
               PROVE  /\ x.about # NoMote =>
                           /\ Link(x) \in Links
                           /\ x.version <= version[Link(x)]
                           /\ x.version = version[Link(x)] =>
                                  (x.action = "n" <=> x.about \in Neighbors(x.from)')
                      /\ x.about = NoMote => x.action = "r" /\ x.version = Never
    BY <1>1 DEF ReportsOK, Names, Link
  <2>1. CASE x \in reports
    BY <1>3, <2>1, Typed DEF ReportsOK, Names
  <2>2. CASE x \notin reports
    <3>1. x = x0
      BY <1>6, <2>2
    <3>2. version[Link(x0)] \in Nat
      BY <1>4, <2>2, Typed
    <3> QED BY <1>3, <1>4, <2>2, <3>1, <3>2
  <2> QED BY <2>1, <2>2
<1>11. VersionsOK'
  <2> SUFFICES ASSUME NEW l \in Links
               PROVE  /\ seen[l] <= version[l]
                      /\ l \notin missed' =>
                           /\ seen[l] = version[l] =>
                                (l[2] \in view[l[1]] <=> l[2] \in Neighbors(l[1])')
                           /\ seen[l] < version[l] /\ ~hung[l[1]] => Waiting(l)' \/ OnItsWay(l)'
    BY <1>1 DEF VersionsOK
  <2>1. l = <<l[1], l[2]>> /\ l[1] \in Motes
    BY Typed
  <2>2. OnItsWay(l) => OnItsWay(l)'
    BY <1>1, <1>6 DEF OnItsWay, Link
  <2>3. Waiting(l) /\ l \notin missed' => Waiting(l)'
    <3>1. CASE l[1] = m /\ Refill(m)
      <4>1. Waiting(l) => l \in Unsent(m)
        BY <2>1, <3>1 DEF Waiting, Unsent
      <4> QED BY <1>5, <3>1, <4>1
    <3>2. CASE tableEntry[l[1]]' = tableEntry[l[1]]
      BY <1>1, <3>2 DEF Waiting
    <3> QED BY <1>5, <2>1, <3>1, <3>2
  <2> QED BY <1>3, <1>7, <2>1, <2>2, <2>3 DEF VersionsOK
<1> QED BY <1>1, <1>8, <1>9, <1>10, <1>11, Unmoved

LEMMA ReceiveGetKeeps ==
    ASSUME ManagerInv, NEW o \in orders, ReceiveGet(o)
    PROVE  ManagerInv'
<1> USE DEF ManagerInv
<1> DEFINE m == o.to
<1>1. m \in Motes /\ o.request \in Requests
  BY DEF ManagerTypeOK, ReceiveGet
<1>2. /\ orders' = orders \ {o}
      /\ answers' = answers \cup {[from |-> m, request |-> o.request]}
      /\ latest' = [latest EXCEPT ![m] = Running(m) < FreeTimers]
      /\ orphans' = [orphans EXCEPT ![m] = IF latest[m] THEN @ + 1 ELSE @]
      /\ UNCHANGED <<rows, due, tableEntry, twiceFreed, resources, rowIndex, hung, reports, view,
                     transaction, listener, heard, version, seen, missed, changes, losses>>
  BY DEF ReceiveGet, console, history
<1> HIDE DEF m
<1>3. \A p \in Motes :
          /\ latest[p]' \in BOOLEAN /\ Running(p)' \in Nat /\ Running(p)' <= FreeTimers
          /\ orphans[p]' \in 0 .. FreeTimers
  <2> TAKE p \in Motes
  <2>1. /\ due[p] \in Nat /\ orphans[p] \in Nat /\ FreeTimers \in Nat /\ latest[p] \in BOOLEAN
        /\ Running(p) <= FreeTimers
        /\ Running(p) = due[p] + orphans[p] + (IF latest[p] THEN 1 ELSE 0)
    <3>1. due[p] \in Nat /\ orphans[p] \in Nat /\ FreeTimers \in Nat /\ latest[p] \in BOOLEAN
      BY Typed
    <3>2. Running(p) <= FreeTimers
      BY DEF EntriesOK
    <3>3. Running(p) = due[p] + orphans[p] + (IF latest[p] THEN 1 ELSE 0)
      BY DEF Running
    <3> QED BY <3>1, <3>2, <3>3
  <2>2. Running(p)' = due[p] + orphans[p]' + (IF latest[p]' THEN 1 ELSE 0)
    BY <1>2 DEF Running
  <2>3. CASE p # m
    <3>1. orphans[p]' = orphans[p] /\ latest[p]' = latest[p]
      BY <1>1, <1>2, <2>3 DEF ManagerTypeOK
    <3> QED BY <2>1, <2>2, <3>1
  <2>4. CASE p = m
    <3>1. orphans[p]' = (IF latest[p] THEN orphans[p] + 1 ELSE orphans[p])
      BY <1>1, <1>2, <2>4 DEF ManagerTypeOK
    <3>2. latest[p]' <=> Running(p) < FreeTimers
      BY <1>1, <1>2, <2>4 DEF ManagerTypeOK
    <3>3. CASE latest[p]
      <4>1. orphans[p]' = orphans[p] + 1 /\ Running(p) = due[p] + orphans[p] + 1
        BY <2>1, <3>1, <3>3
      <4>2. latest[p]' \in BOOLEAN
        BY <1>1, <1>2, <2>4 DEF ManagerTypeOK
      <4>3. CASE latest[p]'
        BY <2>1, <2>2, <3>2, <4>1, <4>3
      <4>4. CASE ~latest[p]'
        BY <2>1, <2>2, <4>1, <4>2, <4>4
      <4> QED BY <4>3, <4>4
    <3>4. CASE ~latest[p]
      <4>1. orphans[p]' = orphans[p] /\ Running(p) = due[p] + orphans[p]
        BY <2>1, <3>1, <3>4
      <4>2. latest[p]' \in BOOLEAN
        BY <1>1, <1>2, <2>4 DEF ManagerTypeOK
      <4>3. CASE latest[p]'
        BY <2>1, <2>2, <3>2, <4>1, <4>3
      <4>4. CASE ~latest[p]'
        BY <2>1, <2>2, <4>1, <4>2, <4>4
      <4> QED BY <4>3, <4>4
    <3> QED BY <3>3, <3>4
  <2> QED BY <2>3, <2>4
<1>4. latest' \in [Motes -> BOOLEAN] /\ orphans' \in [Motes -> 0 .. FreeTimers]
  BY <1>2, <1>3 DEF ManagerTypeOK
<1>5. ManagerTypeOK'
  BY <1>1, <1>2, <1>4 DEF ManagerTypeOK
<1>6. EntriesOK'
  BY <1>2, <1>3, Unmoved DEF EntriesOK
<1> QED BY <1>2, <1>5, <1>6, Unmoved

LEMMA ReceivePutKeeps ==
    ASSUME ManagerInv, NEW o \in orders, ReceivePut(o)
    PROVE  ManagerInv'
<1> USE DEF ManagerInv
<1> DEFINE m == o.to
<1>1. m \in Motes
  BY DEF ManagerTypeOK
<1>2. /\ orders' = orders \ {o} /\ ~hung[m]
      /\ hung' = [hung EXCEPT ![m] = resources[m] = "loop"]
      /\ UNCHANGED <<rows, due, tableEntry, twiceFreed, resources, rowIndex, latest, orphans, reports,
                     answers, view, transaction, listener, heard, version, seen, missed,
                     changes, losses>>
  BY DEF ReceivePut, console, history
<1>3. hung' \in [Motes -> BOOLEAN] /\ \A p \in Motes : hung[p] => hung[p]'
  BY <1>1, <1>2 DEF ManagerTypeOK
<1>4. ManagerTypeOK'
  BY <1>2, <1>3 DEF ManagerTypeOK
<1>5. VersionsOK'
  BY <1>2, <1>3, Typed, Unmoved DEF VersionsOK, Waiting, OnItsWay, Link
<1> QED BY <1>2, <1>4, <1>5, Unmoved

-----------------------------------------------------------------------------
(* The manager takes reports and answers.                                     *)

LEMMA AcceptReportKeeps ==
    ASSUME ManagerInv, NEW x \in reports, AcceptReport(x), x.about # NoMote
    PROVE  ManagerInv'
<1> USE DEF ManagerInv
<1> DEFINE m == x.from
           n == x.about
           link == <<m, n>>
           reverse == <<n, m>>
           stale == x.version < seen[link]
<1>1. /\ reports' = reports \ {x}
      /\ view' = CASE x.action = "r" -> ViewWithout(x)
                   [] x.action = "n" -> [view EXCEPT ![m] = @ \cup {n}]
      /\ seen' = IF ~stale THEN [seen EXCEPT ![link] = x.version] ELSE seen
      /\ missed' = ((IF x.version = version[link] THEN missed \ {link} ELSE missed)
                     \cup (IF stale THEN {link} ELSE {}))
                     \cup (IF x.action = "r" /\ reverse \in Links /\ m \in view[n]
                           THEN {reverse} ELSE {})
      /\ orders' = orders \/ orders' = orders \cup {[to |-> m, request |-> None]}
      /\ UNCHANGED <<rows, due, tableEntry, twiceFreed, resources, rowIndex, latest, orphans, hung,
                     answers, transaction, listener, heard, version, changes, losses>>
  BY DEF AcceptReport, mote, console
<1>2. /\ m \in Motes /\ n \in Addresses /\ x.version \in Int
      /\ x.action = "n" \/ x.action = "r"
      /\ link \in Links /\ Link(x) = link /\ x.version <= version[link]
      /\ x.version = version[link] => (x.action = "n" <=> n \in Neighbors(m))
      /\ version[link] \in Nat /\ seen[link] \in Nat /\ seen[link] <= version[link]
  BY Typed DEF ReportsOK, Names, VersionsOK, Actions, Link
<1>3. view' \in [Motes -> SUBSET Addresses]
      /\ \A p \in Motes : \A k \in Addresses :
           \/ k \in view[p]' <=> k \in view[p]
           \/ <<p, k>> = link /\ (k \in view[p]' <=> x.action = "n")
           \/ <<p, k>> = reverse /\ x.action = "r" /\ m \in view[n]
  <2>1. CASE x.action = "r"
    <3>1. view' = ViewWithout(x)
      BY <1>1, <2>1
    <3>2. \A p \in Motes : \A k \in Addresses :
            k \in view[p]' <=> k \in view[p] /\ <<p, k>> # link /\ <<p, k>> # reverse
      BY <3>1 DEF ViewWithout, ManagerTypeOK
    <3>3. view' \in [Motes -> SUBSET Addresses]
      BY <3>1 DEF ViewWithout, ManagerTypeOK
    <3> QED BY <2>1, <3>2, <3>3
  <2>2. CASE x.action = "n"
    <3>1. view' = [view EXCEPT ![m] = @ \cup {n}]
      BY <1>1, <2>2
    <3>2. \A p \in Motes : \A k \in Addresses :
            k \in view[p]' <=> k \in view[p] \/ (p = m /\ k = n)
      BY <1>2, <3>1 DEF ManagerTypeOK
    <3>3. view' \in [Motes -> SUBSET Addresses]
      BY <1>2, <3>1 DEF ManagerTypeOK
    <3> QED BY <2>2, <3>2, <3>3
  <2> QED BY <1>2, <2>1, <2>2
<1>4. /\ seen' \in [Links -> Nat]
      /\ seen[link]' = (IF ~stale THEN x.version ELSE seen[link])
      /\ \A l \in Links : l # link => seen[l]' = seen[l]
  BY <1>1, <1>2 DEF ManagerTypeOK
<1>5. missed' \subseteq Links /\ orders' \subseteq [to : Motes, request : Requests \cup {None}]
  <2>1. missed \subseteq Links /\ orders \subseteq [to : Motes, request : Requests \cup {None}]
    BY DEF ManagerTypeOK
  <2>2. missed' \subseteq missed \cup {link} \cup (IF reverse \in Links THEN {reverse} ELSE {})
    <3> HIDE DEF link, reverse, stale
    <3> QED BY <1>1
  <2>3. orders' \subseteq [to : Motes, request : Requests \cup {None}]
    BY <1>1, <1>2, <2>1
  <2> QED BY <1>2, <2>1, <2>2, <2>3
<1>6. \A p \in Motes : Neighbors(p)' = Neighbors(p)
  BY <1>1, Unmoved
<1>7. ManagerTypeOK'
  BY <1>1, <1>3, <1>4, <1>5 DEF ManagerTypeOK
<1>8. ReportsOK'
  BY <1>1, <1>6, Typed DEF ReportsOK, Names, Link
<1>9. VersionsOK'
  <2> SUFFICES ASSUME NEW l \in Links
               PROVE  /\ seen[l]' <= version[l]
                      /\ l \notin missed' =>
                           /\ seen[l]' = version[l] =>
                                (l[2] \in view[l[1]]' <=> l[2] \in Neighbors(l[1])')
                           /\ seen[l]' < version[l] /\ ~hung[l[1]] => Waiting(l)' \/ OnItsWay(l)'
    BY <1>1 DEF VersionsOK
  <2>1. l = <<l[1], l[2]>> /\ l[1] \in Motes /\ l[2] \in Addresses
        /\ version[l] \in Nat /\ seen[l] \in Nat /\ seen[l] <= version[l]
        /\ seen[l]' \in Nat
    BY <1>4, Typed DEF VersionsOK
  <2>2. seen[l]' <= version[l]
    BY <1>2, <1>4, <2>1
  <2>3. Waiting(l)' <=> Waiting(l)
    BY <1>1 DEF Waiting
  <2>4. CASE l # link
    <3>1. l \notin missed' => l \notin missed
      BY <1>1, <2>4
    <3>2. OnItsWay(l) => OnItsWay(l)'
      BY <1>1, <1>2, <2>4 DEF OnItsWay, Link
    <3>3. l \notin missed' => (l[2] \in view[l[1]]' <=> l[2] \in view[l[1]])
      <4>1. l = reverse /\ x.action = "r" /\ m \in view[n] => l \in missed'
        BY <1>1
      <4>2. <<l[1], l[2]>> = l
        BY <2>1
      <4> HIDE DEF link, reverse
      <4> QED BY <1>3, <2>1, <2>4, <4>1, <4>2
    <3> QED BY <1>4, <1>6, <2>1, <2>2, <2>3, <2>4, <3>1, <3>2, <3>3 DEF VersionsOK
  <2>5. CASE l = link
    <3>1. l[1] = m /\ l[2] = n
      BY <2>5
    <3>2. CASE x.version = version[link]
      <4>1. seen[l]' = version[l]
        BY <1>2, <1>4, <2>5, <3>2
      <4>2. l \notin missed' => (n \in view[m]' <=> x.action = "n")
        <5>1. l \notin missed' => ~(l = reverse /\ x.action = "r" /\ m \in view[n])
          BY <1>1, <1>2
        <5>2. \/ n \in view[m]' <=> n \in view[m]
              \/ n \in view[m]' <=> x.action = "n"
              \/ l = reverse /\ x.action = "r" /\ m \in view[n]
          BY <1>2, <1>3, <2>5
        <5>3. CASE x.action = "r"
          <6>1. view' = ViewWithout(x)
            BY <1>1, <5>3
          <6>2. n \notin view[m]'
            BY <1>2, <6>1 DEF ViewWithout, ManagerTypeOK
          <6> QED BY <5>3, <6>2
        <5>4. CASE x.action = "n"
          <6>1. view' = [view EXCEPT ![m] = @ \cup {n}]
            BY <1>1, <3>2, <5>4
          <6>2. n \in view[m]'
            BY <1>2, <6>1 DEF ManagerTypeOK
          <6> QED BY <5>4, <6>2
        <5> QED BY <1>2, <5>3, <5>4
      <4> QED BY <1>2, <1>6, <2>1, <2>2, <2>5, <3>1, <3>2, <4>1, <4>2
    <3>3. CASE x.version # version[link]
      <4>1. OnItsWay(l) => OnItsWay(l)'
        BY <1>1, <2>5, <3>3 DEF OnItsWay, Link
      <4>2. l \notin missed' => l \notin missed /\ ~stale
        BY <1>1, <2>5, <3>3
      <4>3. ~stale => seen[l]' = x.version /\ x.version < version[l] /\ seen[l] < version[l]
        BY <1>2, <1>4, <2>5, <3>3
      <4> QED BY <2>1, <2>2, <2>3, <4>1, <4>2, <4>3 DEF VersionsOK
    <3> QED BY <3>2, <3>3
  <2> QED BY <2>4, <2>5
<1> QED BY <1>1, <1>7, <1>8, <1>9, Unmoved

\* A removal that names nobody changes nothing between motes.
LEMMA AcceptUnnamedKeeps ==
    ASSUME ManagerInv, NEW x \in reports, AcceptReport(x), x.about = NoMote
    PROVE  ManagerInv'
<1> USE DEF ManagerInv
<1>1. x.action = "r" /\ x.version = Never /\ x.from \in Motes
  BY Typed DEF ReportsOK
<1>2. \A m \in Motes : \A n \in Addresses : m # NoMote /\ n # NoMote
  BY ManagerAssumption DEF Addresses
<1>3. <<x.about, x.from>> \notin Links /\ <<x.from, x.about>> \notin Links
  BY <1>2, Typed
<1>4. view' = view
  <2>1. view' = ViewWithout(x)
    BY <1>1 DEF AcceptReport
  <2>2. \A m \in Motes : \A n \in Addresses :
            <<m, n>> \notin {<<x.from, x.about>>, <<x.about, x.from>>}
    BY <1>2
  <2>3. \A m \in Motes : view[m] \ {n \in Addresses : <<m, n>> \in
                              {<<x.from, x.about>>, <<x.about, x.from>>}} = view[m]
    BY <2>2
  <2> QED BY <2>1, <2>3 DEF ViewWithout, ManagerTypeOK
<1>5. /\ reports' = reports \ {x} /\ seen' = seen
      /\ orders' = orders \cup {[to |-> x.from, request |-> None]}
      /\ UNCHANGED <<rows, due, tableEntry, twiceFreed, resources, rowIndex, latest, orphans,
                     hung, answers, transaction, listener, heard, version, changes, losses>>
  BY <1>1 DEF AcceptReport, mote, console
<1>6. missed' = missed
  BY <1>3 DEF AcceptReport
<1>7. ManagerTypeOK'
  BY <1>1, <1>4, <1>5, <1>6 DEF ManagerTypeOK
<1>8. \A p \in Motes : Neighbors(p)' = Neighbors(p)
  BY <1>5, Unmoved
<1>9. ReportsOK'
  BY <1>5, <1>8, Typed DEF ReportsOK, Names, Link
<1>10. VersionsOK'
  <2>1. \A l \in Links : OnItsWay(l) => OnItsWay(l)'
    BY <1>3, <1>5 DEF OnItsWay, Link
  <2>2. \A l \in Links : Waiting(l) => Waiting(l)'
    BY <1>5 DEF Waiting
  <2> QED BY <1>4, <1>5, <1>6, <1>8, <2>1, <2>2, Typed DEF VersionsOK
<1> QED BY <1>5, <1>7, <1>9, <1>10, Unmoved

LEMMA AcceptAnswerKeeps ==
    ASSUME ManagerInv, NEW a \in answers, AcceptAnswer(a)
    PROVE  ManagerInv'
<1> USE DEF ManagerInv
<1>1. /\ answers' = answers \ {a}
      /\ transaction' = [r \in Requests |->
             IF heard /\ r = listener /\ transaction[r].ack = NoMote
             THEN [transaction[r] EXCEPT !.ack = a.from] ELSE transaction[r]]
      /\ UNCHANGED <<rows, due, tableEntry, twiceFreed, resources, rowIndex, latest, orphans, hung,
                     reports, orders, view, listener, heard, version, seen, missed,
                     changes, losses>>
  BY DEF AcceptAnswer, mote, history
<1>2. a.from \in Motes /\ transaction \in [Requests -> Transaction]
  BY DEF ManagerTypeOK, Transaction
<1>3. transaction' \in [Requests -> Transaction]
  <2>1. \A t \in Transaction : [t EXCEPT !.ack = a.from] \in Transaction
    BY <1>2 DEF Transaction
  <2> QED BY <1>1, <1>2, <2>1
<1>4. \A r \in Requests : /\ transaction[r]'.to = transaction[r].to
                          /\ transaction[r]'.step = transaction[r].step
                          /\ transaction[r]'.retryCount = transaction[r].retryCount
  BY <1>1 DEF ManagerTypeOK
<1>5. RequestsOK'
  BY <1>4 DEF RequestsOK
<1>6. ManagerTypeOK'
  BY <1>1, <1>3 DEF ManagerTypeOK, Transaction
<1> QED BY <1>1, <1>5, <1>6, Unmoved

LEMMA LoseKeeps ==
    ASSUME ManagerInv, Lose
    PROVE  ManagerInv'
<1> USE DEF ManagerInv
<1>1. /\ losses' \in Nat
      /\ UNCHANGED <<rows, due, tableEntry, twiceFreed, resources, rowIndex, latest, orphans, hung,
                     view, transaction, listener, heard, version, seen, changes>>
  BY Typed DEF Lose, Late, mote, console
<1>2. reports' \subseteq reports /\ answers' \subseteq answers /\ orders' \subseteq orders
  BY DEF Lose
<1>3. missed' \subseteq Links /\ missed \subseteq missed'
      /\ \A x \in reports : x \in reports' \/ Link(x) \in missed' \/ x.version = Never
  <2>1. CASE \E x \in reports : reports' = reports \ {x}
                                /\ missed' = missed \cup
                                     (IF x.version = Never THEN {} ELSE {<<x.from, x.about>>})
    BY <2>1 DEF ReportsOK, Names, ManagerTypeOK, Link
  <2>2. CASE UNCHANGED <<reports, missed>>
    BY <2>2 DEF ManagerTypeOK
  <2> QED BY <2>1, <2>2 DEF Lose
<1>4. \A p \in Motes : Neighbors(p)' = Neighbors(p)
  BY <1>1, Unmoved
<1>5. ManagerTypeOK'
  BY <1>1, <1>2, <1>3 DEF ManagerTypeOK
<1>6. ReportsOK'
  BY <1>1, <1>2, <1>4, Typed DEF ReportsOK, Names, Link
<1>7. VersionsOK'
  <2>1. \A l \in Links : OnItsWay(l) /\ l \notin missed' => OnItsWay(l)'
    <3>1. \A l \in Links : version[l] # Never
      BY Typed DEF Never
    <3> QED BY <1>1, <1>3, <3>1 DEF OnItsWay, Link
  <2>2. \A l \in Links : Waiting(l) => Waiting(l)'
    BY <1>1 DEF Waiting
  <2> QED BY <1>1, <1>3, <1>4, <2>1, <2>2, Typed DEF VersionsOK
<1> QED BY <1>1, <1>5, <1>6, <1>7, Unmoved

-----------------------------------------------------------------------------
(* The console.                                                               *)

LEMMA StartRequestKeeps ==
    ASSUME ManagerInv, NEW r \in Requests, NEW m \in Asked, StartRequest(r, m)
    PROVE  ManagerInv'
<1> USE DEF ManagerInv
<1>1. /\ transaction[r].step = "idle"
      /\ transaction' = [transaction EXCEPT ![r].to = m, ![r].step = "running"]
      /\ listener' = r
      /\ UNCHANGED <<rows, due, tableEntry, twiceFreed, resources, rowIndex, latest, orphans, hung,
                     reports, answers, orders, view, heard, version, seen, missed,
                     changes, losses>>
  BY DEF StartRequest, mote, network, history
<1>2. m \in Motes /\ transaction \in [Requests -> Transaction]
  BY ManagerAssumption DEF ManagerTypeOK, Transaction
<1>3. /\ transaction[r]'.to = m /\ transaction[r]'.step = "running"
      /\ transaction[r]'.retryCount = transaction[r].retryCount
      /\ \A q \in Requests : q # r => transaction[q]' = transaction[q]
  BY <1>1, <1>2 DEF Transaction
<1>4. transaction' \in [Requests -> Transaction]
  BY <1>1, <1>2 DEF Transaction
<1>5. RequestsOK'
  BY <1>1, <1>2, <1>3 DEF RequestsOK
<1>6. ManagerTypeOK'
  BY <1>1, <1>4 DEF ManagerTypeOK, Transaction
<1> QED BY <1>1, <1>5, <1>6, Unmoved

LEMMA CheckAckKeeps ==
    ASSUME ManagerInv, NEW r \in Requests, CheckAck(r)
    PROVE  ManagerInv'
<1> USE DEF ManagerInv
<1> DEFINE t == transaction[r]
<1>1. /\ t.step = "running"
      /\ listener' = IF transaction'[r].step = "over" THEN None ELSE listener
      /\ UNCHANGED <<rows, due, tableEntry, twiceFreed, resources, rowIndex, latest, orphans, hung,
                     reports, answers, view, heard, version, seen, missed, changes, losses>>
  BY DEF CheckAck, mote, history
<1>2. /\ transaction \in [Requests -> Transaction] /\ t \in Transaction
      /\ t.to \in Motes /\ t.retryCount \in Nat /\ t.retryCount <= RetryLimit
      /\ RetryLimit \in Nat
  BY <1>1, ManagerAssumption DEF ManagerTypeOK, RequestsOK, Transaction
<1>3. /\ transaction' \in [Requests -> Transaction]
      /\ orders' \subseteq [to : Motes, request : Requests \cup {None}]
      /\ RequestsOK'
  <2>1. CASE /\ transaction' = [transaction EXCEPT ![r].step = "over"]
             /\ UNCHANGED orders
    <3>1. transaction' \in [Requests -> Transaction]
      BY <1>2, <2>1 DEF Transaction
    <3>2. /\ transaction[r]'.step = "over"
          /\ \A q \in Requests : q # r => transaction[q]' = transaction[q]
      BY <1>2, <2>1 DEF Transaction
    <3> QED BY <2>1, <3>1, <3>2 DEF RequestsOK, ManagerTypeOK
  <2>2. CASE /\ transaction' = [transaction EXCEPT ![r] = Attempt(t)]
             /\ orders' = orders \cup {[to |-> t.to, request |-> r]}
    <3>1. /\ Attempt(t) \in Transaction /\ Attempt(t).to = t.to
          /\ Attempt(t).retryCount = t.retryCount + 1
          /\ Attempt(t).step = IF t.retryCount + 1 > RetryLimit THEN "over" ELSE "running"
      <4> HIDE DEF t
      <4>1. Attempt(t) = [t EXCEPT !.retryCount = t.retryCount + 1,
                                   !.step = IF t.retryCount + 1 > RetryLimit THEN "over"
                                            ELSE "running"]
        BY <1>2 DEF Attempt, Transaction
      <4>2. t.retryCount + 1 \in 0 .. RetryLimit + 1
        BY <1>2
      <4>3. (IF t.retryCount + 1 > RetryLimit THEN "over" ELSE "running")
              \in {"idle", "running", "over"}
        OBVIOUS
      <4> QED BY <1>2, <4>1, <4>2, <4>3 DEF Transaction
    <3>2. /\ transaction' \in [Requests -> Transaction] /\ transaction[r]' = Attempt(t)
          /\ \A q \in Requests : q # r => transaction[q]' = transaction[q]
      BY <1>2, <2>2, <3>1
    <3>3. RequestsOK'
      BY <1>2, <3>1, <3>2 DEF RequestsOK
    <3>4. orders' \subseteq [to : Motes, request : Requests \cup {None}]
      BY <1>2, <2>2 DEF ManagerTypeOK
    <3> QED BY <3>2, <3>3, <3>4
  <2> QED BY <2>1, <2>2 DEF CheckAck
<1>4. ManagerTypeOK'
  <2>1. listener' \in Requests \cup {None}
    BY <1>1 DEF ManagerTypeOK
  <2> QED BY <1>1, <1>3, <2>1 DEF ManagerTypeOK, Transaction
<1> QED BY <1>1, <1>3, <1>4, Unmoved

-----------------------------------------------------------------------------
LEMMA NextManagerInv == ManagerInv /\ [Next]_vars => ManagerInv'
<1> SUFFICES ASSUME ManagerInv, [Next]_vars
             PROVE  ManagerInv'
  OBVIOUS
<1>1. CASE Change
  <2>1. PICK l \in Links : Register(l[1], l[2]) \/ Remove(l[1], l[2])
    BY <1>1 DEF Change
  <2>2. l[1] \in Motes /\ l[2] \in Addresses /\ <<l[1], l[2]>> \in Links
    BY ManagerAssumption DEF Addresses
  <2> QED BY <2>1, <2>2, RegisterKeeps, RemoveKeeps
<1>2. CASE \E m \in Motes : Task(m)
  BY <1>2, SendReportKeeps, SkipReportKeeps, SendRowKeeps, EndTransferKeeps DEF Task
<1>3. CASE ReceiveOrder
  BY <1>3, ReceiveGetKeeps, ReceivePutKeeps DEF ReceiveOrder
<1>4. CASE Accept
  BY <1>4, AcceptReportKeeps, AcceptUnnamedKeeps, AcceptAnswerKeeps DEF Accept
<1>5. CASE Console
  BY <1>5, StartRequestKeeps, CheckAckKeeps DEF Console
<1>6. CASE UNCHANGED vars
  <2>1. UNCHANGED <<rows, due, tableEntry, twiceFreed, resources, rowIndex, latest, orphans, hung,
                    reports, answers, orders, view, transaction, listener, heard,
                    version, seen, missed, changes, losses>>
    BY <1>6 DEF vars, mote, network, console, history
  <2>2. ManagerTypeOK'
    BY <2>1 DEF ManagerInv, ManagerTypeOK
  <2> QED BY <2>1, <2>2, Unmoved DEF ManagerInv
<1> QED BY <1>1, <1>2, <1>3, <1>4, <1>5, <1>6, LoseKeeps DEF Next

\* The inductive invariant holds in every reachable state: beside the types, a row
\* in its present version waits for its timer, is on its way, has been seen, or is
\* known to be missed.
THEOREM ManagerInvariant == Spec => []ManagerInv
<1> QED BY InitManagerInv, NextManagerInv, PTL DEF Spec

\* No more timers run on a mote than there are, whatever requests come twice; the
\* reports and orders on their way are about motes and rows there are; no request
\* is sent more often than the limit.
THEOREM ManagerType == Spec => []ManagerTypeOK
<1>1. ManagerInv => ManagerTypeOK
  BY DEF ManagerInv
<1> QED BY <1>1, ManagerInvariant, PTL

\* Once nothing is on its way, the tables of the manager and of the motes agree on
\* every neighbor whose last report was not missed.
THEOREM ManagerViewMatches == Spec => []ViewMatches
<1>1. ManagerInv => ViewMatches
  <2> SUFFICES ASSUME ManagerInv, Quiet, NEW l \in Links, l \notin missed, ~hung[l[1]]
               PROVE  l[2] \in view[l[1]] <=> l[2] \in Neighbors(l[1])
    BY DEF ViewMatches
  <2>1. /\ seen[l] <= version[l] /\ seen[l] \in Nat /\ version[l] \in Nat /\ l[1] \in Motes
        /\ seen[l] = version[l] => (l[2] \in view[l[1]] <=> l[2] \in Neighbors(l[1]))
        /\ seen[l] < version[l] => Waiting(l) \/ OnItsWay(l)
    BY Typed DEF ManagerInv, VersionsOK
  <2>2. ~Waiting(l) /\ ~OnItsWay(l)
    BY <2>1 DEF Quiet, Waiting, OnItsWay
  <2> QED BY <2>1, <2>2
<1> QED BY <1>1, ManagerInvariant, PTL
==============================================================================
