------------------------------ MODULE Manager ------------------------------
(***************************************************************************)
(* The network manager (WSNManager) and the motes that tell it of their    *)
(* neighbors.  A mote reports each row it registers or removes, one timer  *)
(* later, through table_update; the manager asks for a whole table with    *)
(* GET n, repeated by a CoAPAckTimer, and the mote sends the rows one by   *)
(* one through neighbor_table.  The manager answers a removal with PUT r.  *)
(* Both directions go over UDP: any message may be lost or overtaken.      *)
(* The DAG root reports over the serial line instead, and its table is not *)
(* one of those modelled.                                                  *)
(***************************************************************************)
EXTENDS Integers, FiniteSets, FiniteSetsExt, Functions

CONSTANTS
    Motes, Root, NoMote,
    Links,        \* <<m, n>>: n may become a neighbor of the mote m
    NumRows,      \* MAXNUMNEIGHBORS
    FreeTimers,   \* what the other modules leave of MAX_NUM_TIMERS
    QueueLength,  \* reports the packet queue of a mote has room for
    Requests,     \* the GET n the user types
    Asked,        \* the motes the user sends them to
    RetryLimit,   \* 5 in ControlPanel.handleCoAP
    MaxChanges,   \* bound: rows registered and removed
    MaxLosses     \* bound: messages lost and reports not sent

ASSUME ManagerAssumption ==
    /\ Root \notin Motes /\ NoMote \notin Motes \cup {Root}
    /\ Links \subseteq Motes \X (Motes \cup {Root})
    /\ {NumRows, FreeTimers, QueueLength} \subseteq Nat \ {0}
    /\ IsFiniteSet(Requests) /\ 0 \notin Requests /\ Asked \subseteq Motes
    /\ {RetryLimit, MaxChanges, MaxLosses} \subseteq Nat

VARIABLES
    \* each mote
    rows,        \* neighbors.c: who is in each row
    due,         \* running timers of table_update
    tableEntry,  \* its globals: the row, what became of it, what became of its block
    twiceFreed,  \* a block has been freed twice: malloc may hand it out twice
    resources,   \* where the descriptor of table_update stands in opencoap's list
    rowIndex,    \* neighbor_table: the next row to send
    latest,      \* whether the timer it has the handle of runs
    orphans,     \* its running timers whose handle is overwritten
    hung,        \* the main loop walks opencoap's list for ever
    \* the network
    reports, answers, orders,
    \* the manager
    view,         \* NetworkModel: the neighbors in each mote's table
    transaction,  \* CoAPAckTimer
    listener,     \* the one registered under the message ID all of them have
    heard,        \* its acceptFrame comes before those that throw
    \* history
    version, seen, missed, changes, losses

mote == <<rows, due, tableEntry, twiceFreed, resources, rowIndex, latest, orphans, hung>>
network == <<reports, answers, orders>>
console == <<transaction, listener, heard>>
history == <<version, seen, missed, changes, losses>>
vars == <<mote, network, view, console, history>>

None == 0
Addresses == Motes \cup {Root}
Rows == 1 .. NumRows
Actions == {"n", "r"}
Blocks == {"owned", "freed", "refilled"}
NoEntry == [about |-> NoMote, action |-> "n", block |-> "freed"]

\* The version of a report that is about no version of any row.
Never == -1
Report == [from : Motes, about : Addresses \cup {NoMote}, action : Actions,
           version : Nat \cup {Never}]

Neighbors(m) == Range(rows[m]) \ {NoMote}
Running(m) == due[m] + orphans[m] + (IF latest[m] THEN 1 ELSE 0)
Room(m) == Cardinality({x \in reports \cup answers : x.from = m}) < QueueLength
Late == losses < MaxLosses /\ losses' = losses + 1

-----------------------------------------------------------------------------
Init ==
    /\ rows = [m \in Motes |-> [i \in Rows |-> NoMote]]
    /\ due = [m \in Motes |-> 0] /\ tableEntry = [m \in Motes |-> NoEntry]
    /\ twiceFreed = [m \in Motes |-> FALSE]
    /\ resources = [m \in Motes |-> "absent"]
    /\ rowIndex = [m \in Motes |-> 1]
    /\ latest = [m \in Motes |-> FALSE] /\ orphans = [m \in Motes |-> 0]
    /\ hung = [m \in Motes |-> FALSE]
    /\ reports = {} /\ answers = {} /\ orders = {}
    /\ view = [m \in Motes |-> {}]
    /\ transaction = [r \in Requests |->
           [to |-> NoMote, step |-> "idle", retryCount |-> 0, ack |-> NoMote]]
    /\ listener = None /\ heard \in BOOLEAN
    /\ version = [l \in Links |-> 0] /\ seen = [l \in Links |-> 0]
    /\ missed = {} /\ changes = 0 /\ losses = 0

\* The link of the entry that an action overwrites before it is sent.
Unsent(m) ==
    IF due[m] > 0 /\ tableEntry[m].block = "owned" THEN {<<m, tableEntry[m].about>>} ELSE {}

\* opencoap_register: the descriptor's next becomes NULL, then the last of the
\* list points to it: itself, once it is in the list, as the last.
Registered(place) == IF place = "absent" THEN "last" ELSE "loop"

\* update(): the globals are overwritten and one more timer is started, when there
\* is one.
Update(m, n, action) ==
    LET started == Running(m) < FreeTimers IN
    /\ resources' = [resources EXCEPT ![m] = Registered(@)]
    /\ tableEntry' = [tableEntry EXCEPT ![m] =
           [about |-> n, action |-> action, block |-> "owned"]]
    /\ due' = [due EXCEPT ![m] = IF started THEN @ + 1 ELSE @]
    /\ version' = [version EXCEPT ![<<m, n>>] = @ + 1]
    /\ missed' = ((missed \ {<<m, n>>}) \cup (Unsent(m) \ {<<m, n>>}))
                     \cup (IF started \/ due[m] > 0 THEN {} ELSE {<<m, n>>})
    /\ changes < MaxChanges /\ changes' = changes + 1
    /\ UNCHANGED <<twiceFreed, rowIndex, latest, orphans, hung, network, view, console, seen,
                   losses>>

\* registerNewNeighbor: the first row that is not used.
Register(m, n) ==
    /\ ~hung[m] /\ n \notin Neighbors(m)
    /\ \E i \in Rows :
         /\ rows[m][i] = NoMote /\ \A j \in 1 .. i - 1 : rows[m][j] # NoMote
         /\ rows' = [rows EXCEPT ![m][i] = n]
    /\ Update(m, n, "n")

\* removeNeighbor
Remove(m, n) ==
    /\ ~hung[m]
    /\ \E i \in Rows : rows[m][i] = n /\ rows' = [rows EXCEPT ![m][i] = NoMote]
    /\ Update(m, n, "r")

Change == \E l \in Links : Register(l[1], l[2]) \/ Remove(l[1], l[2])

\* Whom table_update_task_cb may read in its entry.  A freed block still holds its
\* row, or the one it has been refilled with; but free keeps its own links at the
\* front, over the flag used and the first bytes of the address.  NoMote stands for
\* an address nobody has, and for a row that reads as unused.
Read(m) ==
    {tableEntry[m].about} \cup (IF tableEntry[m].block = "owned" THEN {} ELSE {NoMote})

ReportOf(m, n) ==
    [from |-> m, about |-> n, action |-> tableEntry[m].action,
     version |-> IF tableEntry[m].block = "refilled" \/ n = NoMote THEN Never
                 ELSE version[<<m, n>>]]

\* table_update_task_cb, when its timer has fired: the entry is sent as it reads
\* now, and freed, once more if it was.  A new row that reads as unused changes
\* nothing at the manager and is left out.
SendReport(m) ==
    /\ due[m] > 0 /\ ~hung[m] /\ Room(m)
    /\ \E n \in Read(m) :
         reports' = IF n = NoMote /\ tableEntry[m].action = "n" THEN reports
                    ELSE reports \cup {ReportOf(m, n)}
    /\ due' = [due EXCEPT ![m] = @ - 1]
    /\ twiceFreed' = [twiceFreed EXCEPT ![m] = @ \/ tableEntry[m].block # "owned"]
    /\ tableEntry' = [tableEntry EXCEPT ![m].block = IF @ = "owned" THEN "freed" ELSE @]
    /\ UNCHANGED <<rows, resources, rowIndex, latest, orphans, hung, answers, orders,
                   view, console, history>>

\* ... not in sync, or no buffer: nothing is sent or freed, and not tried again.
SkipReport(m) ==
    /\ due[m] > 0 /\ ~hung[m]
    /\ IF Room(m) THEN Late ELSE UNCHANGED losses
    /\ due' = [due EXCEPT ![m] = @ - 1]
    /\ missed' = missed \cup (IF due[m] = 1 THEN Unsent(m) ELSE {})
    /\ UNCHANGED <<rows, tableEntry, twiceFreed, resources, rowIndex, latest, orphans, hung,
                   network, view, console, version, seen, changes>>

-----------------------------------------------------------------------------
Transferring(m) == latest[m] \/ orphans[m] > 0

\* Mutant: the index of the next row stays.
RowAfterSame(i) == i

RowAfter(i) == i + 1

\* The address in a row; one that is not used keeps that of a neighbor it had.
Held(m, i) ==
    IF rows[m][i] # NoMote THEN {rows[m][i]}
    ELSE {NoMote} \cup {n \in Addresses : <<m, n>> \in Links /\ version[<<m, n>>] > 0}

\* neighbors_table_entry puts the row into a block of the size of update's: into
\* update's own, if that is free or twice in the list of free blocks.  A block no
\* timer will read again is left as it is.
Refill(m) ==
    /\ due[m] > 0
    /\ tableEntry[m].block # "owned" \/ twiceFreed[m]
    /\ \E n \in Held(m, rowIndex[m]) :
         tableEntry' = [tableEntry EXCEPT ![m].about = n, ![m].block = "refilled"]
    /\ missed' = missed \cup Unsent(m)

\* send_next_row; without a buffer the row's turn comes again.  A row that is not
\* used is left out.
SendRow(m) ==
    LET i == rowIndex[m] IN
    /\ Transferring(m) /\ ~hung[m] /\ i \in Rows /\ Room(m)
    /\ rowIndex' = [rowIndex EXCEPT ![m] = RowAfter(@)]
    /\ reports' = IF rows[m][i] = NoMote THEN reports
                  ELSE reports \cup
                       {[from |-> m, about |-> rows[m][i], action |-> "n",
                         version |-> version[<<m, rows[m][i]>>]]}
    /\ Refill(m) \/ UNCHANGED <<tableEntry, missed>>
    /\ UNCHANGED <<rows, due, twiceFreed, resources, latest, orphans, hung, answers, orders,
                   view, console, version, seen, changes, losses>>

\* After the last row the timer whose handle is kept is stopped.  When that one has
\* been stopped before, the handle may have become that of a report.
EndTransfer(m) ==
    /\ Transferring(m) /\ ~hung[m] /\ rowIndex[m] \notin Rows
    /\ rowIndex' = [rowIndex EXCEPT ![m] = 1]
    /\ latest' = [latest EXCEPT ![m] = FALSE]
    /\ \/ UNCHANGED <<due, missed>>
       \/ /\ ~latest[m] /\ due[m] > 0
          /\ due' = [due EXCEPT ![m] = @ - 1]
          /\ missed' = missed \cup (IF due[m] = 1 THEN Unsent(m) ELSE {})
    /\ UNCHANGED <<rows, tableEntry, twiceFreed, resources, orphans, hung, network, view,
                   console, version, seen, changes, losses>>

\* opencoap_receive of GET n: every one starts a timer, also one sent again.
ReceiveGet(o) ==
    LET m == o.to IN
    /\ o.request # None /\ ~hung[m]
    /\ orders' = orders \ {o}
    /\ answers' = answers \cup {[from |-> m, request |-> o.request]}
    /\ latest' = [latest EXCEPT ![m] = Running(m) < FreeTimers]
    /\ orphans' = [orphans EXCEPT ![m] = IF latest[m] THEN @ + 1 ELSE @]
    /\ UNCHANGED <<rows, due, tableEntry, twiceFreed, resources, rowIndex, hung, reports, view,
                   console, history>>

\* opencoap_receive of PUT r: no resource has that path, and the walk ends where
\* the list does.  The manager throws the answer 4.04 away.
ReceivePut(o) ==
    LET m == o.to IN
    /\ o.request = None /\ ~hung[m]
    /\ orders' = orders \ {o}
    /\ hung' = [hung EXCEPT ![m] = resources[m] = "loop"]
    /\ UNCHANGED <<rows, due, tableEntry, twiceFreed, resources, rowIndex, latest, orphans,
                   reports, answers, view, console, history>>

ReceiveOrder == \E o \in orders : ReceiveGet(o) \/ ReceivePut(o)

-----------------------------------------------------------------------------
\* Mutant: a removal leaves the mote's own row.
ViewWithoutReverse(x) ==
    [m \in Motes |-> IF m = x.about THEN view[m] \ {x.from} ELSE view[m]]

\* NetworkModel.acceptFrame: a removal takes the edge away in both directions.
ViewWithout(x) ==
    [m \in Motes |-> view[m] \ {n \in Addresses : <<m, n>> \in
                                   {<<x.from, x.about>>, <<x.about, x.from>>}}]

\* NetworkModel and ControlPanel take a report.  An address that is no mote's
\* changes nothing between motes.
AcceptReport(x) ==
    LET link == <<x.from, x.about>>
        reverse == <<x.about, x.from>>
        named == x.about # NoMote
        stale == named /\ x.version < seen[link] IN
    /\ reports' = reports \ {x}
    /\ view' = CASE x.action = "r" -> ViewWithout(x)
                 [] x.action = "n" -> [view EXCEPT ![x.from] = @ \cup {x.about}]
    /\ seen' = IF named /\ ~stale THEN [seen EXCEPT ![link] = x.version] ELSE seen
    /\ missed' = ((IF named /\ x.version = version[link] THEN missed \ {link} ELSE missed)
                     \cup (IF stale THEN {link} ELSE {}))
                     \cup (IF x.action = "r" /\ reverse \in Links /\ x.from \in view[x.about]
                           THEN {reverse} ELSE {})
    /\ orders' = IF x.action = "r" THEN orders \cup {[to |-> x.from, request |-> None]}
                 ELSE orders
    /\ UNCHANGED <<mote, answers, console, version, changes, losses>>

\* The answer to GET n has no payload: the listeners that look at it throw, and
\* those behind them in the map are not told.  Any answer has the one message ID.
AcceptAnswer(a) ==
    /\ answers' = answers \ {a}
    /\ transaction' = [r \in Requests |->
           IF heard /\ r = listener /\ transaction[r].ack = NoMote
           THEN [transaction[r] EXCEPT !.ack = a.from] ELSE transaction[r]]
    /\ UNCHANGED <<mote, reports, orders, view, listener, heard, history>>

Accept == (\E x \in reports : AcceptReport(x)) \/ (\E a \in answers : AcceptAnswer(a))

Lose ==
    /\ Late
    /\ \/ /\ \E x \in reports : reports' = reports \ {x}
                                /\ missed' = missed \cup
                                     (IF x.version = Never THEN {} ELSE {<<x.from, x.about>>})
          /\ UNCHANGED <<answers, orders>>
       \/ /\ \E a \in answers : answers' = answers \ {a}
          /\ UNCHANGED <<reports, orders, missed>>
       \/ /\ \E o \in orders : orders' = orders \ {o}
          /\ UNCHANGED <<reports, answers, missed>>
    /\ UNCHANGED <<mote, view, console, version, seen, changes>>

-----------------------------------------------------------------------------
\* ControlPanel.handleCoAP: a new CoAPAckTimer registers under the message ID, in
\* the place of the one before.
StartRequest(r, m) ==
    /\ transaction[r].step = "idle"
    /\ transaction' = [transaction EXCEPT ![r].to = m, ![r].step = "running"]
    /\ listener' = r
    /\ UNCHANGED <<mote, network, view, heard, history>>

\* Mutant: the attempts are not counted.
AttemptForgotten(t) == t

\* Mutant: the attempts are counted and never too many.
AttemptForever(t) ==
    [t EXCEPT !.retryCount = IF @ > 2 * RetryLimit THEN @ ELSE @ + 1]

Attempt(t) ==
    [t EXCEPT !.retryCount = @ + 1,
              !.step = IF t.retryCount + 1 > RetryLimit THEN "over" ELSE "running"]

\* AckCheckTask.run: the acknowledgement is looked for before the order is sent
\* again; the end takes away whoever is registered.
CheckAck(r) ==
    LET t == transaction[r] IN
    /\ t.step = "running"
    /\ \/ /\ t.ack # NoMote
          /\ transaction' = [transaction EXCEPT ![r].step = "over"]
          /\ UNCHANGED orders
       \/ /\ t.ack = NoMote
          /\ transaction' = [transaction EXCEPT ![r] = Attempt(t)]
          /\ orders' = orders \cup {[to |-> t.to, request |-> r]}
    /\ listener' = IF transaction'[r].step = "over" THEN None ELSE listener
    /\ UNCHANGED <<mote, reports, answers, view, heard, history>>

Console == \E r \in Requests : CheckAck(r) \/ \E m \in Asked : StartRequest(r, m)

Task(m) == SendReport(m) \/ SkipReport(m) \/ SendRow(m) \/ EndTransfer(m)

Next == Change \/ (\E m \in Motes : Task(m)) \/ ReceiveOrder \/ Accept \/ Lose \/ Console

\* The timers of motes and of the manager fire, and what is sent arrives or is lost.
Spec ==
    /\ Init /\ [][Next]_vars
    /\ \A m \in Motes : WF_vars(SendRow(m)) /\ WF_vars(EndTransfer(m))
    /\ \A r \in Requests : WF_vars(CheckAck(r))
    /\ WF_vars(Accept)

-----------------------------------------------------------------------------
ManagerTypeOK ==
    /\ rows \in [Motes -> [Rows -> Addresses \cup {NoMote}]]
    /\ due \in [Motes -> 0 .. FreeTimers]
    /\ tableEntry \in [Motes -> [about : Addresses \cup {NoMote}, action : Actions, block : Blocks]]
    /\ twiceFreed \in [Motes -> BOOLEAN]
    /\ resources \in [Motes -> {"absent", "last", "loop"}]
    /\ rowIndex \in [Motes -> 1 .. NumRows + 1]
    /\ latest \in [Motes -> BOOLEAN] /\ orphans \in [Motes -> 0 .. FreeTimers]
    /\ hung \in [Motes -> BOOLEAN]
    /\ reports \subseteq Report
    /\ answers \subseteq [from : Motes, request : Requests]
    /\ orders \subseteq [to : Motes, request : Requests \cup {None}]
    /\ view \in [Motes -> SUBSET Addresses]
    /\ transaction \in [Requests -> [to : Motes \cup {NoMote}, retryCount : 0 .. RetryLimit + 1,
                                     step : {"idle", "running", "over"}, ack : Motes \cup {NoMote}]]
    /\ listener \in Requests \cup {None} /\ heard \in BOOLEAN
    /\ version \in [Links -> Nat] /\ seen \in [Links -> Nat] /\ missed \subseteq Links
    /\ {changes, losses} \subseteq Nat

Quiet == reports = {} /\ \A m \in Motes : hung[m] \/ due[m] = 0

\* When nothing is on its way, the manager's table of a mote agrees with the mote's
\* own on every neighbor but those whose last report was overwritten by the next
\* change or by a row of a transfer, not sent, lost, overtaken, undone by the other
\* side's removal, or contradicted by a report read from a block that was refilled.
ViewMatches ==
    Quiet => \A l \in Links :
        l \in missed \/ hung[l[1]] \/ (l[2] \in view[l[1]] <=> l[2] \in Neighbors(l[1]))

\* A request the user has typed ends, acknowledged or given up: its timer does not
\* go on for ever, also when the answer is hidden from it by another listener.
RequestsEnd == \A r \in Requests : []<>(transaction[r].step # "running")

\* The transfer of a table ends, unless the request came twice and left a timer
\* without a handle.
TransfersEnd == \A m \in Asked : []<>(~latest[m] \/ orphans[m] > 0 \/ hung[m])

=============================================================================
