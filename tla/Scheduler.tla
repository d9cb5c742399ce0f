----------------------------- MODULE Scheduler ------------------------------
(***************************************************************************)
(* kernel/openos/scheduler.c: a fixed array of task containers threaded    *)
(* into a list by priority.  scheduler_push_task runs with interrupts      *)
(* disabled, from interrupt handlers and from tasks; the loop of           *)
(* scheduler_start takes the head, runs it and frees its container with    *)
(* interrupts enabled, so a push may come between any two of its memory    *)
(* accesses, which are a step each here.  A task is its priority.          *)
(***************************************************************************)
EXTENDS Naturals, FiniteSets, FiniteSetsExt

CONSTANTS
    Depth,       \* TASK_LIST_DEPTH
    MaxPrio,     \* TASKPRIO_MAX - 1
    MaxListed    \* bound: tasks that wait in the list at once

ASSUME SchedulerAssumption ==
    /\ Depth \in Nat \ {0} /\ MaxPrio \in Nat \ {0}
    /\ MaxListed \in 1 .. (Depth - 1)

VARIABLES
    taskBuf,      \* the containers
    task_list,    \* head of the list
    pc,           \* what the loop does next
    pThisTask,
    loaded,       \* pThisTask->next, read and not yet stored in task_list
    raced         \* a push has come while the loop was at work on its own links

vars == <<taskBuf, task_list, pc, pThisTask, loaded, raced>>

Containers == 1 .. Depth
NoTask == 0

\* prio 0 is TASKPRIO_NONE.
Container == [full : BOOLEAN, prio : 0 .. MaxPrio, next : Containers \cup {NoTask}]

EmptyContainer == [full |-> FALSE, prio |-> 0, next |-> NoTask]

\* The k-th container of the list.
Hop[k \in Nat] ==
    IF k = 0 THEN task_list
    ELSE IF Hop[k - 1] = NoTask THEN NoTask ELSE taskBuf[Hop[k - 1]].next

Listed == {Hop[k] : k \in 0 .. Depth} \ {NoTask}

-----------------------------------------------------------------------------
\* scheduler_init
Init ==
    /\ taskBuf = [c \in Containers |-> EmptyContainer]
    /\ task_list = NoTask
    /\ pc = "test" /\ pThisTask = NoTask /\ loaded = NoTask
    /\ raced = FALSE

\* Mutant: the search may stop one container after the last.
FreeContainersLoose == {c \in 1 .. (Depth + 1) : c \in Containers => ~taskBuf[c].full}

FreeContainers == {c \in Containers : ~taskBuf[c].full}

\* The walk for the place of a task of this priority passes the container c: a
\* task goes before those of its own priority.
Passes(c, prio) == c # NoTask /\ taskBuf[c].prio < prio

\* Where the walk stops: after this many containers.
Place(prio) == Min({k \in 0 .. Depth : ~Passes(Hop[k], prio)})

\* Mutant: the new container is not linked to the rest of the list.
InsertLast(c, prio) ==
    LET k == Place(prio)
        item == [full |-> TRUE, prio |-> prio, next |-> NoTask]
    IN  IF k = 0 THEN task_list' = c /\ taskBuf' = [taskBuf EXCEPT ![c] = item]
        ELSE /\ taskBuf' = [taskBuf EXCEPT ![c] = item, ![Hop[k - 1]].next = c]
             /\ UNCHANGED task_list

\* Mutant: *taskListWalker is written before it is read, and the container is
\* linked to itself.
InsertSwapped(c, prio) ==
    LET k == Place(prio)
        item == [full |-> TRUE, prio |-> prio, next |-> c]
    IN  IF k = 0 THEN task_list' = c /\ taskBuf' = [taskBuf EXCEPT ![c] = item]
        ELSE /\ taskBuf' = [taskBuf EXCEPT ![c] = item, ![Hop[k - 1]].next = c]
             /\ UNCHANGED task_list

Insert(c, prio) ==
    LET k == Place(prio)
        item == [full |-> TRUE, prio |-> prio, next |-> Hop[k]]
    IN  IF k = 0 THEN task_list' = c /\ taskBuf' = [taskBuf EXCEPT ![c] = item]
        ELSE /\ taskBuf' = [taskBuf EXCEPT ![c] = item, ![Hop[k - 1]].next = c]
             /\ UNCHANGED task_list

\* The loop has read the list and not yet taken the task out of it, or has given
\* up the container and still writes to it.
InWindow == pc \in {"load", "store", "clear_prio", "clear_next"}

\* scheduler_push_task
PushTask(prio) ==
    /\ Cardinality(Listed) < MaxListed
    /\ FreeContainers # {}
    /\ Insert(Min(FreeContainers), prio)
    /\ raced' = (raced \/ InWindow)
    /\ UNCHANGED <<pc, pThisTask, loaded>>

\* No container is free: board_reset, and the mote starts again.
PushOverflow ==
    /\ Cardinality(Listed) < MaxListed
    /\ FreeContainers = {}
    /\ taskBuf' = [c \in Containers |-> EmptyContainer]
    /\ task_list' = NoTask
    /\ pc' = "test" /\ pThisTask' = NoTask /\ loaded' = NoTask
    /\ raced' = FALSE

-----------------------------------------------------------------------------
\* while (task_list != NULL) pThisTask = task_list; with an empty list the board
\* sleeps until an interrupt.
TakeHead ==
    /\ pc = "test" /\ task_list # NoTask
    /\ pThisTask' = task_list
    /\ pc' = "load"
    /\ UNCHANGED <<taskBuf, task_list, loaded, raced>>

\* task_list = pThisTask->next, a load ...
LoadNext ==
    /\ pc = "load"
    /\ loaded' = taskBuf[pThisTask].next
    /\ pc' = "store"
    /\ UNCHANGED <<taskBuf, task_list, pThisTask, raced>>

\* Mutant: the container is given up before the task has run.
StoreHeadFreeing ==
    /\ pc = "store"
    /\ task_list' = loaded
    /\ taskBuf' = [taskBuf EXCEPT ![pThisTask].full = FALSE]
    /\ loaded' = NoTask
    /\ pc' = "run"
    /\ UNCHANGED <<pThisTask, raced>>

\* ... and a store.
StoreHead ==
    /\ pc = "store"
    /\ task_list' = loaded
    /\ loaded' = NoTask
    /\ pc' = "run"
    /\ UNCHANGED <<taskBuf, pThisTask, raced>>

\* pThisTask->cb(); what the task pushes are pushes while it runs.
RunTask ==
    /\ pc = "run"
    /\ pc' = "clear_cb"
    /\ UNCHANGED <<taskBuf, task_list, pThisTask, loaded, raced>>

\* The container is free for a push as soon as its cb is NULL ...
ClearCb ==
    /\ pc = "clear_cb"
    /\ taskBuf' = [taskBuf EXCEPT ![pThisTask].full = FALSE]
    /\ pc' = "clear_prio"
    /\ UNCHANGED <<task_list, pThisTask, loaded, raced>>

\* ... but the loop still writes its priority and its link.
ClearPrio ==
    /\ pc = "clear_prio"
    /\ taskBuf' = [taskBuf EXCEPT ![pThisTask].prio = 0]
    /\ pc' = "clear_next"
    /\ UNCHANGED <<task_list, pThisTask, loaded, raced>>

ClearNext ==
    /\ pc = "clear_next"
    /\ taskBuf' = [taskBuf EXCEPT ![pThisTask].next = NoTask]
    /\ pThisTask' = NoTask
    /\ pc' = "test"
    /\ UNCHANGED <<task_list, loaded, raced>>

\* scheduler_start
Loop ==
    \/ TakeHead \/ LoadNext \/ StoreHead
    \/ RunTask
    \/ ClearCb \/ ClearPrio \/ ClearNext

Next == Loop \/ PushOverflow \/ \E prio \in 1 .. MaxPrio : PushTask(prio)

Spec == Init /\ [][Next]_vars

-----------------------------------------------------------------------------
SchedulerTypeOK ==
    /\ taskBuf \in [Containers -> Container]
    /\ {task_list, pThisTask, loaded} \subseteq Containers \cup {NoTask}
    /\ pc \in {"test", "load", "store", "run", "clear_cb", "clear_prio", "clear_next"}
    /\ raced \in BOOLEAN

\* The task that runs is a task (cb is not NULL), and it is out of the list: it
\* runs once for each time it was pushed.
RunsOnce ==
    pc \in {"run", "clear_cb"} => taskBuf[pThisTask].full /\ pThisTask \notin Listed

\* As long as no push has come in the windows of the loop, every container in use
\* is in the list or holds the task that runs.
NothingLost ==
    ~raced => \A c \in Containers :
        taskBuf[c].full => c \in Listed \/ (c = pThisTask /\ pc \in {"run", "clear_cb"})

\* Whatever push comes between whatever two steps of the loop, the list ends: the
\* walk of scheduler_push_task, interrupts disabled, does not go round for ever.
\* As long as no push has come in the windows, the list is in order of priority,
\* so that the loop always takes one of the most urgent tasks.
ListSorted ==
    /\ Hop[Depth] = NoTask
    /\ ~raced => \A c \in Listed : taskBuf[c].next # NoTask =>
                     taskBuf[c].prio <= taskBuf[taskBuf[c].next].prio

=============================================================================
