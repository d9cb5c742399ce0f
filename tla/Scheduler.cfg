CONSTANTS
    Depth = 4
    MaxPrio = 3
    MaxListed = 3
SPECIFICATION Spec
INVARIANTS SchedulerTypeOK ListSorted RunsOnce NothingLost
