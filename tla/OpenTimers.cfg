CONSTANTS
    NumTimers = 3
    ClockSize = 8
    Timeout = 4
    DioPeriods = {3, 6}
    WaitPeriod = 9
    MaxCalls = 3
SPECIFICATION Spec
INVARIANTS TimersTypeOK TimersKept
PROPERTY ArmedTimersFire
