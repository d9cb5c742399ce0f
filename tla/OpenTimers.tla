----------------------------- MODULE OpenTimers -----------------------------
(***************************************************************************)
(* drivers/common/opentimers.c over the compare register of the OpenMote   *)
(* (bsp/boards/OpenMote-CC2538/bsp_timer.c), with three of the modules     *)
(* that use it: 6top's timeout, which is stopped and restarted by its      *)
(* handle, RPL's periodic timer, whose period is replaced, and the         *)
(* reports of table_update, each of which starts a timer of its own.       *)
(* Calls come from tasks, with interrupts enabled: opentimers_start is cut *)
(* where the timer interrupt makes a difference.  A callback pushes a task *)
(* and touches no timer.                                                   *)
(***************************************************************************)
EXTENDS Integers, FiniteSets, FiniteSetsExt

CONSTANTS
    NumTimers,   \* MAX_NUM_TIMERS
    ClockSize,   \* values of the counter, 2^32
    Timeout,     \* SIX2SIX_TIMEOUT_MS, in ticks
    DioPeriods,  \* periods RPL draws
    WaitPeriod,  \* WAITPERIOD of table_update
    MaxCalls     \* bound: calls of 6top, RPL and table_update after the start

MaxTicks == ClockSize - 1   \* MAX_TICKS_IN_SINGLE_CLOCK

ASSUME TimersAssumption ==
    /\ NumTimers \in Nat \ {0} /\ ClockSize \in Nat \ {0, 1}
    /\ {Timeout, WaitPeriod} \subseteq Nat \ {0}
    /\ DioPeriods \subseteq Nat \ {0} /\ DioPeriods # {}
    /\ MaxCalls \in Nat

VARIABLES
    timersBuf,
    running,
    currentTimeout,
    starting,       \* the call of opentimers_start under way
    handle,         \* the timer ids 6top and RPL keep
    \* bsp_timer and its hardware
    counter, lastCompare, initiated, compare, enabled, pending,
    \* history
    expected,       \* <<module, id>>: a timer armed and not yet fired or stopped
    clash,          \* a module has used a timer that had become another's, or an
                    \* interrupt has hit a timer half started
    calls

driver == <<timersBuf, running, currentTimeout>>
bsp == <<counter, lastCompare, initiated, compare, enabled, pending>>
vars == <<driver, starting, handle, bsp, expected, clash, calls>>

Ids == 1 .. NumTimers
Modules == {"sixtop", "rpl", "update"}
NoModule == "none"
NoId == 0
Ticks == 0 .. MaxTicks

\* opentimers_t; the callback is the module whose it is, NULL none's.
Timer == [isrunning : BOOLEAN, periodic : BOOLEAN, hasExpired : BOOLEAN,
          callback : Modules \cup {NoModule}, period : Nat,
          wraps_remaining : Nat, ticks_remaining : Ticks]

Idle == [step |-> "none", module |-> NoModule, id |-> NoId]

-----------------------------------------------------------------------------
\* opentimers_init and bsp_timer_init
Init ==
    /\ timersBuf = [i \in Ids |->
           [isrunning |-> FALSE, periodic |-> FALSE, hasExpired |-> FALSE,
            callback |-> NoModule, period |-> 0,
            wraps_remaining |-> 0, ticks_remaining |-> 0]]
    /\ running = FALSE /\ currentTimeout = 0
    /\ starting = Idle
    /\ handle = [m \in {"sixtop", "rpl"} |-> NoId]
    /\ counter = 0 /\ lastCompare = 0 /\ initiated = FALSE
    /\ compare = 0 /\ enabled = FALSE /\ pending = FALSE
    /\ expected = {} /\ clash = FALSE /\ calls = 0

\* Mutant: the ticks of a long period are not cut to one turn of the clock.
WithPeriodUncut(t, duration) ==
    [t EXCEPT !.period = duration, !.ticks_remaining = duration,
              !.wraps_remaining = duration \div MaxTicks]

\* period_ticks, wraps_remaining and ticks_remaining for a duration.
WithPeriod(t, duration) ==
    [t EXCEPT !.period = duration,
              !.wraps_remaining = duration \div MaxTicks,
              !.ticks_remaining = IF duration \div MaxTicks = 0 THEN duration ELSE MaxTicks]

\* bsp_timer_scheduleIn: relative to the last compare, which lies ahead when a
\* timer is pending; the difference, unsigned, is then large and the interrupt is
\* set off at once.
ScheduleIn(delay, started) ==
    LET last == IF started THEN lastCompare ELSE counter
        late == delay < (counter - last) % ClockSize
    IN  /\ initiated' = TRUE
        /\ enabled' = TRUE
        /\ IF late THEN /\ pending' = TRUE /\ lastCompare' = counter
                        /\ UNCHANGED compare
                   ELSE /\ compare' = (last + delay + 1) % ClockSize
                        /\ lastCompare' = (last + delay + 1) % ClockSize
                        /\ pending' = FALSE

-----------------------------------------------------------------------------
FreeIds == {i \in Ids : ~timersBuf[i].isrunning}

\* opentimers_start, first part: a timer that does not run is taken and its fields
\* are written up to isrunning.
StartTake(m, duration, periodic) ==
    /\ starting = Idle
    /\ FreeIds # {}
    /\ LET i == Min(FreeIds) IN
         /\ timersBuf' = [timersBuf EXCEPT ![i] =
                [WithPeriod(@, duration) EXCEPT !.periodic = periodic, !.isrunning = TRUE]]
         /\ starting' = [step |-> "fill", module |-> m, id |-> i]
    /\ UNCHANGED <<running, currentTimeout, bsp, expected, clash>>

\* ... callback and hasExpired, and the test whether it is the earliest ...
StartFill ==
    LET i == starting.id
        earliest == ~running \/ timersBuf[i].ticks_remaining < currentTimeout IN
    /\ starting.step = "fill"
    /\ timersBuf' = [timersBuf EXCEPT ![i].callback = starting.module,
                                      ![i].hasExpired = FALSE]
    /\ expected' = expected \cup {<<starting.module, i>>}
    /\ IF earliest
       THEN /\ currentTimeout' = timersBuf[i].ticks_remaining
            /\ ScheduleIn(timersBuf[i].ticks_remaining, running /\ initiated)
            /\ UNCHANGED counter
       ELSE UNCHANGED <<currentTimeout, bsp>>
    /\ starting' = [starting EXCEPT !.step = "run"]
    /\ UNCHANGED <<running, handle, clash, calls>>

\* ... running=TRUE, whatever the interrupt has found since, and the handle.
StartRun ==
    /\ starting.step = "run"
    /\ running' = TRUE
    /\ handle' = [m \in DOMAIN handle |-> IF m = starting.module THEN starting.id ELSE handle[m]]
    /\ starting' = Idle
    /\ UNCHANGED <<timersBuf, currentTimeout, bsp, expected, clash, calls>>

-----------------------------------------------------------------------------
Call == calls < MaxCalls /\ calls' = calls + 1

\* sixtop_init and icmpv6rpl_init
StartSixtop ==
    /\ handle["sixtop"] = NoId /\ UNCHANGED <<handle, calls>>
    /\ StartTake("sixtop", Timeout, FALSE)

StartRpl ==
    /\ handle["sixtop"] # NoId /\ handle["rpl"] = NoId /\ UNCHANGED <<handle, calls>>
    /\ \E p \in DioPeriods : StartTake("rpl", p, TRUE)

Booted == starting = Idle /\ handle["rpl"] # NoId

\* update(), on a change of the neighbor table; the handle is overwritten and
\* never used again.
StartUpdate ==
    /\ Booted /\ Call
    /\ StartTake("update", WaitPeriod, FALSE)
    /\ UNCHANGED handle

\* With every timer taken, TOO_MANY_TIMERS_ERROR, which nobody looks at.
StartFails ==
    /\ Booted /\ Call /\ FreeIds = {}
    /\ UNCHANGED <<driver, starting, handle, bsp, expected, clash>>

\* icmpv6rpl_timer_DIO_task: opentimers_setPeriod alone; the compare stays.
SetPeriod ==
    /\ Booted /\ Call
    /\ \E p \in DioPeriods :
         timersBuf' = [timersBuf EXCEPT ![handle["rpl"]] = WithPeriod(@, p)]
    /\ UNCHANGED <<running, currentTimeout, starting, handle, bsp, expected, clash>>

\* opentimers_stop
Stop(i) == timersBuf' = [timersBuf EXCEPT ![i].isrunning = FALSE]

\* sixtop_notifyReceiveLinkResponse stops the timeout.
StopTimeout ==
    LET i == handle["sixtop"] IN
    /\ Booted /\ Call
    /\ <<"sixtop", i>> \in expected
    /\ Stop(i)
    /\ expected' = expected \ {<<"sixtop", i>>}
    /\ UNCHANGED <<running, currentTimeout, starting, handle, bsp, clash>>

\* Mutant: a restart is a setPeriod.
RestartNothing(t) == t

\* opentimers_restart
Restart(t) == [t EXCEPT !.isrunning = TRUE]

\* sixtop_addCells and sixtop_removeCell arm the timeout: opentimers_setPeriod and
\* opentimers_restart on the handle, whoever has the timer by now.
ArmTimeout ==
    LET i == handle["sixtop"] IN
    /\ Booted /\ Call
    /\ timersBuf' = [timersBuf EXCEPT ![i] = Restart(WithPeriod(@, Timeout))]
    /\ expected' = expected \cup {<<"sixtop", i>>}
    /\ clash' = (clash \/ timersBuf[i].callback # "sixtop")
    /\ UNCHANGED <<running, currentTimeout, starting, handle, bsp>>

-----------------------------------------------------------------------------
\* Steps 1 and 2 of opentimers_timer_callback for one timer: count down, wrap,
\* expire; call back, and reload or stop.
Expires(t) ==
    t.isrunning /\ currentTimeout >= t.ticks_remaining /\ t.wraps_remaining = 0

\* Mutant: a periodic timer is stopped as the others are.
ReloadedOnce(t) == [t EXCEPT !.isrunning = FALSE]

Reloaded(t) ==
    IF t.periodic THEN WithPeriod(t, t.period) ELSE [t EXCEPT !.isrunning = FALSE]

Counted(t) ==
    IF ~t.isrunning THEN t
    ELSE IF Expires(t) THEN Reloaded(t)
    ELSE IF currentTimeout >= t.ticks_remaining
    THEN LET w == t.wraps_remaining - 1 IN
         [t EXCEPT !.wraps_remaining = w,
                   !.ticks_remaining = IF w = 0 THEN t.period % MaxTicks ELSE MaxTicks]
    ELSE [t EXCEPT !.ticks_remaining = @ - currentTimeout]

\* opentimers_timer_callback, the interrupt.
TimerInterrupt ==
    LET fired == {i \in Ids : Expires(timersBuf[i])}
        after == [i \in Ids |-> Counted(timersBuf[i])]
        left == {after[i].ticks_remaining : i \in {j \in Ids : after[j].isrunning}} IN
    /\ pending
    /\ timersBuf' = after
    /\ IF left # {}
       THEN /\ currentTimeout' = Min(left)
            /\ ScheduleIn(Min(left), initiated)
            /\ UNCHANGED <<running, counter>>
       ELSE /\ running' = FALSE /\ pending' = FALSE
            /\ UNCHANGED <<currentTimeout, counter, lastCompare, initiated, compare, enabled>>
    /\ expected' = {x \in expected :
           ~(x[2] \in fired /\ x[1] = timersBuf[x[2]].callback /\ ~timersBuf[x[2]].periodic)}
    /\ clash' = (clash \/ (starting.step = "fill" /\ starting.id \in fired))
    /\ UNCHANGED <<starting, handle, calls>>

\* The counter runs; an interrupt is served before the next tick.
Tick ==
    /\ ~pending
    /\ counter' = (counter + 1) % ClockSize
    /\ pending' = (enabled /\ counter' = compare)
    /\ UNCHANGED <<driver, starting, handle, lastCompare, initiated, compare, enabled,
                   expected, clash, calls>>

Task ==
    \/ StartSixtop \/ StartRpl \/ StartUpdate \/ StartFails
    \/ StartFill \/ StartRun
    \/ SetPeriod \/ StopTimeout \/ ArmTimeout

Next == Task \/ TimerInterrupt \/ Tick

\* The clock runs, the interrupt is served, and a call that is begun goes on.
Spec ==
    /\ Init /\ [][Next]_vars
    /\ WF_vars(Tick) /\ WF_vars(TimerInterrupt) /\ WF_vars(StartFill \/ StartRun)

-----------------------------------------------------------------------------
TimersTypeOK ==
    /\ timersBuf \in [Ids -> Timer]
    /\ running \in BOOLEAN /\ currentTimeout \in Ticks
    /\ starting.step \in {"none", "fill", "run"}
    /\ starting.module \in Modules \cup {NoModule} /\ starting.id \in Ids \cup {NoId}
    /\ handle \in [{"sixtop", "rpl"} -> Ids \cup {NoId}]
    /\ {counter, lastCompare, compare} \subseteq 0 .. (ClockSize - 1)
    /\ {initiated, enabled, pending, clash} \subseteq BOOLEAN
    /\ expected \subseteq Modules \X Ids /\ calls \in Nat

\* Every timer a module counts on runs and has that module's callback: as long as
\* no handle outlives its timer and no interrupt hits a timer half started, stops,
\* restarts and expirations never take a timer away from its owner.
TimersKept ==
    ~clash => \A x \in expected :
        timersBuf[x[2]].isrunning /\ timersBuf[x[2]].callback = x[1]

\* An armed one-shot timer fires or is stopped: none is forgotten by the one
\* compare register, whatever is started, stopped or changed meanwhile.
ArmedTimersFire ==
    \A m \in {"sixtop", "update"} : \A i \in Ids :
        <<m, i>> \in expected ~> (<<m, i>> \notin expected \/ clash)
=============================================================================
