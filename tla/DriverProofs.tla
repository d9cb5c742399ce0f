---------------------------- MODULE DriverProofs ----------------------------
(***************************************************************************)
(* The two drivers of drivers/common that every module stands on.          *)
(*                                                                         *)
(* opentimers.c, for every number of timers, clock and set of periods: the *)
(* fields of the timers and of the compare register stay within one turn   *)
(* of the clock, and no module loses a timer it counts on unless a handle  *)
(* has outlived its timer or an interrupt has hit a timer half started.    *)
(*                                                                         *)
(* openserial.c, for every size of the buffers, frames and slots, every    *)
(* slotframe and every list of commands: what either side of the serial    *)
(* line has sent is received once and in order, or is under way, or has    *)
(* been hit by one of the events that Serial counts.                       *)
(***************************************************************************)
EXTENDS OpenTimers, Serial, SequenceTheorems, WellFoundedInduction, TLAPS

-----------------------------------------------------------------------------
LEMMA MinIsMember ==
    ASSUME NEW S, S \subseteq Nat, S # {}
    PROVE  Min(S) \in S
<1>1. IsWellFoundedOn(OpToRel(<, Nat), Nat)
  BY NatLessThanWellFounded, Zenon
<1>2. PICK m \in S : \A y \in S : ~(<<y, m>> \in OpToRel(<, Nat))
  BY <1>1, WFMin, Zenon
<1>3. \A y \in S : ~(y < m)
  BY <1>2, Zenon DEF OpToRel
<1>4. \A y \in S : m =< y
  BY <1>3, SMT
<1> QED BY <1>4, Zenon DEF Min

-----------------------------------------------------------------------------
(* The inductive invariant: a timer that is being started belongs to nobody,   *)
(* and the handles are handed out in the order of the start.                  *)

StartingOK ==
    /\ starting \in [step : {"none", "fill", "run"}, module : Modules \cup {NoModule},
                     id : Ids \cup {NoId}]
    /\ starting.step # "none" => starting.module \in Modules /\ starting.id \in Ids
    /\ starting.step # "none" /\ starting.module # "sixtop" => handle["sixtop"] # NoId
    /\ handle["rpl"] # NoId => handle["sixtop"] # NoId
    /\ starting.step = "fill" /\ ~clash =>
          timersBuf[starting.id].isrunning /\ \A x \in expected : x[2] # starting.id

TimersInv == TimersTypeOK /\ StartingOK /\ TimersKept

LEMMA Clock ==
    /\ ClockSize \in Nat /\ MaxTicks \in Nat /\ MaxTicks > 0 /\ MaxTicks = ClockSize - 1
    /\ Ids \subseteq Nat /\ NoId \notin Ids
    /\ Timeout \in Nat /\ WaitPeriod \in Nat /\ DioPeriods \subseteq Nat
BY TimersAssumption DEF MaxTicks, Ids, NoId

LEMMA WithPeriodTimer ==
    ASSUME NEW t \in Timer, NEW duration \in Nat
    PROVE  /\ WithPeriod(t, duration) \in Timer
           /\ WithPeriod(t, duration).isrunning = t.isrunning
           /\ WithPeriod(t, duration).callback = t.callback
<1>1. duration \div MaxTicks \in Nat
  BY Clock
<1>2. duration \div MaxTicks = 0 => duration < MaxTicks
  BY Clock
<1>3. (IF duration \div MaxTicks = 0 THEN duration ELSE MaxTicks) \in Ticks
  BY <1>2, Clock DEF Ticks
<1> QED BY <1>1, <1>3 DEF WithPeriod, Timer

LEMMA ScheduleInType ==
    ASSUME TimersTypeOK, NEW delay \in Ticks, NEW started \in BOOLEAN, ScheduleIn(delay, started)
    PROVE  /\ {lastCompare', compare'} \subseteq 0 .. (ClockSize - 1)
           /\ {initiated', enabled', pending'} \subseteq BOOLEAN
<1> DEFINE last == IF started THEN lastCompare ELSE counter
<1>1. last \in Nat /\ delay \in Nat /\ last + delay + 1 \in Nat
  BY Clock DEF TimersTypeOK, Ticks
<1> HIDE DEF last
<1>2. (last + delay + 1) % ClockSize \in 0 .. (ClockSize - 1)
  BY <1>1, Clock
<1>3. \/ pending' = TRUE /\ lastCompare' = counter /\ compare' = compare
      \/ /\ compare' = (last + delay + 1) % ClockSize
         /\ lastCompare' = (last + delay + 1) % ClockSize
         /\ pending' = FALSE
  BY DEF ScheduleIn, last
<1>4. initiated' = TRUE /\ enabled' = TRUE
  BY DEF ScheduleIn
<1> QED BY <1>2, <1>3, <1>4 DEF TimersTypeOK

\* What the timer interrupt makes of one timer.
LEMMA CountedTimer ==
    ASSUME NEW t \in Timer, currentTimeout \in Ticks
    PROVE  /\ Counted(t) \in Timer /\ Counted(t).callback = t.callback
           /\ t.isrunning => (Counted(t).isrunning <=> ~Expires(t) \/ t.periodic)
<1>1. /\ t.isrunning \in BOOLEAN /\ t.period \in Nat /\ t.wraps_remaining \in Nat
      /\ t.ticks_remaining \in Nat /\ t.ticks_remaining \in Ticks /\ currentTimeout \in Nat
  BY Clock DEF Timer, Ticks
<1>2. CASE ~t.isrunning
  BY <1>2 DEF Counted
<1>3. CASE t.isrunning /\ Expires(t)
  <2>1. CASE t.periodic
    <3>1. Counted(t) = WithPeriod(t, t.period)
      BY <1>3, <2>1 DEF Counted, Reloaded
    <3> QED BY <1>1, <1>3, <2>1, <3>1, WithPeriodTimer
  <2>2. CASE ~t.periodic
    <3>1. Counted(t) = [t EXCEPT !.isrunning = FALSE]
      BY <1>3, <2>2 DEF Counted, Reloaded
    <3> QED BY <1>3, <2>2, <3>1 DEF Timer
  <2> QED BY <2>1, <2>2
<1>4. CASE t.isrunning /\ ~Expires(t) /\ currentTimeout >= t.ticks_remaining
  <2> DEFINE w == t.wraps_remaining - 1
             n == IF w = 0 THEN t.period % MaxTicks ELSE MaxTicks
  <2>1. w \in Nat
    BY <1>1, <1>4 DEF Expires
  <2>2. n \in Ticks
    BY <1>1, Clock DEF Ticks
  <2>3. Counted(t) = [t EXCEPT !.wraps_remaining = w, !.ticks_remaining = n]
    BY <1>4 DEF Counted
  <2> HIDE DEF w, n
  <2> QED BY <1>4, <2>1, <2>2, <2>3 DEF Timer
<1>5. CASE t.isrunning /\ ~Expires(t) /\ ~(currentTimeout >= t.ticks_remaining)
  <2>1. Counted(t) = [t EXCEPT !.ticks_remaining = t.ticks_remaining - currentTimeout]
    BY <1>5 DEF Counted
  <2>2. t.ticks_remaining - currentTimeout \in Ticks
    BY <1>1, <1>5, Clock DEF Ticks
  <2> QED BY <1>5, <2>1, <2>2 DEF Timer
<1> QED BY <1>2, <1>3, <1>4, <1>5

-----------------------------------------------------------------------------
(* opentimers_start. *)

LEMMA StartTakeKeeps ==
    ASSUME TimersInv, NEW m \in Modules, NEW duration \in Nat, NEW periodic \in BOOLEAN,
           StartTake(m, duration, periodic), UNCHANGED handle, calls' \in Nat,
           m # "sixtop" => handle["sixtop"] # NoId
    PROVE  TimersInv'
<1>1. PICK i \in Ids : i = Min(FreeIds) /\ ~timersBuf[i].isrunning
  <2>1. FreeIds # {} /\ FreeIds \subseteq Nat
    BY Clock DEF StartTake, FreeIds
  <2>2. Min(FreeIds) \in FreeIds
    BY <2>1, MinIsMember
  <2> QED BY <2>2 DEF FreeIds
<1> DEFINE t == [WithPeriod(timersBuf[i], duration) EXCEPT !.periodic = periodic, !.isrunning = TRUE]
<1>2. /\ timersBuf' = [timersBuf EXCEPT ![i] = t]
      /\ starting' = [step |-> "fill", module |-> m, id |-> i]
      /\ UNCHANGED <<running, currentTimeout, bsp, expected, clash>>
      /\ timersBuf \in [Ids -> Timer]
  BY <1>1 DEF StartTake, TimersInv, TimersTypeOK
<1>3. t \in Timer /\ t.isrunning
  <2>1. WithPeriod(timersBuf[i], duration) \in Timer
    BY <1>2, WithPeriodTimer
  <2> QED BY <2>1 DEF Timer
<1> HIDE DEF t
<1>4. timersBuf' \in [Ids -> Timer]
  BY <1>2, <1>3
<1>5. \A j \in Ids : timersBuf'[j] = IF j = i THEN t ELSE timersBuf[j]
  BY <1>2
<1>6. TimersTypeOK'
  BY <1>1, <1>2, <1>4 DEF TimersInv, TimersTypeOK, bsp
<1>7. ~clash => \A x \in expected : x[2] # i /\ x[2] \in Ids
  BY <1>1 DEF TimersInv, TimersTypeOK, TimersKept
<1>8. TimersKept'
  BY <1>2, <1>5, <1>7 DEF TimersInv, TimersKept
<1>9. StartingOK'
  BY <1>1, <1>2, <1>3, <1>5, <1>7 DEF TimersInv, StartingOK
<1> QED BY <1>6, <1>8, <1>9 DEF TimersInv

LEMMA StartFillKeeps ==
    ASSUME TimersInv, StartFill
    PROVE  TimersInv'
<1>1. PICK i \in Ids : i = starting.id
  BY DEF StartFill, TimersInv, StartingOK
<1>2. /\ starting.step = "fill" /\ starting.module \in Modules
      /\ timersBuf' = [timersBuf EXCEPT ![i].callback = starting.module, ![i].hasExpired = FALSE]
      /\ expected' = expected \cup {<<starting.module, i>>}
      /\ starting' = [starting EXCEPT !.step = "run"]
      /\ UNCHANGED <<running, handle, clash, calls>>
      /\ timersBuf \in [Ids -> Timer] /\ running \in BOOLEAN /\ initiated \in BOOLEAN
      /\ expected \subseteq Modules \X Ids
  BY <1>1 DEF StartFill, TimersInv, TimersTypeOK, StartingOK
<1>3. /\ timersBuf' \in [Ids -> Timer]
      /\ timersBuf'[i].callback = starting.module
      /\ \A j \in Ids : /\ timersBuf'[j].isrunning = timersBuf[j].isrunning
                        /\ j # i => timersBuf'[j].callback = timersBuf[j].callback
  BY <1>2 DEF Timer
<1>4. /\ currentTimeout' \in Ticks /\ counter' \in 0 .. (ClockSize - 1)
      /\ {lastCompare', compare'} \subseteq 0 .. (ClockSize - 1)
      /\ {initiated', enabled', pending'} \subseteq BOOLEAN
  <2>1. timersBuf[i].ticks_remaining \in Ticks
    BY <1>2 DEF Timer
  <2>2. CASE ~running \/ timersBuf[i].ticks_remaining < currentTimeout
    <3>1. /\ currentTimeout' = timersBuf[i].ticks_remaining
          /\ ScheduleIn(timersBuf[i].ticks_remaining, running /\ initiated)
          /\ UNCHANGED counter
      BY <1>1, <2>2 DEF StartFill
    <3>2. (running /\ initiated) \in BOOLEAN
      BY <1>2
    <3> QED BY <2>1, <3>1, <3>2, ScheduleInType DEF TimersInv, TimersTypeOK
  <2>3. CASE ~(~running \/ timersBuf[i].ticks_remaining < currentTimeout)
    <3>1. UNCHANGED <<currentTimeout, bsp>>
      BY <1>1, <2>3 DEF StartFill
    <3> QED BY <3>1 DEF bsp, TimersInv, TimersTypeOK
  <2> QED BY <2>2, <2>3
<1>5. /\ starting' \in [step : {"none", "fill", "run"}, module : Modules \cup {NoModule},
                        id : Ids \cup {NoId}]
      /\ starting'.step = "run" /\ starting'.module = starting.module /\ starting'.id = i
  BY <1>1, <1>2 DEF TimersInv, StartingOK
<1>6. expected' \subseteq Modules \X Ids
  BY <1>2
<1>7. TimersTypeOK'
  BY <1>1, <1>2, <1>3, <1>4, <1>5, <1>6 DEF TimersInv, TimersTypeOK
<1>8. StartingOK'
  BY <1>1, <1>2, <1>5 DEF TimersInv, StartingOK
<1>9. TimersKept'
  <2> SUFFICES ASSUME ~clash, NEW x \in expected'
               PROVE  timersBuf'[x[2]].isrunning /\ timersBuf'[x[2]].callback = x[1]
    BY <1>2 DEF TimersKept
  <2>1. CASE x = <<starting.module, i>>
    BY <1>1, <1>2, <1>3, <2>1 DEF TimersInv, StartingOK
  <2>2. CASE x \in expected
    BY <1>1, <1>2, <1>3, <2>2 DEF TimersInv, StartingOK, TimersKept
  <2> QED BY <1>2, <2>1, <2>2
<1> QED BY <1>7, <1>8, <1>9 DEF TimersInv

LEMMA StartRunKeeps ==
    ASSUME TimersInv, StartRun
    PROVE  TimersInv'
<1>1. /\ starting.step = "run" /\ starting.module \in Modules /\ starting.id \in Ids
      /\ running' = TRUE /\ starting' = Idle
      /\ handle' = [m \in DOMAIN handle |-> IF m = starting.module THEN starting.id ELSE handle[m]]
      /\ UNCHANGED <<timersBuf, currentTimeout, bsp, expected, clash, calls>>
      /\ handle \in [{"sixtop", "rpl"} -> Ids \cup {NoId}]
  BY DEF StartRun, TimersInv, TimersTypeOK, StartingOK
<1>2. /\ handle' \in [{"sixtop", "rpl"} -> Ids \cup {NoId}]
      /\ handle'["sixtop"] = IF starting.module = "sixtop" THEN starting.id ELSE handle["sixtop"]
      /\ handle'["rpl"] = IF starting.module = "rpl" THEN starting.id ELSE handle["rpl"]
  BY <1>1
<1>3. TimersTypeOK'
  BY <1>1, <1>2 DEF TimersInv, TimersTypeOK, Idle, bsp
<1>4. StartingOK'
  BY <1>1, <1>2, Clock DEF TimersInv, StartingOK, Idle
<1>5. TimersKept'
  BY <1>1 DEF TimersInv, TimersKept
<1> QED BY <1>3, <1>4, <1>5 DEF TimersInv

-----------------------------------------------------------------------------
(* The other calls, made while none is under way. *)

LEMMA CallKeeps ==
    ASSUME TimersInv, Booted, NEW i \in Ids, NEW t \in Timer,
           timersBuf' = [timersBuf EXCEPT ![i] = t],
           UNCHANGED <<running, currentTimeout, starting, handle, bsp>>,
           calls' \in Nat, clash' \in BOOLEAN, expected' \subseteq Modules \X Ids,
           TimersKept'
    PROVE  TimersInv'
<1>1. timersBuf' \in [Ids -> Timer]
  BY DEF TimersInv, TimersTypeOK
<1>2. TimersTypeOK'
  BY <1>1 DEF TimersInv, TimersTypeOK, bsp
<1>3. StartingOK'
  BY DEF TimersInv, StartingOK, Booted, Idle
<1> QED BY <1>2, <1>3 DEF TimersInv

LEMMA SetPeriodKeeps ==
    ASSUME TimersInv, SetPeriod
    PROVE  TimersInv'
<1>1. /\ Booted /\ calls' \in Nat
      /\ UNCHANGED <<running, currentTimeout, starting, handle, bsp, expected, clash>>
      /\ timersBuf \in [Ids -> Timer]
  BY DEF SetPeriod, Call, TimersInv, TimersTypeOK
<1>2. PICK p \in DioPeriods :
          timersBuf' = [timersBuf EXCEPT ![handle["rpl"]] = WithPeriod(@, p)]
  BY DEF SetPeriod
<1>3. PICK i \in Ids : i = handle["rpl"]
  BY <1>1 DEF Booted, TimersInv, TimersTypeOK
<1>4. timersBuf' = [timersBuf EXCEPT ![i] = WithPeriod(timersBuf[i], p)]
  BY <1>1, <1>2, <1>3
<1>5. /\ WithPeriod(timersBuf[i], p) \in Timer
      /\ WithPeriod(timersBuf[i], p).isrunning = timersBuf[i].isrunning
      /\ WithPeriod(timersBuf[i], p).callback = timersBuf[i].callback
  BY <1>1, Clock, WithPeriodTimer
<1>6. \A j \in Ids : /\ timersBuf'[j].isrunning = timersBuf[j].isrunning
                     /\ timersBuf'[j].callback = timersBuf[j].callback
  BY <1>1, <1>4, <1>5
<1>7. TimersKept'
  BY <1>1, <1>6 DEF TimersInv, TimersTypeOK, TimersKept
<1> QED BY <1>1, <1>4, <1>5, <1>7, CallKeeps DEF TimersInv, TimersTypeOK

LEMMA StopTimeoutKeeps ==
    ASSUME TimersInv, StopTimeout
    PROVE  TimersInv'
<1>1. /\ Booted /\ calls' \in Nat /\ <<"sixtop", handle["sixtop"]>> \in expected
      /\ timersBuf' = [timersBuf EXCEPT ![handle["sixtop"]].isrunning = FALSE]
      /\ expected' = expected \ {<<"sixtop", handle["sixtop"]>>}
      /\ UNCHANGED <<running, currentTimeout, starting, handle, bsp, clash>>
      /\ timersBuf \in [Ids -> Timer] /\ expected \subseteq Modules \X Ids
  BY DEF StopTimeout, Stop, Call, TimersInv, TimersTypeOK
<1>2. PICK i \in Ids : i = handle["sixtop"]
  BY <1>1
<1> DEFINE t == [timersBuf[i] EXCEPT !.isrunning = FALSE]
<1>3. timersBuf' = [timersBuf EXCEPT ![i] = t] /\ t \in Timer
  BY <1>1, <1>2 DEF Timer
<1>4. TimersKept'
  <2> SUFFICES ASSUME ~clash, NEW x \in expected, x # <<"sixtop", i>>
               PROVE  timersBuf'[x[2]].isrunning /\ timersBuf'[x[2]].callback = x[1]
    BY <1>1, <1>2 DEF TimersKept
  <2>1. PICK m \in Modules, j \in Ids : x = <<m, j>>
    BY <1>1
  <2>2. timersBuf[j].isrunning /\ timersBuf[j].callback = m /\ timersBuf[i].callback = "sixtop"
    BY <1>1, <1>2, <2>1 DEF TimersInv, TimersKept
  <2>3. j # i
    BY <2>1, <2>2
  <2>4. timersBuf'[j] = timersBuf[j]
    BY <1>3, <2>3, <1>1
  <2> QED BY <2>1, <2>2, <2>4
<1> QED BY <1>1, <1>3, <1>4, CallKeeps DEF TimersInv, TimersTypeOK

LEMMA ArmTimeoutKeeps ==
    ASSUME TimersInv, ArmTimeout
    PROVE  TimersInv'
<1>1. /\ Booted /\ calls' \in Nat
      /\ timersBuf' = [timersBuf EXCEPT ![handle["sixtop"]] = Restart(WithPeriod(@, Timeout))]
      /\ expected' = expected \cup {<<"sixtop", handle["sixtop"]>>}
      /\ clash' = (clash \/ timersBuf[handle["sixtop"]].callback # "sixtop")
      /\ UNCHANGED <<running, currentTimeout, starting, handle, bsp>>
      /\ timersBuf \in [Ids -> Timer] /\ expected \subseteq Modules \X Ids /\ clash \in BOOLEAN
  BY DEF ArmTimeout, Call, TimersInv, TimersTypeOK
<1>2. PICK i \in Ids : i = handle["sixtop"]
  BY <1>1 DEF Booted, TimersInv, TimersTypeOK, StartingOK
<1> DEFINE t == Restart(WithPeriod(timersBuf[i], Timeout))
<1>3. timersBuf' = [timersBuf EXCEPT ![i] = t]
  BY <1>1, <1>2
<1>4. t \in Timer /\ t.isrunning /\ t.callback = timersBuf[i].callback
  <2>1. /\ WithPeriod(timersBuf[i], Timeout) \in Timer
        /\ WithPeriod(timersBuf[i], Timeout).callback = timersBuf[i].callback
    BY <1>1, Clock, WithPeriodTimer
  <2> QED BY <2>1 DEF Restart, Timer
<1> HIDE DEF t
<1>5. \A j \in Ids : timersBuf'[j] = IF j = i THEN t ELSE timersBuf[j]
  BY <1>1, <1>3
<1>6. TimersKept'
  <2> SUFFICES ASSUME ~clash, timersBuf[i].callback = "sixtop", NEW x \in expected'
               PROVE  timersBuf'[x[2]].isrunning /\ timersBuf'[x[2]].callback = x[1]
    BY <1>1, <1>2 DEF TimersKept
  <2>1. CASE x = <<"sixtop", i>>
    BY <1>4, <1>5, <2>1
  <2>2. CASE x \in expected
    BY <1>1, <1>4, <1>5, <2>2 DEF TimersInv, TimersKept
  <2> QED BY <1>1, <1>2, <2>1, <2>2
<1>7. expected' \subseteq Modules \X Ids /\ clash' \in BOOLEAN
  BY <1>1, <1>2 DEF Modules
<1> QED BY <1>1, <1>3, <1>4, <1>6, <1>7, CallKeeps

-----------------------------------------------------------------------------
(* The interrupt and the clock. *)

LEMMA TimerInterruptKeeps ==
    ASSUME TimersInv, TimerInterrupt
    PROVE  TimersInv'
<1> DEFINE fired == {i \in Ids : Expires(timersBuf[i])}
           after == [i \in Ids |-> Counted(timersBuf[i])]
           left == {after[i].ticks_remaining : i \in {j \in Ids : after[j].isrunning}}
<1>1. /\ timersBuf' = after
      /\ IF left # {}
         THEN /\ currentTimeout' = Min(left)
              /\ ScheduleIn(Min(left), initiated)
              /\ UNCHANGED <<running, counter>>
         ELSE /\ running' = FALSE /\ pending' = FALSE
              /\ UNCHANGED <<currentTimeout, counter, lastCompare, initiated, compare, enabled>>
      /\ expected' = {x \in expected :
             ~(x[2] \in fired /\ x[1] = timersBuf[x[2]].callback /\ ~timersBuf[x[2]].periodic)}
      /\ clash' = (clash \/ (starting.step = "fill" /\ starting.id \in fired))
      /\ UNCHANGED <<starting, handle, calls>>
  BY DEF TimerInterrupt
<1>2. /\ timersBuf \in [Ids -> Timer] /\ currentTimeout \in Ticks /\ clash \in BOOLEAN
      /\ expected \subseteq Modules \X Ids /\ initiated \in BOOLEAN
  BY DEF TimersInv, TimersTypeOK
<1>3. /\ after \in [Ids -> Timer]
      /\ \A i \in Ids : /\ after[i].callback = timersBuf[i].callback
                        /\ timersBuf[i].isrunning =>
                              (after[i].isrunning <=> i \notin fired \/ timersBuf[i].periodic)
  BY <1>2, CountedTimer
<1> HIDE DEF after
<1>4. left \subseteq Ticks
  BY <1>3 DEF Timer
<1> HIDE DEF left
<1>5. /\ currentTimeout' \in Ticks /\ running' \in BOOLEAN
      /\ {counter', lastCompare', compare'} \subseteq 0 .. (ClockSize - 1)
      /\ {initiated', enabled', pending'} \subseteq BOOLEAN
  <2>1. CASE left # {}
    <3>1. left \subseteq Nat
      BY <1>4, Clock DEF Ticks
    <3>2. Min(left) \in Ticks
      BY <1>4, <2>1, <3>1, MinIsMember
    <3> QED BY <1>1, <1>2, <2>1, <3>2, ScheduleInType DEF TimersInv, TimersTypeOK
  <2>2. CASE left = {}
    BY <1>1, <2>2 DEF TimersInv, TimersTypeOK
  <2> QED BY <2>1, <2>2
<1>6. expected' \subseteq expected
  BY <1>1
<1>7. TimersTypeOK'
  BY <1>1, <1>2, <1>3, <1>5, <1>6 DEF TimersInv, TimersTypeOK
<1>8. StartingOK'
  <2>1. starting.step = "fill" /\ ~clash' =>
            after[starting.id].isrunning /\ \A x \in expected' : x[2] # starting.id
    BY <1>1, <1>3, <1>6 DEF TimersInv, StartingOK
  <2> QED BY <1>1, <2>1 DEF TimersInv, StartingOK
<1>9. TimersKept'
  <2> SUFFICES ASSUME ~clash, NEW x \in expected'
               PROVE  after[x[2]].isrunning /\ after[x[2]].callback = x[1]
    BY <1>1 DEF TimersKept
  <2>1. x[2] \in Ids /\ timersBuf[x[2]].isrunning /\ timersBuf[x[2]].callback = x[1]
    BY <1>2, <1>6 DEF TimersInv, TimersKept
  <2> QED BY <1>1, <1>3, <2>1
<1> QED BY <1>7, <1>8, <1>9 DEF TimersInv

LEMMA TickKeeps ==
    ASSUME TimersInv, Tick
    PROVE  TimersInv'
<1>1. /\ counter' = (counter + 1) % ClockSize /\ pending' = (enabled /\ counter' = compare)
      /\ UNCHANGED <<driver, starting, handle, lastCompare, initiated, compare, enabled,
                     expected, clash, calls>>
  BY DEF Tick
<1>2. counter' \in 0 .. (ClockSize - 1) /\ pending' \in BOOLEAN
  BY <1>1, Clock DEF TimersInv, TimersTypeOK
<1>3. TimersTypeOK'
  BY <1>1, <1>2 DEF TimersInv, TimersTypeOK, driver
<1>4. StartingOK' /\ TimersKept'
  BY <1>1 DEF TimersInv, StartingOK, TimersKept, driver
<1> QED BY <1>3, <1>4 DEF TimersInv

-----------------------------------------------------------------------------
LEMMA InitTimersInv == Init => TimersInv
<1> SUFFICES ASSUME Init
             PROVE  TimersInv
  OBVIOUS
<1>1. timersBuf \in [Ids -> Timer]
  <2>1. 0 \in Ticks
    BY Clock DEF Ticks
  <2> QED BY <2>1 DEF Init, Timer
<1>2. TimersTypeOK
  <2>1. 0 \in Ticks /\ 0 \in 0 .. (ClockSize - 1)
    BY Clock DEF Ticks
  <2> QED BY <1>1, <2>1 DEF Init, TimersTypeOK, Idle
<1>3. StartingOK /\ TimersKept
  BY DEF Init, StartingOK, TimersKept, Idle
<1> QED BY <1>2, <1>3 DEF TimersInv

LEMMA NextTimersInv == TimersInv /\ [Next]_vars => TimersInv'
<1> SUFFICES ASSUME TimersInv, [Next]_vars
             PROVE  TimersInv'
  OBVIOUS
<1>1. calls \in Nat /\ (Call => calls' \in Nat)
  BY DEF TimersInv, TimersTypeOK, Call
<1>2. CASE StartSixtop
  BY <1>1, <1>2, StartTakeKeeps, Clock DEF StartSixtop, Modules
<1>3. CASE StartRpl
  <2>1. PICK p \in DioPeriods : StartTake("rpl", p, TRUE)
    BY <1>3 DEF StartRpl
  <2> QED BY <1>1, <1>3, <2>1, StartTakeKeeps, Clock DEF StartRpl, Modules
<1>4. CASE StartUpdate
  BY <1>1, <1>4, StartTakeKeeps, Clock
     DEF StartUpdate, Modules, Booted, TimersInv, StartingOK
<1>5. CASE StartFails
  BY <1>1, <1>5 DEF StartFails, driver, bsp, TimersInv, TimersTypeOK, StartingOK, TimersKept
<1>6. CASE UNCHANGED vars
  BY <1>6 DEF vars, driver, bsp, TimersInv, TimersTypeOK, StartingOK, TimersKept
<1> QED
  BY <1>2, <1>3, <1>4, <1>5, <1>6, StartFillKeeps, StartRunKeeps, SetPeriodKeeps,
     StopTimeoutKeeps, ArmTimeoutKeeps, TimerInterruptKeeps, TickKeeps DEF Next, Task

\* The inductive invariant of the timers holds in every reachable state.
THEOREM TimersInvariant == Spec => []TimersInv
<1> QED BY InitTimersInv, NextTimersInv, PTL DEF Spec

\* The remaining ticks, the wraps and the compare value stay within one turn of
\* the clock, whatever periods are drawn and whenever timers start and stop.
THEOREM TimersType == Spec => []TimersTypeOK
<1>1. TimersInv => TimersTypeOK
  BY DEF TimersInv
<1> QED BY <1>1, TimersInvariant, PTL

\* As long as no handle has outlived its timer and no interrupt has hit a timer
\* half started, a timer a module counts on runs and calls back that module.
THEOREM TimersAreKept == Spec => []TimersKept
<1>1. TimersInv => TimersKept
  BY DEF TimersInv
<1> QED BY <1>1, TimersInvariant, PTL

-----------------------------------------------------------------------------
(* Bytes, frames and blocks of them.                                          *)

LEMMA Sizes ==
    /\ RingSize \in Nat /\ Body \in Nat /\ Body > 0 /\ 2 * (Body + 2) < RingSize
    /\ SlotBytes \in Nat /\ SlotBytes > 0 /\ Reports \in Nat /\ InSize \in Nat /\ InSize > 1
    /\ Len(Commands) \in Nat /\ Len(Slots) \in Nat /\ Len(Slots) > 0
BY SerialAssumption

NextByte(n, k) == IF k < Body THEN <<n, k + 1>> ELSE Flag
Follows(x, y) == IF x = Flag THEN y = Flag \/ y[2] = 1 ELSE y = NextByte(x[1], x[2])

IsReport(x) == x[1] \in 1 .. Reports
Precedes(x, y) == IsReport(x) /\ IsReport(y) => x[1] < y[1] \/ (x[1] = y[1] /\ x[2] < y[2])
InOrder(s) == \A i, j \in DOMAIN s : i < j => Precedes(s[i], s[j])

(* What a call prints: whole frames, or nothing.                              *)
Block(s) ==
    /\ s \in Seq(Bytes) /\ Len(s) =< 2 * (Body + 2)
    /\ s # <<>> => s[1] = Flag /\ s[Len(s)] = Flag
    /\ \A i \in 1 .. Len(s) - 1 : Follows(s[i], s[i + 1])
    /\ InOrder(s)

LEMMA ByteParts ==
    ASSUME NEW x \in Bytes
    PROVE  /\ x[1] \in 0 .. Reports + 1 /\ x[2] \in 0 .. Body
           /\ x = Flag <=> x[2] = 0
           /\ x = Flag => x[1] = 0
           /\ x = <<x[1], x[2]>>
BY Sizes DEF Bytes, Flag, Status, Request

LEMMA ReportsOf ==
    ASSUME NEW s, NEW n
    PROVE  n \in ReportsIn(s) <=> n \in 1 .. Reports /\ \E i \in DOMAIN s : s[i][1] = n
BY DEF ReportsIn

LEMMA FrameShape ==
    ASSUME NEW n \in 0 .. Reports + 1
    PROVE  /\ FrameOf(n) \in Seq(Bytes) /\ Len(FrameOf(n)) = Body + 2
           /\ FrameOf(n)[1] = Flag /\ FrameOf(n)[Body + 2] = Flag
           /\ \A i \in 2 .. Body + 1 : FrameOf(n)[i] = <<n, i - 1>>
<1>1. BodyOf(n) \in Seq(Bytes) /\ Len(BodyOf(n)) = Body /\ \A i \in 1 .. Body : BodyOf(n)[i] = <<n, i>>
  <2>1. \A i \in 1 .. Body : <<n, i>> \in Bytes
    BY Sizes DEF Bytes, Status, Request
  <2> QED BY <2>1, Sizes DEF BodyOf
<1>2. <<Flag>> \in Seq(Bytes) /\ Len(<<Flag>>) = 1 /\ <<Flag>>[1] = Flag
  BY DEF Bytes
<1>3. PICK s : s = <<Flag>> \o BodyOf(n)
  OBVIOUS
<1>4. /\ s \in Seq(Bytes) /\ Len(s) = Body + 1 /\ s[1] = Flag
      /\ \A i \in 1 .. Body : s[1 + i] = <<n, i>>
  BY <1>1, <1>2, <1>3, Sizes
<1>5. FrameOf(n) = s \o <<Flag>>
  BY <1>3 DEF FrameOf
<1>6. /\ FrameOf(n) \in Seq(Bytes) /\ Len(FrameOf(n)) = Body + 2
      /\ \A i \in 1 .. Body + 1 : FrameOf(n)[i] = s[i]
      /\ FrameOf(n)[Body + 2] = Flag
  BY <1>2, <1>4, <1>5, Sizes
<1>7. ASSUME NEW i \in 2 .. Body + 1
      PROVE  FrameOf(n)[i] = <<n, i - 1>>
  <2>1. i - 1 \in 1 .. Body /\ 1 + (i - 1) = i /\ i \in 1 .. Body + 1
    BY Sizes
  <2>2. s[1 + (i - 1)] = <<n, i - 1>>
    BY <1>4, <2>1
  <2> QED BY <1>6, <2>1, <2>2
<1> QED BY <1>4, <1>6, <1>7, Sizes

LEMMA FrameFollows ==
    ASSUME NEW n \in 0 .. Reports + 1, NEW i \in 1 .. Body + 1
    PROVE  Follows(FrameOf(n)[i], FrameOf(n)[i + 1])
<1>1. PICK x, y : x = FrameOf(n)[i] /\ y = FrameOf(n)[i + 1]
  OBVIOUS
<1>2. CASE i = 1
  <2>1. x = Flag /\ y = <<n, 1>>
    BY <1>1, <1>2, FrameShape, Sizes
  <2> QED BY <1>1, <2>1 DEF Follows
<1>3. CASE i > 1
  <2>1. x = <<n, i - 1>> /\ x # Flag
    BY <1>1, <1>3, FrameShape, Sizes DEF Flag
  <2>2. y = IF i < Body + 1 THEN <<n, i>> ELSE Flag
    <3>1. CASE i < Body + 1
      <4>1. i + 1 \in 2 .. Body + 1 /\ (i + 1) - 1 = i
        BY <1>3, <3>1, Sizes
      <4>2. FrameOf(n)[i + 1] = <<n, (i + 1) - 1>>
        BY <4>1, FrameShape
      <4> QED BY <1>1, <3>1, <4>1, <4>2
    <3>2. CASE i = Body + 1
      <4>1. i + 1 = Body + 2
        BY <3>2, Sizes
      <4> QED BY <1>1, <3>2, <4>1, FrameShape, Sizes
    <3> QED BY <3>1, <3>2, Sizes
  <2>3. y = NextByte(n, i - 1)
    BY <2>2, Sizes DEF NextByte
  <2> QED BY <1>1, <2>1, <2>3 DEF Follows
<1> QED BY <1>2, <1>3

LEMMA FrameIsBlock ==
    ASSUME NEW n \in 0 .. Reports + 1
    PROVE  /\ Block(FrameOf(n)) /\ FrameOf(n)[2] = <<n, 1>>
           /\ \A m \in ReportsIn(FrameOf(n)) : m = n
<1>1. PICK s : s = FrameOf(n)
  OBVIOUS
<1>2. /\ s \in Seq(Bytes) /\ Len(s) = Body + 2 /\ s[1] = Flag /\ s[Body + 2] = Flag
      /\ \A i \in 2 .. Body + 1 : s[i] = <<n, i - 1>>
  BY <1>1, FrameShape
<1>3. DOMAIN s = 1 .. Body + 2
  BY <1>2
<1>4. \A i \in 1 .. Body + 1 : Follows(s[i], s[i + 1])
  BY <1>1, FrameFollows
<1>5. InOrder(s)
  BY <1>2, <1>3, Sizes DEF InOrder, Precedes, IsReport, Flag
<1>6. ASSUME NEW m \in ReportsIn(s)
      PROVE  m = n
  <2>1. PICK i \in 1 .. Body + 2 : s[i][1] = m /\ m \in 1 .. Reports
    BY <1>3, ReportsOf
  <2> QED BY <1>2, <2>1, Sizes DEF Flag
<1> QED BY <1>1, <1>2, <1>4, <1>5, <1>6, Sizes DEF Block

LEMMA NothingIsBlock == Block(<<>>) /\ ReportsIn(<<>>) = {}
BY Sizes DEF Block, InOrder, ReportsIn

LEMMA TwoFrames ==
    /\ Block(FrameOf(Status) \o FrameOf(Status)) /\ ReportsIn(FrameOf(Status) \o FrameOf(Status)) = {}
    /\ FrameOf(Status) \o FrameOf(Status) # <<>>
<1>1. PICK s : s = FrameOf(Status)
  OBVIOUS
<1>2. PICK t : t = s \o s
  OBVIOUS
<1>3. /\ s \in Seq(Bytes) /\ Len(s) = Body + 2 /\ s[1] = Flag /\ s[Body + 2] = Flag
      /\ \A i \in 2 .. Body + 1 : s[i] = <<0, i - 1>>
  BY <1>1, FrameShape, Sizes DEF Status
<1>4. /\ t \in Seq(Bytes) /\ Len(t) = 2 * (Body + 2) /\ DOMAIN t = 1 .. 2 * (Body + 2)
      /\ \A i \in 1 .. 2 * (Body + 2) : t[i] = IF i =< Body + 2 THEN s[i] ELSE s[i - (Body + 2)]
  <2>1. /\ t \in Seq(Bytes) /\ Len(t) = Len(s) + Len(s)
        /\ \A i \in 1 .. Len(s) + Len(s) : t[i] = IF i =< Len(s) THEN s[i] ELSE s[i - Len(s)]
    BY <1>2, <1>3, ConcatProperties
  <2> QED BY <1>3, <2>1, Sizes
<1>5. \A i \in 1 .. 2 * (Body + 2) : t[i][1] = 0
  <2>1. \A i \in 1 .. Body + 2 : s[i][1] = 0
    BY <1>3, Sizes DEF Flag
  <2>2. \A i \in 1 .. 2 * (Body + 2) : i > Body + 2 => i - (Body + 2) \in 1 .. Body + 2
    BY Sizes
  <2>3. \A i \in 1 .. 2 * (Body + 2) : i =< Body + 2 => i \in 1 .. Body + 2
    BY Sizes
  <2> SUFFICES ASSUME NEW i \in 1 .. 2 * (Body + 2)
               PROVE  t[i][1] = 0
    OBVIOUS
  <2>4. t[i] = IF i =< Body + 2 THEN s[i] ELSE s[i - (Body + 2)]
    BY <1>4
  <2>5. CASE i =< Body + 2
    BY <2>1, <2>3, <2>4, <2>5
  <2>6. CASE i > Body + 2
    <3>1. t[i] = s[i - (Body + 2)]
      BY <2>4, <2>6, Sizes
    <3> QED BY <2>1, <2>2, <2>6, <3>1
  <2> QED BY <2>5, <2>6, Sizes
<1>6. \A i \in 1 .. Body + 1 : Follows(s[i], s[i + 1])
  BY <1>1, FrameFollows, Sizes DEF Status
<1>7. ASSUME NEW i \in 1 .. 2 * (Body + 2) - 1
      PROVE  Follows(t[i], t[i + 1])
  <2>1. CASE i < Body + 2
    BY <1>4, <1>6, <2>1, Sizes
  <2>2. CASE i = Body + 2
    BY <1>3, <1>4, <2>2, Sizes DEF Follows
  <2>3. CASE i > Body + 2
    <3>1. i - (Body + 2) \in 1 .. Body + 1 /\ (i + 1) - (Body + 2) = (i - (Body + 2)) + 1
      BY <2>3, Sizes
    <3>2. t[i] = s[i - (Body + 2)] /\ t[i + 1] = s[(i - (Body + 2)) + 1]
      BY <1>4, <2>3, <3>1, Sizes
    <3> QED BY <1>6, <3>1, <3>2
  <2> QED BY <2>1, <2>2, <2>3, Sizes
<1>8. InOrder(t)
  BY <1>4, <1>5 DEF InOrder, Precedes, IsReport
<1>9. ReportsIn(t) = {}
  BY <1>4, <1>5 DEF ReportsIn
<1>10. t[1] = Flag /\ t[Len(t)] = Flag
  BY <1>3, <1>4, Sizes
<1>11. Block(t) /\ t # <<>>
  BY <1>4, <1>7, <1>8, <1>10, Sizes DEF Block
<1> QED BY <1>1, <1>2, <1>9, <1>11

-----------------------------------------------------------------------------
(* The ring.  The bytes its reader will still see are a sequence, and a write  *)
(* appends to it or, past the reader, leaves the end of what is written.      *)

Window == [i \in 1 .. unread |-> ring[(iR + i - 1) % RingSize]]

Grown(w, s) ==
    IF Len(w) + Len(s) =< RingSize THEN w \o s
    ELSE [i \in 1 .. Len(w) + Len(s) - RingSize |-> s[i + RingSize - Len(w)]]

RingOK ==
    /\ ring \in [Index -> Bytes] /\ iW \in Index /\ iR \in Index
    /\ unread \in 0 .. RingSize /\ (iW - iR) % RingSize = unread % RingSize

Turn(a) == a % RingSize

LEMMA Wrap ==
    ASSUME NEW a \in Int, -RingSize =< a, a < 2 * RingSize
    PROVE  Turn(a) = IF a < 0 THEN a + RingSize ELSE IF a < RingSize THEN a ELSE a - RingSize
BY Sizes DEF Turn

LEMMA TurnStep ==
    ASSUME NEW i \in 0 .. RingSize - 1, NEW r \in 0 .. RingSize - 1, NEW v \in 0 .. RingSize - 1,
           r = IF i + 1 < RingSize THEN i + 1 ELSE 0,
           NEW n \in 1 .. RingSize, Turn(v - i) = Turn(n)
    PROVE  Turn(v - r) = Turn(n - 1)
<1>1. Turn(v - i) = IF v - i < 0 THEN v - i + RingSize ELSE v - i
  BY Wrap, Sizes
<1>2. Turn(v - r) = IF v - r < 0 THEN v - r + RingSize ELSE v - r
  BY Wrap, Sizes
<1>3. Turn(n) = IF n < RingSize THEN n ELSE n - RingSize
  BY Wrap, Sizes
<1>4. Turn(n - 1) = n - 1
  BY Wrap, Sizes
<1> QED BY <1>1, <1>2, <1>3, <1>4, Sizes

LEMMA WindowShape ==
    ASSUME RingOK
    PROVE  /\ Window \in Seq(Bytes) /\ Len(Window) = unread /\ DOMAIN Window = 1 .. unread
           /\ \A i \in 1 .. unread : Window[i] = ring[Turn(iR + i - 1)]
           /\ unread > 0 => Window[1] = ring[iR]
           /\ InRing = ReportsIn(Window)
<1>1. \A i \in 1 .. unread : Turn(iR + i - 1) \in Index
  BY Sizes DEF RingOK, Index, Turn
<1>2. \A i \in 1 .. unread : ring[Turn(iR + i - 1)] \in Bytes
  BY <1>1 DEF RingOK
<1>3. Window = [i \in 1 .. unread |-> ring[Turn(iR + i - 1)]]
  BY DEF Window, Turn
<1>4. iR + 1 - 1 = iR /\ iR \in Int /\ unread \in Nat
  BY Sizes DEF RingOK, Index
<1>5. Turn(iR) = iR
  BY Wrap, Sizes DEF RingOK, Index
<1>6. InRing = ReportsIn(Window)
  BY Zenon DEF InRing, Window
<1>7. /\ Window \in Seq(Bytes) /\ Len(Window) = unread /\ DOMAIN Window = 1 .. unread
      /\ \A i \in 1 .. unread : Window[i] = ring[Turn(iR + i - 1)]
  BY <1>2, <1>3, <1>4
<1>8. unread > 0 => 1 \in 1 .. unread
  BY <1>4
<1> QED BY <1>4, <1>5, <1>6, <1>7, <1>8

LEMMA GrownShape ==
    ASSUME NEW w \in Seq(Bytes), NEW s \in Seq(Bytes), Len(w) =< RingSize, Len(s) < RingSize
    PROVE  /\ Grown(w, s) \in Seq(Bytes) /\ Len(Grown(w, s)) =< RingSize
           /\ Len(w) + Len(s) =< RingSize =>
                /\ Grown(w, s) = w \o s
                /\ Len(Grown(w, s)) = Len(w) + Len(s)
                /\ \A i \in 1 .. Len(w) : Grown(w, s)[i] = w[i]
                /\ \A i \in Len(w) + 1 .. Len(w) + Len(s) : Grown(w, s)[i] = s[i - Len(w)]
           /\ Len(w) + Len(s) > RingSize =>
                /\ Len(Grown(w, s)) = Len(w) + Len(s) - RingSize
                /\ \A i \in 1 .. Len(w) + Len(s) - RingSize :
                     /\ i + RingSize - Len(w) \in 1 .. Len(s)
                     /\ Grown(w, s)[i] = s[i + RingSize - Len(w)]
<1>1. Len(w) \in Nat /\ Len(s) \in Nat
  OBVIOUS
<1>2. CASE Len(w) + Len(s) =< RingSize
  <2>1. Grown(w, s) = w \o s
    BY <1>2 DEF Grown
  <2>2. /\ w \o s \in Seq(Bytes) /\ Len(w \o s) = Len(w) + Len(s)
        /\ \A i \in 1 .. Len(w) + Len(s) : (w \o s)[i] = IF i =< Len(w) THEN w[i] ELSE s[i - Len(w)]
    BY ConcatProperties
  <2> QED BY <1>1, <1>2, <2>1, <2>2, Sizes
<1>3. CASE Len(w) + Len(s) > RingSize
  <2>1. PICK k \in Nat : k = Len(w) + Len(s) - RingSize
    BY <1>1, <1>3, Sizes
  <2>2. \A i \in 1 .. k : i + RingSize - Len(w) \in 1 .. Len(s)
    BY <1>1, <2>1, Sizes
  <2>3. \A i \in 1 .. k : s[i + RingSize - Len(w)] \in Bytes
    BY <2>2
  <2>4. Grown(w, s) = [i \in 1 .. k |-> s[i + RingSize - Len(w)]]
    BY <1>1, <1>3, <2>1, Sizes DEF Grown
  <2>5. Grown(w, s) \in Seq(Bytes) /\ Len(Grown(w, s)) = k
    BY <2>3, <2>4
  <2> QED BY <1>1, <1>3, <2>1, <2>2, <2>4, <2>5, Sizes
<1> QED BY <1>1, <1>2, <1>3, Sizes

LEMMA WriteRing ==
    ASSUME RingOK, NEW s \in Seq(Bytes), Len(s) < RingSize, NEW k, Write(s, k)
    PROVE  /\ ring' \in [Index -> Bytes] /\ iW' \in Index
           /\ unread' = Len(Grown(Window, s)) - k
           /\ Turn(iW' - iR) = Turn(Len(Grown(Window, s)))
           /\ \A i \in 1 .. Len(Grown(Window, s)) :
                ring'[Turn(iR + i - 1)] = Grown(Window, s)[i]
<1>1. PICK w \in Seq(Bytes) : w = Window
  BY WindowShape
<1>2. PICK g \in Seq(Bytes) : g = Grown(w, s)
  BY <1>1, GrownShape, WindowShape, Sizes DEF RingOK
<1>3. PICK u \in Nat : u = Len(s)
  OBVIOUS
<1>4. /\ iR \in 0 .. RingSize - 1 /\ iW \in 0 .. RingSize - 1 /\ unread \in 0 .. RingSize
      /\ iW = IF iR + unread < RingSize THEN iR + unread ELSE iR + unread - RingSize
  <2>1. /\ iR \in 0 .. RingSize - 1 /\ iW \in 0 .. RingSize - 1 /\ unread \in 0 .. RingSize
        /\ Turn(iW - iR) = Turn(unread)
    BY DEF RingOK, Index, Turn
  <2>2. Turn(unread) = IF unread < RingSize THEN unread ELSE unread - RingSize
    BY <2>1, Wrap, Sizes
  <2>3. Turn(iW - iR) = IF iW - iR < 0 THEN iW - iR + RingSize ELSE iW - iR
    BY <2>1, Wrap, Sizes
  <2> QED BY <2>1, <2>2, <2>3, Sizes
<1>5. \A i \in 1 .. unread : w[i] = ring[Turn(iR + i - 1)]
  BY <1>1, WindowShape
<1>6. Len(w) = unread
  BY <1>1, WindowShape
<1>7. /\ unread + u =< RingSize =>
           /\ Len(g) = unread + u
           /\ \A i \in 1 .. unread + u : g[i] = IF i =< unread THEN w[i] ELSE s[i - unread]
      /\ unread + u > RingSize =>
           /\ Len(g) = unread + u - RingSize
           /\ \A i \in 1 .. unread + u - RingSize : g[i] = s[i + RingSize - unread]
  <2>1. Len(w) =< RingSize
    BY <1>4, <1>6
  <2>2. CASE Len(w) + Len(s) =< RingSize
    <3>1. g = w \o s
      BY <1>2, <2>2 DEF Grown
    <3>2. /\ Len(w \o s) = Len(w) + Len(s)
          /\ \A i \in 1 .. Len(w) + Len(s) : (w \o s)[i] = IF i =< Len(w) THEN w[i] ELSE s[i - Len(w)]
      BY ConcatProperties
    <3> QED BY <1>3, <1>4, <1>6, <2>2, <3>1, <3>2, Sizes
  <2>3. CASE Len(w) + Len(s) > RingSize
    <3>1. /\ Len(g) = Len(w) + Len(s) - RingSize
          /\ \A i \in 1 .. Len(w) + Len(s) - RingSize : g[i] = s[i + RingSize - Len(w)]
      BY <1>2, <2>1, <2>3, GrownShape
    <3> QED BY <1>3, <1>4, <1>6, <2>3, <3>1, Sizes
  <2>4. Len(w) + Len(s) \in Nat
    OBVIOUS
  <2> QED BY <2>2, <2>3, <2>4, Sizes
<1>8. /\ Len(g) =< RingSize
      /\ unread + u =< RingSize =>
           /\ Len(g) = unread + u
           /\ \A i \in 1 .. unread : g[i] = w[i]
           /\ \A i \in unread + 1 .. unread + u : g[i] = s[i - unread]
      /\ unread + u > RingSize =>
           /\ Len(g) = unread + u - RingSize
           /\ \A i \in 1 .. unread + u - RingSize : g[i] = s[i + RingSize - unread]
  <2>1. unread \in Nat /\ unread =< RingSize /\ u \in Nat /\ u < RingSize
    BY <1>3, <1>4, Sizes
  <2>2. Len(g) =< RingSize
    BY <1>7, <2>1, Sizes
  <2>3. unread + u =< RingSize =>
            /\ Len(g) = unread + u
            /\ \A i \in 1 .. unread : g[i] = w[i]
            /\ \A i \in unread + 1 .. unread + u : g[i] = s[i - unread]
    BY <1>7, <2>1
  <2> QED BY <1>7, <2>2, <2>3
<1>9. /\ ring' = [i \in Index |-> IF Turn(i - iW) + 1 =< u
                                  THEN s[Turn(i - iW) + 1] ELSE ring[i]]
      /\ iW' = Turn(iW + u)
      /\ unread' = (IF unread + u > RingSize THEN Turn(unread + u) ELSE unread + u) - k
  BY <1>3, Zenon DEF Write, Overwritten, Turn
<1>10. \A i \in Index : Turn(i - iW) \in 0 .. RingSize - 1
  BY Sizes DEF RingOK, Index, Turn
<1>11. ring' \in [Index -> Bytes]
  <2>1. ASSUME NEW i \in Index
        PROVE  ring'[i] \in Bytes
    <3>1. PICK j \in 0 .. RingSize - 1 : j = Turn(i - iW)
      BY <1>10
    <3>2. ring'[i] = IF j + 1 =< u THEN s[j + 1] ELSE ring[i]
      BY <1>9, <3>1
    <3>3. CASE j + 1 =< u
      <4>1. j + 1 \in 1 .. Len(s)
        BY <1>3, <3>1, <3>3, Sizes
      <4> QED BY <3>2, <3>3, <4>1
    <3>4. CASE ~(j + 1 =< u)
      BY <3>2, <3>4 DEF RingOK
    <3> QED BY <3>3, <3>4
  <2> QED BY <1>9, <2>1
<1>12. /\ iW' \in Index
       /\ unread' = Len(g) - k
       /\ Turn(iW' - iR) = Turn(Len(g))
  <2>1. Len(g) = IF unread + u > RingSize THEN unread + u - RingSize ELSE unread + u
    BY <1>3, <1>4, <1>8, Sizes
  <2>2. Turn(unread + u) = IF unread + u < RingSize THEN unread + u ELSE unread + u - RingSize
    BY <1>3, <1>4, Wrap, Sizes
  <2>3. Turn(iW + u) = IF iW + u < RingSize THEN iW + u ELSE iW + u - RingSize
    BY <1>3, <1>4, Wrap, Sizes
  <2>4. iW' \in Index
    BY <1>3, <1>4, <1>9, <2>3, Sizes DEF Index
  <2>5. Turn(iW' - iR) = IF iW' - iR < 0 THEN iW' - iR + RingSize ELSE iW' - iR
    <3>1. PICK v \in 0 .. RingSize - 1 : v = iW'
      BY <2>4 DEF Index
    <3>2. Turn(v - iR) = IF v - iR < 0 THEN v - iR + RingSize ELSE v - iR
      BY <1>4, Wrap, Sizes
    <3> QED BY <3>1, <3>2
  <2>6. Turn(Len(g)) = IF Len(g) < RingSize THEN Len(g) ELSE Len(g) - RingSize
    BY <1>3, <1>4, <2>1, Wrap, Sizes
  <2>7. unread' = Len(g) - k
    BY <1>3, <1>4, <1>9, <2>1, <2>2, Sizes
  <2>8. Turn(iW' - iR) = Turn(Len(g))
    BY <1>3, <1>4, <1>9, <2>1, <2>3, <2>5, <2>6, Sizes
  <2> QED BY <2>4, <2>7, <2>8
<1>13. ASSUME NEW i \in 1 .. Len(g)
       PROVE  ring'[Turn(iR + i - 1)] = g[i]
  <2>1. Len(g) =< RingSize
    BY <1>3, <1>4, <1>8, Sizes
  <2>2. PICK p : p = Turn(iR + i - 1)
    OBVIOUS
  <2>3. p = IF iR + i - 1 < RingSize THEN iR + i - 1 ELSE iR + i - 1 - RingSize
    BY <1>4, <2>1, <2>2, Wrap, Sizes
  <2>4. p \in Index
    BY <1>4, <2>1, <2>3, Sizes DEF Index
  <2>5. PICK q : q = Turn(p - iW)
    OBVIOUS
  <2>6. q = IF p - iW < 0 THEN p - iW + RingSize ELSE p - iW
    BY <1>4, <2>4, <2>5, Wrap, Sizes DEF Index
  <2>7. ring'[p] = IF q + 1 =< u THEN s[q + 1] ELSE ring[p]
    BY <1>9, <2>4, <2>5
  <2>8. CASE unread + u =< RingSize /\ i =< unread
    <3>1. q = IF i = 1 /\ unread = RingSize THEN 0 ELSE i - 1 - unread + RingSize
      BY <1>4, <2>1, <2>3, <2>6, <2>8, Sizes
    <3>2. ~(q + 1 =< u)
      BY <1>4, <2>8, <3>1, Sizes
    <3>3. g[i] = w[i]
      BY <1>3, <1>4, <1>8, <2>8, Sizes
    <3> QED BY <1>5, <2>2, <2>7, <2>8, <3>2, <3>3
  <2>9. CASE unread + u =< RingSize /\ i > unread
    <3>1. i =< unread + u
      BY <1>3, <1>4, <1>8, <2>9, Sizes
    <3>2. q = i - 1 - unread
      BY <1>4, <2>1, <2>3, <2>6, <2>9, <3>1, Sizes
    <3>3. g[i] = s[i - unread]
      BY <1>3, <1>4, <1>8, <2>9, <3>1, Sizes
    <3>4. q + 1 =< u /\ q + 1 = i - unread
      BY <1>4, <3>1, <3>2, Sizes
    <3> QED BY <2>2, <2>7, <3>3, <3>4
  <2>10. CASE unread + u > RingSize
    <3>1. i =< unread + u - RingSize
      BY <1>3, <1>4, <1>8, <2>10, Sizes
    <3>2. q = i - 1 - unread + RingSize
      BY <1>3, <1>4, <2>1, <2>3, <2>6, <2>10, <3>1, Sizes
    <3>3. g[i] = s[i + RingSize - unread]
      BY <1>3, <1>4, <1>8, <2>10, <3>1, Sizes
    <3>4. q + 1 =< u /\ q + 1 = i + RingSize - unread
      BY <1>4, <3>1, <3>2, Sizes
    <3> QED BY <2>2, <2>7, <3>3, <3>4
  <2> QED BY <1>4, <2>8, <2>9, <2>10, Sizes
<1> QED BY <1>1, <1>2, <1>11, <1>12, <1>13

(* The reader stays: the window grows.                                        *)
LEMMA WriteGrows ==
    ASSUME RingOK, NEW s \in Seq(Bytes), Len(s) < RingSize, Write(s, 0), UNCHANGED iR
    PROVE  RingOK' /\ Window' = Grown(Window, s)
<1>1. PICK g \in Seq(Bytes) : g = Grown(Window, s) /\ Len(g) =< RingSize
  BY WindowShape, GrownShape, Sizes DEF RingOK
<1>2. /\ ring' \in [Index -> Bytes] /\ iW' \in Index /\ unread' = Len(g)
      /\ Turn(iW' - iR) = Turn(Len(g))
      /\ \A i \in 1 .. Len(g) : ring'[Turn(iR + i - 1)] = g[i]
  BY <1>1, WriteRing
<1>3. RingOK'
  BY <1>1, <1>2 DEF RingOK, Turn
<1>4. Window' = [i \in 1 .. Len(g) |-> ring'[Turn(iR + i - 1)]]
  BY <1>2 DEF Window, Turn
<1>5. Window' = g
  BY <1>2, <1>4
<1> QED BY <1>1, <1>3, <1>5

(* The reader takes the first byte, perhaps of what has just been written.    *)
LEMMA RingAdvances ==
    ASSUME RingOK, ring' \in [Index -> Bytes], iW' \in Index, iR' = (iR + 1) % RingSize,
           NEW g \in Seq(Bytes), g # <<>>, Len(g) =< RingSize,
           \A i \in 1 .. Len(g) : ring'[Turn(iR + i - 1)] = g[i],
           Turn(iW' - iR) = Turn(Len(g)), unread' = Len(g) - 1
    PROVE  RingOK' /\ Window' = Tail(g) /\ ring'[iR] = g[1]
<1>1. iR \in 0 .. RingSize - 1 /\ Len(g) \in 1 .. RingSize
  BY DEF RingOK, Index
<1>2. Tail(g) \in Seq(Bytes) /\ Len(Tail(g)) = Len(g) - 1
      /\ \A i \in 1 .. Len(g) - 1 : Tail(g)[i] = g[i + 1]
  BY HeadTailProperties
<1>3. PICK r \in 0 .. RingSize - 1 : r = iR' /\ r = IF iR + 1 < RingSize THEN iR + 1 ELSE 0
  <2>1. Turn(iR + 1) = IF iR + 1 < RingSize THEN iR + 1 ELSE iR + 1 - RingSize
    BY <1>1, Wrap, Sizes
  <2>2. iR' = Turn(iR + 1)
    BY DEF Turn
  <2> QED BY <1>1, <2>1, <2>2, Sizes
<1>4. ASSUME NEW i \in 1 .. Len(g) - 1
      PROVE  ring'[Turn(r + i - 1)] = g[i + 1]
  <2>1. Turn(r + i - 1) = IF r + i - 1 < RingSize THEN r + i - 1 ELSE r + i - 1 - RingSize
    BY <1>1, Wrap, Sizes
  <2>2. Turn(iR + (i + 1) - 1) =
          IF iR + (i + 1) - 1 < RingSize THEN iR + (i + 1) - 1 ELSE iR + (i + 1) - 1 - RingSize
    BY <1>1, Wrap, Sizes
  <2>3. Turn(r + i - 1) = Turn(iR + (i + 1) - 1)
    BY <1>1, <1>3, <2>1, <2>2, Sizes
  <2>4. i + 1 \in 1 .. Len(g)
    BY <1>1
  <2> QED BY <2>3, <2>4
<1>5. Window' = [i \in 1 .. Len(g) - 1 |-> ring'[Turn(r + i - 1)]]
  BY <1>3 DEF Window, Turn
<1>6. Window' = Tail(g)
  <2>1. PICK t : t = Tail(g)
    OBVIOUS
  <2>2. t = [i \in 1 .. Len(g) - 1 |-> t[i]]
    <3>1. t \in [1 .. Len(t) -> Bytes]
      BY <1>2, <2>1, LenProperties
    <3> QED BY <1>2, <2>1, <3>1
  <2>3. \A i \in 1 .. Len(g) - 1 : t[i] = ring'[Turn(r + i - 1)]
    BY <1>1, <1>2, <1>4, <2>1
  <2>4. [i \in 1 .. Len(g) - 1 |-> ring'[Turn(r + i - 1)]] = [i \in 1 .. Len(g) - 1 |-> t[i]]
    BY <2>3
  <2> QED BY <1>5, <2>1, <2>2, <2>4
<1>7. RingOK'
  <2>1. PICK v \in 0 .. RingSize - 1 : v = iW'
    BY DEF Index
  <2>2. Turn(v - r) = Turn(Len(g) - 1)
    <3>1. Turn(v - iR) = Turn(Len(g))
      BY <2>1
    <3>2. PICK n \in 1 .. RingSize : n = Len(g)
      BY <1>1
    <3>3. Turn(v - iR) = Turn(n)
      BY <3>1, <3>2
    <3>4. r = IF iR + 1 < RingSize THEN iR + 1 ELSE 0
      BY <1>3
    <3>5. Turn(v - r) = Turn(n - 1)
      BY ONLY <1>1, <3>3, <3>4, TurnStep
    <3> QED BY <3>2, <3>5
  <2>3. iR' \in Index /\ unread' \in 0 .. RingSize
    BY <1>1, <1>3, Sizes DEF Index
  <2>4. (iW' - iR') % RingSize = unread' % RingSize
    BY <1>3, <2>1, <2>2 DEF Turn
  <2> QED BY <2>3, <2>4 DEF RingOK
<1>8. ring'[iR] = g[1]
  <2>1. Turn(iR + 1 - 1) = iR
    BY <1>1, Wrap, Sizes
  <2> QED BY <1>1, <2>1
<1> QED BY <1>6, <1>7, <1>8

LEMMA WriteAdvances ==
    ASSUME RingOK, NEW s \in Seq(Bytes), Len(s) < RingSize, s # <<>>, Write(s, 1),
           iR' = (iR + 1) % RingSize
    PROVE  /\ RingOK' /\ Grown(Window, s) # <<>>
           /\ Window' = Tail(Grown(Window, s)) /\ ring'[iR] = Grown(Window, s)[1]
<1>1. PICK g \in Seq(Bytes) : g = Grown(Window, s) /\ Len(g) =< RingSize
  BY WindowShape, GrownShape, Sizes DEF RingOK
<1>2. /\ ring' \in [Index -> Bytes] /\ iW' \in Index /\ unread' = Len(g) - 1
      /\ Turn(iW' - iR) = Turn(Len(g))
      /\ \A i \in 1 .. Len(g) : ring'[Turn(iR + i - 1)] = g[i]
  BY <1>1, WriteRing
<1>3. g # <<>>
  <2>1. Window \in Seq(Bytes) /\ Len(Window) =< RingSize /\ Len(Window) \in Nat /\ Len(s) \in Nat /\ Len(s) > 0
    BY WindowShape, Sizes DEF RingOK
  <2>2. \/ Len(g) = Len(Window) + Len(s)
        \/ Len(Window) + Len(s) > RingSize /\ Len(g) = Len(Window) + Len(s) - RingSize
    <3>1. PICK w \in Seq(Bytes) : w = Window
      BY <2>1
    <3>2. g = Grown(w, s) /\ Len(w) =< RingSize /\ Len(w) \in Nat
      BY <1>1, <2>1, <3>1
    <3>3. Len(w) + Len(s) =< RingSize => Len(g) = Len(w) + Len(s)
      BY <3>2, GrownShape
    <3>4. Len(w) + Len(s) > RingSize => Len(g) = Len(w) + Len(s) - RingSize
      BY <3>2, GrownShape
    <3> QED BY <2>1, <3>1, <3>2, <3>3, <3>4, Sizes
  <2> QED BY <2>1, <2>2, Sizes
<1>4. RingOK' /\ Window' = Tail(g) /\ ring'[iR] = g[1]
  BY <1>1, <1>2, <1>3, RingAdvances
<1> QED BY <1>1, <1>3, <1>4

LEMMA ReadAdvances ==
    ASSUME RingOK, iW # iR, UNCHANGED <<ring, iW>>, iR' = (iR + 1) % RingSize, unread' = unread - 1
    PROVE  RingOK' /\ Window # <<>> /\ Window' = Tail(Window) /\ ring[iR] = Window[1]
<1>1. PICK g \in Seq(Bytes) : g = Window /\ Len(g) = unread /\ unread \in 0 .. RingSize
  BY WindowShape DEF RingOK
<1>2. /\ iR \in 0 .. RingSize - 1 /\ iW \in 0 .. RingSize - 1
      /\ Turn(iW - iR) = Turn(unread)
  BY DEF RingOK, Index, Turn
<1>3. g # <<>>
  <2>1. Turn(0) = 0
    BY Wrap, Sizes
  <2>2. Turn(iW - iR) = IF iW - iR < 0 THEN iW - iR + RingSize ELSE iW - iR
    BY <1>2, Wrap, Sizes
  <2>3. unread # 0
    BY <1>2, <2>1, <2>2, Sizes
  <2> QED BY <1>1, <2>3
<1>4. ring' \in [Index -> Bytes] /\ iW' \in Index
  BY DEF RingOK
<1>5. \A i \in 1 .. Len(g) : ring'[Turn(iR + i - 1)] = g[i]
  BY <1>1, WindowShape
<1>6. Turn(iW' - iR) = Turn(Len(g)) /\ unread' = Len(g) - 1
  BY <1>1, <1>2
<1>7. RingOK' /\ Window' = Tail(g) /\ ring'[iR] = g[1]
  BY <1>1, <1>3, <1>4, <1>5, <1>6, RingAdvances
<1> QED BY <1>1, <1>3, <1>7

(* Equal indices: the ring is empty, or full and taken for empty.             *)
LEMMA EqualIndices ==
    ASSUME RingOK, iW = iR
    PROVE  unread = 0 \/ unread = RingSize
<1>1. iR \in 0 .. RingSize - 1 /\ unread \in 0 .. RingSize /\ Turn(iW - iR) = Turn(unread)
  BY DEF RingOK, Index, Turn
<1>2. Turn(unread) = IF unread < RingSize THEN unread ELSE unread - RingSize
  BY <1>1, Wrap, Sizes
<1>3. iW - iR = 0 /\ Turn(0) = 0
  BY <1>1, Wrap, Sizes
<1> QED BY <1>1, <1>2, <1>3, Sizes

-----------------------------------------------------------------------------
(* Reports on their way: w is what the reader will still see of the ring, r    *)
(* what the manager has read of a frame, g the reports it has received, l     *)
(* those hit by an accident, p the number printed, d whether there was an     *)
(* accident, z whether the manager took a frame nobody printed, and a says    *)
(* that the request goes out over all this.                                   *)

(* The window is the rest of one frame and whole ones, in the order of        *)
(* printing, and what the manager has read comes before.                      *)
Stream(w, r) ==
    /\ \A i \in 1 .. Len(w) - 1 : Follows(w[i], w[i + 1])
    /\ w # <<>> => w[Len(w)] = Flag
    /\ InOrder(w) /\ InOrder(r)
    /\ \A i \in DOMAIN r, j \in DOMAIN w : Precedes(r[i], w[j])

Received(w, r, g, p) ==
    /\ Increasing(g)
    /\ \A i \in DOMAIN g : g[i] =< p
    /\ \A n \in ReportsIn(w) \cup ReportsIn(r) : n =< p /\ \A i \in DOMAIN g : g[i] < n

Prefix(n, k) == [j \in 1 .. k |-> <<n, j>>]

(* A report neither received nor hit is whole in the ring, or half read and   *)
(* continued there.                                                           *)
WholeIn(n, w, r, a) == \E i \in DOMAIN w : w[i] = <<n, 1>> /\ (i = 1 => r = <<>> \/ a)
HalfIn(n, w, r) == \E k \in 1 .. Body : r = Prefix(n, k) /\ w # <<>> /\ w[1] = NextByte(n, k)
Accounted(w, r, g, l, p, a) ==
    \A n \in 1 .. p : n \in l \/ n \in Range(g) \/ WholeIn(n, w, r, a) \/ HalfIn(n, w, r)

(* Undisturbed, the manager has the first bytes of a frame, and the next one   *)
(* comes next.                                                                *)
Continued(n, k, w) == IF w = <<>> THEN k = Body ELSE w[1] = NextByte(n, k)
AtFrame(w) == w = <<>> \/ w[1] = Flag \/ w[1][2] = 1
Undisturbed(w, r, z, a) ==
    /\ ~z
    /\ r = <<>> \/ a => AtFrame(w)
    /\ ~(r = <<>> \/ a) =>
         \E n \in Status .. Request, k \in 1 .. Body : r = Prefix(n, k) /\ Continued(n, k, w)

(* A full ring is taken for an empty one: all that is in it counts as hit.     *)
FullIsHit(w, r, l, d) == Len(w) = RingSize => d /\ ReportsIn(w) \cup ReportsIn(r) \subseteq l

Sent(w, r, g, l, p, d, z, a) ==
    /\ w \in Seq(Bytes) /\ Len(w) =< RingSize /\ r \in Seq(Bytes) /\ g \in Seq(1 .. Reports)
    /\ p \in 0 .. Reports
    /\ Stream(w, r) /\ Received(w, r, g, p) /\ Accounted(w, r, g, l, p, a)
    /\ FullIsHit(w, r, l, d)
    /\ ~d => Undisturbed(w, r, z, a)

RequestOK ==
    /\ mode = "input" /\ txPending =>
         reqIdx =< Body + 1 /\ readBuf = Prefix(Request, IF reqIdx =< Body THEN reqIdx ELSE 0)
    /\ mode = "input" /\ ~txPending => readBuf = <<>>

ReportInv ==
    /\ Sent(Window, readBuf, got, lost, printed, disturbed, garbled, mode = "input" /\ txPending)
    /\ RequestOK

LEMMA PrefixShape ==
    ASSUME NEW n \in Status .. Request, NEW k \in 0 .. Body
    PROVE  /\ Prefix(n, k) \in Seq(Bytes) /\ Len(Prefix(n, k)) = k /\ DOMAIN Prefix(n, k) = 1 .. k
           /\ \A j \in 1 .. k : Prefix(n, k)[j] = <<n, j>>
           /\ Prefix(n, k) = <<>> <=> k = 0
           /\ Prefix(n, Body) = BodyOf(n)
           /\ k < Body => Append(Prefix(n, k), <<n, k + 1>>) = Prefix(n, k + 1)
<1>1. \A j \in 1 .. k : <<n, j>> \in Bytes
  BY Sizes DEF Bytes
<1>2. k \in Nat
  OBVIOUS
<1>3. /\ Prefix(n, k) \in Seq(Bytes) /\ Len(Prefix(n, k)) = k /\ DOMAIN Prefix(n, k) = 1 .. k
      /\ \A j \in 1 .. k : Prefix(n, k)[j] = <<n, j>>
  BY <1>1, <1>2 DEF Prefix
<1>4. Prefix(n, Body) = BodyOf(n)
  BY DEF Prefix, BodyOf
<1>5. Prefix(n, k) = <<>> <=> k = 0
  BY <1>3
<1>6. k < Body => Append(Prefix(n, k), <<n, k + 1>>) = Prefix(n, k + 1)
  <2>1. <<n, k + 1>> \in {<<n, k + 1>>} /\ k + 1 \in Nat
    BY <1>2
  <2>2. PICK s : s = Append(Prefix(n, k), <<n, k + 1>>)
    OBVIOUS
  <2>3. PICK T : T = Bytes \cup {<<n, k + 1>>}
    OBVIOUS
  <2>4. /\ s \in Seq(T) /\ Len(s) = k + 1
        /\ \A j \in 1 .. k : s[j] = <<n, j>>
        /\ s[k + 1] = <<n, k + 1>>
    <3>1. Prefix(n, k) \in Seq(T)
      BY <1>3, <2>3, SeqMonotonic
    <3>2. <<n, k + 1>> \in T
      BY <2>3
    <3> QED BY <1>3, <2>2, <3>1, <3>2
  <2>5. s \in [1 .. k + 1 -> T]
    BY <2>4, LenProperties
  <2>6. \A j \in 1 .. k + 1 : s[j] = <<n, j>>
    BY <1>2, <2>4
  <2>7. s = [j \in 1 .. k + 1 |-> <<n, j>>]
    BY <2>5, <2>6
  <2> QED BY <2>2, <2>7 DEF Prefix
<1> QED BY <1>3, <1>4, <1>5, <1>6

LEMMA PrefixesDiffer ==
    ASSUME NEW n \in Status .. Request, NEW k \in 1 .. Body,
           NEW m \in Status .. Request, NEW l \in 1 .. Body, Prefix(n, k) = Prefix(m, l)
    PROVE  n = m /\ k = l
<1>1. Len(Prefix(n, k)) = k /\ Len(Prefix(m, l)) = l
  BY PrefixShape
<1>2. Prefix(n, k)[1] = <<n, 1>> /\ Prefix(m, l)[1] = <<m, 1>>
  BY PrefixShape
<1> QED BY <1>1, <1>2

LEMMA NextBytes ==
    ASSUME NEW n, NEW k \in 1 .. Body
    PROVE  /\ NextByte(n, k) = Flag <=> k = Body
           /\ k < Body => NextByte(n, k) = <<n, k + 1>>
BY Sizes DEF NextByte, Flag

LEMMA FrameReports ==
    ASSUME NEW n \in 1 .. Reports
    PROVE  n \in Status .. Request /\ n # Request /\ n # Status
BY Sizes DEF Status, Request

LEMMA InWindow ==
    ASSUME NEW w, NEW r, NEW a, NEW n \in 1 .. Reports
    PROVE  /\ WholeIn(n, w, r, a) => n \in ReportsIn(w)
           /\ HalfIn(n, w, r) => n \in ReportsIn(r)
<1>1. ASSUME WholeIn(n, w, r, a)
      PROVE  n \in ReportsIn(w)
  <2>1. PICK i \in DOMAIN w : w[i] = <<n, 1>>
    BY <1>1 DEF WholeIn
  <2>2. w[i][1] = n
    BY <2>1
  <2> QED BY <2>2, ReportsOf
<1>2. ASSUME HalfIn(n, w, r)
      PROVE  n \in ReportsIn(r)
  <2>1. PICK k \in 1 .. Body : r = Prefix(n, k)
    BY <1>2 DEF HalfIn
  <2>2. 1 \in DOMAIN r /\ r[1] = <<n, 1>>
    BY <2>1, PrefixShape, FrameReports
  <2>3. r[1][1] = n
    BY <2>2
  <2> QED BY <2>2, <2>3, ReportsOf
<1> QED BY <1>1, <1>2

(* Printing s into the window: what it may damage is counted.                 *)
Prints(w, r, l, p, d, s, l2, q, d2) ==
    /\ Block(s) /\ l \subseteq l2 /\ (d => d2)
    /\ \/ ReportsIn(s) = {} /\ q = p
       \/ q = p + 1 /\ q \in 1 .. Reports /\ s = FrameOf(q)
    /\ Len(w) + Len(s) >= RingSize =>
         d2 /\ ReportsIn(w) \cup ReportsIn(r) \cup ReportsIn(s) \subseteq l2

LEMMA NewReports ==
    ASSUME NEW w, NEW r, NEW l, NEW p, NEW d, NEW s, NEW l2, NEW q, NEW d2,
           Prints(w, r, l, p, d, s, l2, q, d2), p \in 0 .. Reports
    PROVE  /\ q \in 0 .. Reports /\ p =< q
           /\ \A n \in ReportsIn(s) : n = p + 1 /\ n = q
<1>1. CASE ReportsIn(s) = {} /\ q = p
  BY <1>1
<1>2. CASE q = p + 1 /\ q \in 1 .. Reports /\ s = FrameOf(q)
  <2>1. q \in 0 .. Reports + 1 /\ q \in 0 .. Reports /\ p =< q
    BY <1>2, Sizes
  <2> QED BY <1>2, <2>1, FrameIsBlock
<1> QED BY <1>1, <1>2 DEF Prints

(* It fits: the window grows at its end.                                      *)
LEMMA FittingShape ==
    ASSUME NEW w \in Seq(Bytes), Len(w) =< RingSize, NEW s, Block(s),
           Len(w) + Len(s) =< RingSize
    PROVE  /\ Grown(w, s) \in Seq(Bytes) /\ Len(Grown(w, s)) = Len(w) + Len(s)
           /\ DOMAIN Grown(w, s) = 1 .. Len(w) + Len(s)
           /\ DOMAIN w = 1 .. Len(w) /\ DOMAIN s = 1 .. Len(s)
           /\ \A i \in 1 .. Len(w) : Grown(w, s)[i] = w[i]
           /\ \A i \in Len(w) + 1 .. Len(w) + Len(s) :
                i - Len(w) \in 1 .. Len(s) /\ Grown(w, s)[i] = s[i - Len(w)]
           /\ \A n \in ReportsIn(Grown(w, s)) : n \in ReportsIn(w) \/ n \in ReportsIn(s)
<1>1. s \in Seq(Bytes) /\ Len(s) < RingSize /\ Len(s) \in Nat /\ Len(w) \in Nat
  BY Sizes DEF Block
<1>2. PICK g : g = Grown(w, s)
  OBVIOUS
<1>3. /\ g \in Seq(Bytes) /\ Len(g) = Len(w) + Len(s)
      /\ \A i \in 1 .. Len(w) : g[i] = w[i]
      /\ \A i \in Len(w) + 1 .. Len(w) + Len(s) : g[i] = s[i - Len(w)]
  BY <1>1, <1>2, GrownShape
<1>4. DOMAIN g = 1 .. Len(w) + Len(s) /\ DOMAIN w = 1 .. Len(w) /\ DOMAIN s = 1 .. Len(s)
  BY <1>1, <1>3
<1>5. \A i \in Len(w) + 1 .. Len(w) + Len(s) : i - Len(w) \in 1 .. Len(s)
  BY <1>1
<1>6. ASSUME NEW n \in ReportsIn(g)
      PROVE  n \in ReportsIn(w) \/ n \in ReportsIn(s)
  <2>1. PICK i \in 1 .. Len(w) + Len(s) : g[i][1] = n /\ n \in 1 .. Reports
    BY <1>4, ReportsOf
  <2>2. CASE i =< Len(w)
    <3>1. i \in DOMAIN w /\ w[i][1] = n
      BY <1>1, <1>3, <1>4, <2>1, <2>2
    <3> QED BY <2>1, <3>1, ReportsOf
  <2>3. CASE i > Len(w)
    <3>1. i \in Len(w) + 1 .. Len(w) + Len(s)
      BY <1>1, <2>3
    <3>2. i - Len(w) \in DOMAIN s /\ s[i - Len(w)][1] = n
      BY <1>3, <1>4, <1>5, <2>1, <3>1
    <3> QED BY <2>1, <3>2, ReportsOf
  <2> QED BY <1>1, <2>2, <2>3
<1> QED BY <1>2, <1>3, <1>4, <1>5, <1>6

LEMMA LaterReports ==
    ASSUME NEW s, NEW k, \A n \in ReportsIn(s) : n < k, NEW t, \A n \in ReportsIn(t) : n = k,
           NEW i \in DOMAIN s, NEW j \in DOMAIN t
    PROVE  Precedes(s[i], t[j])
<1>1. ASSUME IsReport(s[i]), IsReport(t[j])
      PROVE  s[i][1] < t[j][1]
  <2>1. s[i][1] \in ReportsIn(s) /\ t[j][1] \in ReportsIn(t)
    BY <1>1, ReportsOf DEF IsReport
  <2> QED BY <2>1
<1> QED BY <1>1 DEF Precedes

LEMMA FittingStream ==
    ASSUME NEW w, NEW r, NEW g, NEW l, NEW p, NEW d, NEW z, NEW a, Sent(w, r, g, l, p, d, z, a),
           NEW s, NEW l2, NEW q, NEW d2, Prints(w, r, l, p, d, s, l2, q, d2),
           Len(w) + Len(s) =< RingSize
    PROVE  Stream(Grown(w, s), r)
<1>1. PICK v : v = Grown(w, s)
  OBVIOUS
<1>2. /\ w \in Seq(Bytes) /\ s \in Seq(Bytes) /\ Len(w) =< RingSize /\ Block(s)
      /\ Stream(w, r) /\ p \in 0 .. Reports
  BY DEF Sent, Prints, Block
<1>3. PICK m \in Nat : m = Len(w)
  BY <1>2
<1>4. PICK k \in Nat : k = Len(s)
  BY <1>2
<1>5. /\ v \in Seq(Bytes) /\ Len(v) = m + k /\ DOMAIN v = 1 .. m + k
      /\ DOMAIN w = 1 .. m /\ DOMAIN s = 1 .. k
      /\ \A i \in 1 .. m : v[i] = w[i]
      /\ \A i \in m + 1 .. m + k : i - m \in 1 .. k /\ v[i] = s[i - m]
  BY <1>1, <1>2, <1>3, <1>4, FittingShape
<1>6. \A n \in ReportsIn(w) \cup ReportsIn(r) : n < p + 1
  BY DEF Sent, Received, ReportsIn
<1>7. \A n \in ReportsIn(s) : n = p + 1
  BY <1>2, NewReports
<1>8. ASSUME NEW i \in 1 .. m + k - 1
      PROVE  Follows(v[i], v[i + 1])
  <2>1. CASE i < m
    <3>1. i \in 1 .. m - 1 /\ i \in 1 .. m /\ i + 1 \in 1 .. m
      BY <2>1
    <3>2. Follows(w[i], w[i + 1])
      BY <1>2, <1>3, <3>1 DEF Stream
    <3> QED BY <1>5, <3>1, <3>2
  <2>2. CASE i = m
    <3>1. v[i] = Flag
      BY <1>2, <1>3, <1>5, <2>2 DEF Stream
    <3>2. i + 1 \in m + 1 .. m + k /\ (i + 1) - m = 1 /\ k > 0
      BY <2>2
    <3>3. v[i + 1] = s[1] /\ s # <<>>
      BY <1>2, <1>4, <1>5, <3>2
    <3> QED BY <1>2, <3>1, <3>3 DEF Block, Follows
  <2>3. CASE i > m
    <3>1. i \in m + 1 .. m + k /\ i + 1 \in m + 1 .. m + k /\ i - m \in 1 .. k - 1
          /\ (i + 1) - m = (i - m) + 1
      BY <2>3
    <3>2. Follows(s[i - m], s[(i - m) + 1])
      BY <1>2, <1>4, <3>1 DEF Block
    <3> QED BY <1>5, <3>1, <3>2
  <2> QED BY <2>1, <2>2, <2>3
<1>9. v # <<>> => v[Len(v)] = Flag
  <2>1. CASE k = 0
    BY <1>2, <1>3, <1>5, <2>1 DEF Stream
  <2>2. CASE k > 0
    <3>1. m + k \in m + 1 .. m + k /\ (m + k) - m = k
      BY <2>2
    <3>2. v[m + k] = s[k] /\ s # <<>>
      BY <1>2, <1>4, <1>5, <2>2, <3>1
    <3> QED BY <1>2, <1>4, <1>5, <3>2 DEF Block
  <2> QED BY <2>1, <2>2
<1>10. InOrder(v)
  <2> SUFFICES ASSUME NEW i \in 1 .. m + k, NEW j \in 1 .. m + k, i < j
               PROVE  Precedes(v[i], v[j])
    BY <1>5 DEF InOrder
  <2>1. CASE j =< m
    <3>1. i \in DOMAIN w /\ j \in DOMAIN w /\ v[i] = w[i] /\ v[j] = w[j]
      BY <1>5, <2>1
    <3>2. InOrder(w)
      BY <1>2 DEF Stream
    <3>3. Precedes(w[i], w[j])
      BY <3>1, <3>2 DEF InOrder
    <3> QED BY <3>1, <3>3
  <2>2. CASE i =< m /\ j > m
    <3>1. i \in DOMAIN w /\ j - m \in DOMAIN s /\ v[i] = w[i] /\ v[j] = s[j - m]
      BY <1>5, <2>2
    <3>2. \A n \in ReportsIn(w) : n < p + 1
      BY <1>6
    <3>3. Precedes(w[i], s[j - m])
      BY <1>7, <3>1, <3>2, LaterReports
    <3> QED BY <3>1, <3>3
  <2>3. CASE i > m
    <3>1. i - m \in DOMAIN s /\ j - m \in DOMAIN s /\ v[i] = s[i - m] /\ v[j] = s[j - m] /\ i - m < j - m
      BY <1>5, <2>3
    <3>2. Precedes(s[i - m], s[j - m])
      BY <1>2, <3>1 DEF Block, InOrder
    <3> QED BY <3>1, <3>2
  <2> QED BY <2>1, <2>2, <2>3
<1>11. ASSUME NEW i \in DOMAIN r, NEW j \in DOMAIN v
       PROVE  Precedes(r[i], v[j])
  <2>1. CASE j =< m
    <3>1. j \in DOMAIN w /\ v[j] = w[j]
      BY <1>5, <2>1
    <3> QED BY <1>2, <3>1 DEF Stream
  <2>2. CASE j > m
    <3>1. j - m \in DOMAIN s /\ v[j] = s[j - m]
      BY <1>5, <2>2
    <3>2. \A n \in ReportsIn(r) : n < p + 1
      BY <1>6
    <3>3. Precedes(r[i], s[j - m])
      BY <1>7, <3>1, <3>2, LaterReports
    <3> QED BY <3>1, <3>3
  <2> QED BY <1>5, <2>1, <2>2
<1> QED BY <1>1, <1>2, <1>5, <1>8, <1>9, <1>10, <1>11 DEF Stream

LEMMA FittingReports ==
    ASSUME NEW w, NEW r, NEW g, NEW l, NEW p, NEW d, NEW z, NEW a, Sent(w, r, g, l, p, d, z, a),
           NEW s, NEW l2, NEW q, NEW d2, Prints(w, r, l, p, d, s, l2, q, d2),
           Len(w) + Len(s) =< RingSize
    PROVE  /\ Received(Grown(w, s), r, g, q)
           /\ Accounted(Grown(w, s), r, g, l2, q, a)
           /\ FullIsHit(Grown(w, s), r, l2, d2)
<1>1. PICK v : v = Grown(w, s)
  OBVIOUS
<1>2. /\ w \in Seq(Bytes) /\ s \in Seq(Bytes) /\ Len(w) =< RingSize /\ Block(s)
      /\ p \in 0 .. Reports /\ l \subseteq l2 /\ g \in Seq(1 .. Reports)
      /\ Len(w) + Len(s) >= RingSize =>
           d2 /\ ReportsIn(w) \cup ReportsIn(r) \cup ReportsIn(s) \subseteq l2
  BY DEF Sent, Prints, Block
<1>3. PICK m \in Nat : m = Len(w)
  BY <1>2
<1>4. PICK k \in Nat : k = Len(s)
  BY <1>2
<1>5. /\ v \in Seq(Bytes) /\ Len(v) = m + k /\ DOMAIN v = 1 .. m + k
      /\ DOMAIN w = 1 .. m /\ DOMAIN s = 1 .. k
      /\ \A i \in 1 .. m : v[i] = w[i]
      /\ \A i \in m + 1 .. m + k : i - m \in 1 .. k /\ v[i] = s[i - m]
      /\ \A n \in ReportsIn(v) : n \in ReportsIn(w) \/ n \in ReportsIn(s)
  BY <1>1, <1>2, <1>3, <1>4, FittingShape
<1>6. /\ q \in 0 .. Reports /\ p =< q
      /\ \A n \in ReportsIn(s) : n = p + 1 /\ n = q
  BY <1>2, NewReports
<1>7. /\ Increasing(g) /\ \A i \in DOMAIN g : g[i] =< p /\ g[i] \in Nat
      /\ \A n \in ReportsIn(w) \cup ReportsIn(r) : n =< p /\ n \in Nat /\ \A i \in DOMAIN g : g[i] < n
  <2>1. Received(w, r, g, p)
    BY DEF Sent
  <2>2. \A i \in DOMAIN g : g[i] \in Nat
    BY <1>2, Sizes
  <2>3. \A n \in ReportsIn(w) \cup ReportsIn(r) : n \in Nat
    BY Sizes DEF ReportsIn
  <2> QED BY <2>1, <2>2, <2>3 DEF Received
<1>8. Received(v, r, g, q)
  <2>1. \A i \in DOMAIN g : g[i] =< q
    BY <1>2, <1>6, <1>7
  <2>2. ASSUME NEW n \in ReportsIn(v) \cup ReportsIn(r)
        PROVE  n =< q /\ \A i \in DOMAIN g : g[i] < n
    <3>1. CASE n \in ReportsIn(w) \cup ReportsIn(r)
      BY <1>2, <1>6, <1>7, <3>1
    <3>2. CASE n \in ReportsIn(s)
      BY <1>2, <1>6, <1>7, <3>2
    <3> QED BY <1>5, <3>1, <3>2
  <2> QED BY <1>7, <2>1, <2>2 DEF Received
<1>9. ASSUME NEW n \in 1 .. q
      PROVE  n \in l2 \/ n \in Range(g) \/ WholeIn(n, v, r, a) \/ HalfIn(n, v, r)
  <2>1. CASE n =< p
    <3>1. n \in l \/ n \in Range(g) \/ WholeIn(n, w, r, a) \/ HalfIn(n, w, r)
      BY <1>2, <2>1 DEF Sent, Accounted
    <3>2. CASE WholeIn(n, w, r, a)
      <4>1. PICK i \in 1 .. m : w[i] = <<n, 1>> /\ (i = 1 => r = <<>> \/ a)
        BY <1>5, <3>2 DEF WholeIn
      <4>2. i \in DOMAIN v /\ v[i] = <<n, 1>>
        BY <1>5, <4>1
      <4> QED BY <4>1, <4>2 DEF WholeIn
    <3>3. CASE HalfIn(n, w, r)
      <4>1. PICK j \in 1 .. Body : r = Prefix(n, j) /\ w # <<>> /\ w[1] = NextByte(n, j)
        BY <3>3 DEF HalfIn
      <4>2. v # <<>> /\ v[1] = w[1]
        BY <1>2, <1>3, <1>5, <4>1
      <4> QED BY <4>1, <4>2 DEF HalfIn
    <3> QED BY <1>2, <3>1, <3>2, <3>3
  <2>2. CASE n > p
    <3>1. n = q /\ q = p + 1 /\ s = FrameOf(q) /\ q \in 0 .. Reports + 1
      BY <1>2, <1>6, <2>2, Sizes DEF Prints
    <3>2. s[2] = <<n, 1>> /\ k = Body + 2
      BY <1>4, <3>1, FrameIsBlock, FrameShape
    <3>3. m + 2 \in m + 1 .. m + k /\ (m + 2) - m = 2 /\ m + 2 # 1
      BY <3>2, Sizes
    <3>4. v[m + 2] = <<n, 1>> /\ m + 2 \in DOMAIN v
      BY <1>5, <3>2, <3>3
    <3> QED BY <3>3, <3>4 DEF WholeIn
  <2> QED BY <1>2, <1>6, <2>1, <2>2
<1>10. FullIsHit(v, r, l2, d2)
  <2>1. ASSUME Len(v) = RingSize
        PROVE  d2 /\ ReportsIn(v) \cup ReportsIn(r) \subseteq l2
    <3>1. d2 /\ ReportsIn(w) \cup ReportsIn(r) \cup ReportsIn(s) \subseteq l2
      BY <1>2, <1>3, <1>4, <1>5, <2>1, Sizes
    <3> QED BY <1>5, <3>1
  <2> QED BY <2>1 DEF FullIsHit
<1> QED BY <1>1, <1>8, <1>9, <1>10 DEF Accounted

LEMMA FittingUndisturbed ==
    ASSUME NEW w \in Seq(Bytes), Len(w) =< RingSize, NEW r, NEW z, NEW a, Undisturbed(w, r, z, a),
           NEW s, Block(s), Len(w) + Len(s) =< RingSize
    PROVE  Undisturbed(Grown(w, s), r, z, a)
<1>1. PICK v : v = Grown(w, s)
  OBVIOUS
<1>2. s \in Seq(Bytes) /\ Len(s) \in Nat /\ Len(w) \in Nat
  BY DEF Block
<1>3. CASE w # <<>>
  <2>1. v # <<>> /\ v[1] = w[1]
    <3>1. Len(w) > 0 /\ v \in Seq(Bytes) /\ Len(v) = Len(w) + Len(s) /\ \A i \in 1 .. Len(w) : v[i] = w[i]
      BY <1>1, <1>3, FittingShape
    <3> QED BY <1>2, <3>1
  <2> QED BY <1>1, <1>3, <2>1 DEF Undisturbed, AtFrame, Continued
<1>4. CASE w = <<>>
  <2>1. v = s
    <3>1. v \in Seq(Bytes) /\ Len(v) = Len(s) /\ \A i \in 1 .. Len(s) : v[i] = s[i]
      <4>1. Len(w) = 0
        BY <1>4
      <4>2. /\ v \in Seq(Bytes) /\ Len(v) = Len(w) + Len(s)
            /\ \A i \in Len(w) + 1 .. Len(w) + Len(s) : v[i] = s[i - Len(w)]
        BY <1>1, FittingShape
      <4> QED BY <1>2, <4>1, <4>2
    <3> QED BY <1>2, <3>1, SeqEqual
  <2>2. v = <<>> \/ v[1] = Flag
    BY <2>1 DEF Block
  <2>3. AtFrame(v)
    BY <2>2 DEF AtFrame
  <2>4. ASSUME NEW n \in Status .. Request, NEW k \in 1 .. Body, Continued(n, k, w)
        PROVE  Continued(n, k, v)
    <3>1. k = Body /\ NextByte(n, k) = Flag
      BY <1>4, <2>4, NextBytes DEF Continued
    <3> QED BY <2>2, <3>1 DEF Continued
  <2> QED BY <1>1, <2>3, <2>4 DEF Undisturbed
<1> QED BY <1>3, <1>4

(* It does not fit: what is left is an end of what has been printed.          *)
LEMMA OverrunShape ==
    ASSUME NEW w \in Seq(Bytes), Len(w) =< RingSize, NEW s, Block(s),
           Len(w) + Len(s) > RingSize
    PROVE  \E c \in Nat :
             LET v == Grown(w, s)
             IN  /\ v \in Seq(Bytes) /\ Len(v) + c = Len(s) /\ Len(v) > 0 /\ Len(v) =< RingSize
                 /\ DOMAIN v = 1 .. Len(v)
                 /\ \A i \in 1 .. Len(v) : i + c \in 1 .. Len(s) /\ v[i] = s[i + c]
<1>1. s \in Seq(Bytes) /\ Len(s) < RingSize /\ Len(s) \in Nat /\ Len(w) \in Nat
  BY Sizes DEF Block
<1>2. PICK v : v = Grown(w, s)
  OBVIOUS
<1>3. PICK c \in Nat : c = RingSize - Len(w)
  BY <1>1, Sizes
<1>4. /\ v \in Seq(Bytes) /\ Len(v) = Len(w) + Len(s) - RingSize
      /\ \A i \in 1 .. Len(w) + Len(s) - RingSize :
            /\ i + RingSize - Len(w) \in 1 .. Len(s)
            /\ v[i] = s[i + RingSize - Len(w)]
  BY <1>1, <1>2, GrownShape
<1>5. Len(v) + c = Len(s) /\ Len(v) > 0 /\ Len(v) =< RingSize
  <2>1. PICK n \in Nat, m \in Nat : n = Len(w) /\ m = Len(s)
    BY <1>1
  <2>2. n =< RingSize /\ n + m > RingSize /\ m < RingSize /\ c = RingSize - n
    BY <1>1, <1>3, <2>1
  <2>3. Len(v) = n + m - RingSize
    BY <1>4, <2>1
  <2> QED BY <2>1, <2>2, <2>3, Sizes
<1>6. ASSUME NEW i \in 1 .. Len(v)
      PROVE  i + c \in 1 .. Len(s) /\ v[i] = s[i + c]
  <2>1. i + RingSize - Len(w) = i + c
    BY <1>1, <1>3, <1>4, Sizes
  <2> QED BY <1>4, <2>1
<1> QED BY <1>2, <1>4, <1>5, <1>6

LEMMA OverrunSent ==
    ASSUME NEW w, NEW r, NEW g, NEW l, NEW p, NEW d, NEW z, NEW a, Sent(w, r, g, l, p, d, z, a),
           NEW s, NEW l2, NEW q, NEW d2, Prints(w, r, l, p, d, s, l2, q, d2),
           Len(w) + Len(s) > RingSize
    PROVE  Sent(Grown(w, s), r, g, l2, q, d2, z, a)
<1>1. PICK v : v = Grown(w, s)
  OBVIOUS
<1>2. /\ w \in Seq(Bytes) /\ s \in Seq(Bytes) /\ Len(w) =< RingSize /\ Block(s)
      /\ p \in 0 .. Reports /\ l \subseteq l2 /\ r \in Seq(Bytes) /\ g \in Seq(1 .. Reports)
      /\ Len(w) \in Nat /\ Len(s) \in Nat
  BY DEF Sent, Prints, Block
<1>3. d2 /\ ReportsIn(w) \cup ReportsIn(r) \cup ReportsIn(s) \subseteq l2
  BY <1>2, Sizes DEF Prints
<1>4. PICK c \in Nat :
        /\ v \in Seq(Bytes) /\ Len(v) + c = Len(s) /\ Len(v) > 0 /\ Len(v) =< RingSize
        /\ DOMAIN v = 1 .. Len(v)
        /\ \A i \in 1 .. Len(v) : i + c \in 1 .. Len(s) /\ v[i] = s[i + c]
  <2>1. /\ w \in Seq(Bytes) /\ Len(w) =< RingSize /\ Block(s)
        /\ Len(w) + Len(s) > RingSize
    BY <1>2
  <2> QED BY ONLY <1>1, <2>1, OverrunShape, Zenon
<1>5. /\ q \in 0 .. Reports /\ p =< q
      /\ \A n \in ReportsIn(s) : n = p + 1 /\ n = q
  BY <1>2, NewReports
<1>6. \A n \in ReportsIn(r) : n < p + 1
  BY DEF Sent, Received, ReportsIn
<1>7. DOMAIN s = 1 .. Len(s)
  BY <1>2
<1>8. \A n \in ReportsIn(v) : n \in ReportsIn(s)
  <2> SUFFICES ASSUME NEW n \in ReportsIn(v)
               PROVE  n \in ReportsIn(s)
    OBVIOUS
  <2>1. PICK i \in DOMAIN v : v[i][1] = n /\ n \in 1 .. Reports
    BY ReportsOf
  <2>2. i + c \in DOMAIN s /\ s[i + c][1] = n
    BY <1>4, <1>7, <2>1
  <2> QED BY <2>1, <2>2, ReportsOf
<1>9. Stream(v, r)
  <2>1. ASSUME NEW i \in 1 .. Len(v) - 1
        PROVE  Follows(v[i], v[i + 1])
    <3>1. /\ i \in 1 .. Len(v) /\ i + 1 \in 1 .. Len(v) /\ (i + 1) + c = (i + c) + 1
          /\ i + c \in 1 .. Len(s) - 1
      BY <1>4
    <3>2. v[i] = s[i + c] /\ v[i + 1] = s[(i + c) + 1]
      BY <1>4, <3>1
    <3> QED BY <1>2, <3>1, <3>2 DEF Block
  <2>2. v[Len(v)] = Flag
    <3>1. Len(v) \in 1 .. Len(v) /\ s # <<>>
      BY <1>2, <1>4
    <3>2. v[Len(v)] = s[Len(v) + c]
      BY <1>4, <3>1
    <3> QED BY <1>2, <1>4, <3>1, <3>2 DEF Block
  <2>3. InOrder(v)
    <3> SUFFICES ASSUME NEW i \in DOMAIN v, NEW j \in DOMAIN v, i < j
                 PROVE  Precedes(v[i], v[j])
      BY DEF InOrder
    <3>1. i + c \in DOMAIN s /\ j + c \in DOMAIN s /\ i + c < j + c
          /\ v[i] = s[i + c] /\ v[j] = s[j + c]
      BY <1>4, <1>7
    <3>2. Precedes(s[i + c], s[j + c])
      BY <1>2, <3>1 DEF Block, InOrder
    <3> QED BY <3>1, <3>2
  <2>4. ASSUME NEW i \in DOMAIN r, NEW j \in DOMAIN v
        PROVE  Precedes(r[i], v[j])
    <3>1. \A n \in ReportsIn(v) : n = p + 1
      BY <1>5, <1>8
    <3> QED BY <1>6, <3>1, LaterReports
  <2> QED BY <2>1, <2>2, <2>3, <2>4 DEF Stream, Sent
<1>10. Received(v, r, g, q)
  <2>1. /\ Increasing(g) /\ \A i \in DOMAIN g : g[i] =< p /\ g[i] \in Nat
        /\ \A n \in ReportsIn(r) : n =< p /\ n \in Nat /\ \A i \in DOMAIN g : g[i] < n
    <3>1. Received(w, r, g, p)
      BY DEF Sent
    <3>2. \A i \in DOMAIN g : g[i] \in Nat
      BY <1>2, Sizes
    <3>3. \A n \in ReportsIn(r) : n \in Nat
      BY Sizes DEF ReportsIn
    <3> QED BY <3>1, <3>2, <3>3 DEF Received
  <2>2. \A i \in DOMAIN g : g[i] =< q
    BY <1>2, <1>5, <2>1
  <2>3. ASSUME NEW n \in ReportsIn(v) \cup ReportsIn(r)
        PROVE  n =< q /\ \A i \in DOMAIN g : g[i] < n
    <3>1. CASE n \in ReportsIn(r)
      BY <1>2, <1>5, <2>1, <3>1
    <3>2. CASE n \in ReportsIn(v)
      BY <1>2, <1>5, <1>8, <2>1, <3>2
    <3> QED BY <3>1, <3>2
  <2> QED BY <2>1, <2>2, <2>3 DEF Received
<1>11. ASSUME NEW n \in 1 .. q
       PROVE  n \in l2 \/ n \in Range(g)
  <2>1. n \in 1 .. Reports
    BY <1>5, Sizes
  <2>2. CASE n =< p
    <3>1. n \in l \/ n \in Range(g) \/ WholeIn(n, w, r, a) \/ HalfIn(n, w, r)
      BY <1>2, <2>2 DEF Sent, Accounted
    <3> QED BY <1>2, <1>3, <2>1, <3>1, InWindow
  <2>3. CASE n > p
    <3>1. n = q /\ q = p + 1 /\ s = FrameOf(q) /\ q \in 0 .. Reports + 1
      BY <1>2, <1>5, <2>3, Sizes DEF Prints
    <3>2. s[2] = <<n, 1>> /\ 2 \in DOMAIN s
      BY <1>7, <3>1, FrameIsBlock, FrameShape, Sizes
    <3>3. s[2][1] = n
      BY <3>2
    <3>4. n \in ReportsIn(s)
      BY <2>1, <3>2, <3>3, ReportsOf
    <3> QED BY <1>3, <3>4
  <2> QED BY <1>2, <1>5, <2>2, <2>3
<1>12. FullIsHit(v, r, l2, d2)
  BY <1>3, <1>8 DEF FullIsHit
<1>13. Accounted(v, r, g, l2, q, a)
  BY <1>11 DEF Accounted
<1> QED BY <1>1, <1>2, <1>3, <1>4, <1>5, <1>9, <1>10, <1>12, <1>13 DEF Sent

LEMMA PrintSent ==
    ASSUME NEW w, NEW r, NEW g, NEW l, NEW p, NEW d, NEW z, NEW a, Sent(w, r, g, l, p, d, z, a),
           NEW s, NEW l2, NEW q, NEW d2, Prints(w, r, l, p, d, s, l2, q, d2)
    PROVE  Sent(Grown(w, s), r, g, l2, q, d2, z, a)
<1>1. /\ w \in Seq(Bytes) /\ s \in Seq(Bytes) /\ Len(w) =< RingSize /\ Block(s)
      /\ p \in 0 .. Reports /\ r \in Seq(Bytes) /\ g \in Seq(1 .. Reports)
      /\ Len(w) \in Nat /\ Len(s) \in Nat
  BY DEF Sent, Prints, Block
<1>2. CASE Len(w) + Len(s) > RingSize
  BY <1>2, OverrunSent
<1>3. CASE Len(w) + Len(s) =< RingSize
  <2>1. PICK v : v = Grown(w, s)
    OBVIOUS
  <2>2. v \in Seq(Bytes) /\ Len(v) =< RingSize
    BY <1>1, <1>3, <2>1, FittingShape
  <2>3. Stream(v, r)
    BY <1>3, <2>1, FittingStream
  <2>4. Received(v, r, g, q) /\ Accounted(v, r, g, l2, q, a) /\ FullIsHit(v, r, l2, d2)
    BY <1>3, <2>1, FittingReports
  <2>5. ~d2 => Undisturbed(v, r, z, a)
    <3>1. ASSUME ~d2
          PROVE  Undisturbed(v, r, z, a)
      <4>1. Undisturbed(w, r, z, a)
        BY <3>1 DEF Sent, Prints
      <4> QED BY <1>1, <1>3, <2>1, <4>1, FittingUndisturbed
    <3> QED BY <3>1
  <2>6. q \in 0 .. Reports
    BY <1>1, NewReports
  <2> QED BY <1>1, <2>1, <2>2, <2>3, <2>4, <2>5, <2>6 DEF Sent
<1> QED BY <1>1, <1>2, <1>3, Sizes

LEMMA BodiesDiffer ==
    ASSUME NEW n \in Status .. Request, NEW m \in Status .. Request, BodyOf(n) = BodyOf(m)
    PROVE  n = m
<1>1. Prefix(n, Body) = Prefix(m, Body) /\ Body \in 1 .. Body
  BY Sizes DEF Prefix, BodyOf
<1> QED BY <1>1, PrefixesDiffer

(* The manager takes a flag: what it has read is a frame, or rubbish.          *)
LEMMA FlagCloses ==
    ASSUME NEW w, NEW l, NEW p, NEW d, NEW a, Sent(w, readBuf, got, l, p, d, garbled, a),
           readBuf # <<>>, CaptureByte(Flag)
    PROVE  /\ readBuf' = <<>> /\ got' \in Seq(1 .. Reports)
           /\ Received(w, <<>>, got', p)
           /\ \A n \in Range(got) : n \in Range(got')
           /\ \A n \in 1 .. Reports : readBuf = BodyOf(n) => n \in Range(got')
           /\ \A n \in Status .. Request : readBuf = BodyOf(n) => garbled' = garbled
           /\ readBuf = BodyOf(Request) => got' = got
<1>1. CloseFrame /\ readBuf' = <<>>
  BY DEF CaptureByte
<1>2. /\ readBuf \in Seq(Bytes) /\ got \in Seq(1 .. Reports) /\ w \in Seq(Bytes)
      /\ Received(w, readBuf, got, p) /\ Stream(w, readBuf)
  BY DEF Sent
<1>3. ReportsIn(<<>>) = {}
  BY NothingIsBlock
<1>4. \A n \in 1 .. Reports : n # Request /\ n # Status /\ n \in Status .. Request
  BY FrameReports
<1>5. /\ \A i \in DOMAIN got : got[i] \in Nat
      /\ \A n \in ReportsIn(w) : n \in Nat
  BY <1>2, Sizes DEF ReportsIn
<1>6. CASE UNCHANGED got
  <2>1. Received(w, <<>>, got', p)
    BY <1>2, <1>3, <1>6 DEF Received
  <2>2. \A n \in 1 .. Reports : readBuf # BodyOf(n)
    <3> SUFFICES ASSUME NEW n \in 1 .. Reports, readBuf = BodyOf(n)
                 PROVE  FALSE
      OBVIOUS
    <3>1. n # Request /\ n # Status /\ n \in Status .. Request /\ Request \in Status .. Request
          /\ Status \in Status .. Request
      BY <1>4, Sizes DEF Request, Status
    <3>2. readBuf # BodyOf(Request)
      BY <3>1, BodiesDiffer
    <3>3. PICK m \in Status .. Reports : readBuf = BodyOf(m) /\ got' = IF m = Status THEN got ELSE Append(got, m)
      BY <1>1, <3>1, <3>2 DEF CloseFrame
    <3>4. m = n
      <4>1. m \in Status .. Request
        BY <3>3, Sizes DEF Request, Status
      <4>2. BodyOf(m) = BodyOf(n)
        BY <3>3
      <4> QED BY <3>1, <4>1, <4>2, BodiesDiffer
    <3>5. got' = Append(got, n) /\ n \in 1 .. Reports
      BY <3>1, <3>3, <3>4
    <3>6. Len(got') = Len(got) + 1 /\ Len(got) \in Nat
      BY <1>2, <3>5
    <3> QED BY <1>6, <3>6
  <2>3. \A n \in Status .. Request : readBuf = BodyOf(n) => garbled' = garbled
    BY <1>1 DEF CloseFrame
  <2> QED BY <1>1, <1>2, <1>6, <2>1, <2>2, <2>3
<1>7. ASSUME NEW n \in 1 .. Reports, readBuf = BodyOf(n), got' = Append(got, n), UNCHANGED garbled
      PROVE  /\ got' \in Seq(1 .. Reports)
             /\ Received(w, <<>>, got', p)
             /\ \A m \in Range(got) : m \in Range(got')
             /\ n \in Range(got')
  <2>1. /\ got' \in Seq(1 .. Reports) /\ Len(got') = Len(got) + 1 /\ Len(got) \in Nat
        /\ \A i \in 1 .. Len(got) : got'[i] = got[i]
        /\ got'[Len(got) + 1] = n
        /\ DOMAIN got' = 1 .. Len(got) + 1 /\ DOMAIN got = 1 .. Len(got)
    BY <1>2, <1>7
  <2>2. readBuf = Prefix(n, Body)
    BY <1>7 DEF Prefix, BodyOf
  <2>3. Body \in DOMAIN readBuf /\ readBuf[Body] = <<n, Body>> /\ 1 \in DOMAIN readBuf /\ readBuf[1] = <<n, 1>>
    <3>1. n \in Status .. Request /\ Body \in 0 .. Body /\ Body \in 1 .. Body /\ 1 \in 1 .. Body
      BY <1>4, Sizes
    <3> QED BY <2>2, <3>1, PrefixShape
  <2>4. n \in ReportsIn(readBuf)
    <3>1. readBuf[1][1] = n
      BY <2>3
    <3> QED BY <2>3, <3>1, ReportsOf
  <2>5. n =< p /\ \A i \in DOMAIN got : got[i] < n
    BY <1>2, <2>4 DEF Received
  <2>6. ASSUME NEW m \in ReportsIn(w)
        PROVE  n < m
    <3>1. PICK j \in DOMAIN w : w[j][1] = m /\ m \in 1 .. Reports
      BY ReportsOf
    <3>2. Precedes(readBuf[Body], w[j])
      BY <1>2, <2>3, <3>1 DEF Stream
    <3>3. w[j] \in Bytes
      BY <1>2, <3>1
    <3>4. w[j][2] =< Body /\ w[j][2] \in Int
      BY <3>3, ByteParts, Sizes
    <3>5. readBuf[Body][1] = n /\ readBuf[Body][2] = Body
      BY <2>3
    <3>6. n < m \/ (n = m /\ Body < w[j][2])
      BY <3>1, <3>2, <3>5 DEF Precedes, IsReport
    <3> QED BY <3>4, <3>6, Sizes
  <2>7. Increasing(got')
    <3> SUFFICES ASSUME NEW i \in DOMAIN got', NEW j \in DOMAIN got', i < j
                 PROVE  got'[i] < got'[j]
      BY DEF Increasing
    <3>1. i \in DOMAIN got /\ got'[i] = got[i]
      BY <2>1
    <3>2. CASE j \in DOMAIN got
      <4>1. got[i] < got[j] /\ got'[j] = got[j]
        BY <1>2, <2>1, <3>1, <3>2 DEF Received, Increasing
      <4> QED BY <3>1, <4>1
    <3>3. CASE j = Len(got) + 1
      BY <2>1, <2>5, <3>1, <3>3
    <3> QED BY <2>1, <3>2, <3>3
  <2>8. \A i \in DOMAIN got' : got'[i] =< p /\ \A m \in ReportsIn(w) : got'[i] < m
    <3> SUFFICES ASSUME NEW i \in DOMAIN got'
                 PROVE  got'[i] =< p /\ \A m \in ReportsIn(w) : got'[i] < m
      OBVIOUS
    <3>1. CASE i \in DOMAIN got
      BY <1>2, <2>1, <3>1 DEF Received
    <3>2. CASE i = Len(got) + 1
      BY <2>1, <2>5, <2>6, <3>2
    <3> QED BY <2>1, <3>1, <3>2
  <2>9. Received(w, <<>>, got', p)
    BY <1>2, <1>3, <2>7, <2>8 DEF Received
  <2>10. n \in Range(got') /\ \A m \in Range(got) : m \in Range(got')
    <3>1. \A m \in Range(got) : m \in Range(got')
      <4> SUFFICES ASSUME NEW m \in Range(got)
                   PROVE  m \in Range(got')
        OBVIOUS
      <4>1. PICK i \in DOMAIN got : got[i] = m
        BY DEF Range
      <4>2. i \in DOMAIN got' /\ got'[i] = m
        BY <2>1, <4>1
      <4> QED BY <4>2 DEF Range
    <3>2. Len(got) + 1 \in DOMAIN got'
      BY <2>1
    <3> QED BY <2>1, <3>1, <3>2 DEF Range
  <2> QED BY <2>1, <2>9, <2>10
<1>8. CASE ~UNCHANGED got
  <2>1. PICK n \in Status .. Reports :
          readBuf = BodyOf(n) /\ got' = (IF n = Status THEN got ELSE Append(got, n)) /\ UNCHANGED garbled
    BY <1>1, <1>8 DEF CloseFrame
  <2>2. n \in 1 .. Reports /\ got' = Append(got, n)
    BY <1>8, <2>1, Sizes DEF Status
  <2>3. \A m \in Status .. Request : readBuf = BodyOf(m) => m = n
    BY <1>4, <2>1, <2>2, BodiesDiffer
  <2>4. readBuf # BodyOf(Request)
    BY <1>4, <2>2, <2>3, Sizes DEF Request, Status
  <2>5. /\ got' \in Seq(1 .. Reports)
        /\ Received(w, <<>>, got', p)
        /\ \A m \in Range(got) : m \in Range(got')
        /\ n \in Range(got')
    BY <1>7, <2>1, <2>2
  <2>6. \A m \in 1 .. Reports : readBuf = BodyOf(m) => m \in Range(got')
    BY <1>4, <2>3, <2>5
  <2> QED BY <1>1, <2>1, <2>4, <2>5, <2>6
<1> QED BY <1>6, <1>8

(* The manager reads the next byte of the ring.                               *)
LEMMA TailShape ==
    ASSUME NEW w \in Seq(Bytes), w # <<>>
    PROVE  /\ Tail(w) \in Seq(Bytes) /\ Len(Tail(w)) = Len(w) - 1 /\ DOMAIN Tail(w) = 1 .. Len(w) - 1
           /\ \A i \in 1 .. Len(w) - 1 : i + 1 \in DOMAIN w /\ i \in DOMAIN w /\ Tail(w)[i] = w[i + 1]
           /\ 1 \in DOMAIN w /\ w[1] \in Bytes /\ Len(w) \in Nat /\ Len(w) > 0
           /\ \A n \in ReportsIn(Tail(w)) : n \in ReportsIn(w)
<1>1. /\ Tail(w) \in Seq(Bytes) /\ Len(Tail(w)) = Len(w) - 1
      /\ \A i \in 1 .. Len(Tail(w)) : Tail(w)[i] = w[i + 1]
  BY HeadTailProperties
<1>2. Len(w) \in Nat /\ Len(w) > 0 /\ DOMAIN w = 1 .. Len(w)
  OBVIOUS
<1>3. DOMAIN Tail(w) = 1 .. Len(w) - 1
  BY <1>1, <1>2
<1>4. \A i \in 1 .. Len(w) - 1 : i + 1 \in DOMAIN w /\ i \in DOMAIN w /\ Tail(w)[i] = w[i + 1]
  BY <1>1, <1>2
<1>5. ASSUME NEW n \in ReportsIn(Tail(w))
      PROVE  n \in ReportsIn(w)
  <2>1. PICK i \in DOMAIN Tail(w) : Tail(w)[i][1] = n /\ n \in 1 .. Reports
    BY ReportsOf
  <2>2. i + 1 \in DOMAIN w /\ w[i + 1][1] = n
    BY <1>3, <1>4, <2>1
  <2> QED BY <2>1, <2>2, ReportsOf
<1>6. 1 \in DOMAIN w /\ w[1] \in Bytes
  BY <1>2
<1> QED BY <1>1, <1>2, <1>3, <1>4, <1>5, <1>6

LEMMA TailStream ==
    ASSUME NEW w \in Seq(Bytes), w # <<>>, NEW r, Stream(w, r)
    PROVE  /\ \A i \in 1 .. Len(Tail(w)) - 1 : Follows(Tail(w)[i], Tail(w)[i + 1])
           /\ Tail(w) # <<>> => Tail(w)[Len(Tail(w))] = Flag /\ Follows(w[1], Tail(w)[1])
           /\ InOrder(Tail(w))
           /\ \A i \in DOMAIN r, j \in DOMAIN Tail(w) : Precedes(r[i], Tail(w)[j])
           /\ \A j \in DOMAIN Tail(w) : Precedes(w[1], Tail(w)[j])
           /\ w[1] # Flag => Tail(w) # <<>>
<1>1. PICK t \in Seq(Bytes) : t = Tail(w)
  BY TailShape
<1>2. /\ Len(t) = Len(w) - 1 /\ DOMAIN t = 1 .. Len(w) - 1
      /\ \A i \in 1 .. Len(w) - 1 : i + 1 \in DOMAIN w /\ i \in DOMAIN w /\ t[i] = w[i + 1]
      /\ 1 \in DOMAIN w /\ Len(w) \in Nat /\ Len(w) > 0
  BY <1>1, TailShape
<1>3. ASSUME NEW i \in 1 .. Len(t) - 1
      PROVE  Follows(t[i], t[i + 1])
  <2>1. /\ i \in 1 .. Len(w) - 1 /\ i + 1 \in 1 .. Len(w) - 1
    BY <1>2
  <2>2. t[i] = w[i + 1] /\ t[i + 1] = w[(i + 1) + 1]
    BY <1>2, <2>1
  <2> QED BY <2>1, <2>2 DEF Stream
<1>4. ASSUME t # <<>>
      PROVE  t[Len(t)] = Flag /\ Follows(w[1], t[1])
  <2>1. Len(t) \in 1 .. Len(w) - 1 /\ 1 \in 1 .. Len(w) - 1 /\ Len(t) + 1 = Len(w) /\ 1 + 1 = 2
    BY <1>2, <1>4
  <2>2. t[Len(t)] = w[Len(t) + 1] /\ t[1] = w[1 + 1]
    BY <1>2, <2>1
  <2>3. w[Len(w)] = Flag
    BY DEF Stream
  <2>4. Follows(w[1], w[1 + 1])
    BY <2>1 DEF Stream
  <2> QED BY <2>1, <2>2, <2>3, <2>4
<1>5. InOrder(t)
  <2>1. InOrder(w)
    BY DEF Stream
  <2> SUFFICES ASSUME NEW i \in DOMAIN t, NEW j \in DOMAIN t, i < j
               PROVE  Precedes(t[i], t[j])
    BY DEF InOrder
  <2>2. i + 1 \in DOMAIN w /\ j + 1 \in DOMAIN w /\ i + 1 < j + 1 /\ t[i] = w[i + 1] /\ t[j] = w[j + 1]
    BY <1>2
  <2> QED BY <2>1, <2>2 DEF InOrder
<1>6. ASSUME NEW j \in DOMAIN t
      PROVE  Precedes(w[1], t[j]) /\ \A i \in DOMAIN r : Precedes(r[i], t[j])
  <2>1. j + 1 \in DOMAIN w /\ 1 < j + 1 /\ t[j] = w[j + 1]
    BY <1>2
  <2>2. InOrder(w) /\ \A i \in DOMAIN r : Precedes(r[i], w[j + 1])
    BY <2>1 DEF Stream
  <2> QED BY <1>2, <2>1, <2>2 DEF InOrder
<1>7. w[1] # Flag => t # <<>>
  <2>1. w[Len(w)] = Flag
    BY DEF Stream
  <2> QED BY <1>2, <2>1
<1> QED BY <1>1, <1>3, <1>4, <1>5, <1>6, <1>7

(* A report that lies whole in the ring and does not come next lies whole     *)
(* behind a flag.                                                             *)
LEMMA WholeAfter ==
    ASSUME NEW w \in Seq(Bytes), w # <<>>, NEW r, Stream(w, r), NEW n \in 1 .. Reports,
           NEW i \in DOMAIN w, w[i] = <<n, 1>>, i # 1, NEW s, w[1] = Flag => s = <<>>, NEW a
    PROVE  WholeIn(n, Tail(w), s, a)
<1>1. PICK t \in Seq(Bytes) : t = Tail(w)
  BY TailShape
<1>2. /\ Len(t) = Len(w) - 1 /\ DOMAIN t = 1 .. Len(w) - 1 /\ DOMAIN w = 1 .. Len(w)
      /\ \A j \in 1 .. Len(w) - 1 : t[j] = w[j + 1]
      /\ w[1] \in Bytes /\ Len(w) \in Nat /\ Len(w) > 0
  BY <1>1, TailShape
<1>3. i - 1 \in 1 .. Len(w) - 1 /\ (i - 1) + 1 = i
  BY <1>2
<1>4. i - 1 \in DOMAIN t /\ t[i - 1] = <<n, 1>>
  BY <1>2, <1>3
<1>5. ASSUME i - 1 = 1
      PROVE  s = <<>>
  <2>1. Follows(w[1], <<n, 1>>)
    <3>1. t # <<>> /\ t[1] = <<n, 1>>
      BY <1>2, <1>4, <1>5
    <3>2. Follows(w[1], t[1])
      BY <1>1, <3>1, TailStream
    <3> QED BY <3>1, <3>2
  <2>2. w[1] = Flag
    <3>1. SUFFICES ASSUME w[1] # Flag
                   PROVE  FALSE
      OBVIOUS
    <3>2. <<n, 1>> = NextByte(w[1][1], w[1][2])
      BY <2>1, <3>1 DEF Follows
    <3>3. w[1][2] \in 1 .. Body
      <4>1. w[1] \in Bytes
        BY <1>2
      <4>2. w[1][2] \in 0 .. Body /\ w[1][2] # 0
        BY <3>1, <4>1, ByteParts
      <4> QED BY <4>2, Sizes
    <3> QED BY <3>2, <3>3, Sizes DEF NextByte, Flag
  <2> QED BY <2>2
<1> QED BY <1>1, <1>4, <1>5 DEF WholeIn

LEMMA AppendShape ==
    ASSUME NEW r \in Seq(Bytes), NEW b \in Bytes
    PROVE  /\ Append(r, b) \in Seq(Bytes) /\ Append(r, b) # <<>>
           /\ Len(Append(r, b)) = Len(r) + 1 /\ Len(r) \in Nat
           /\ DOMAIN Append(r, b) = 1 .. Len(r) + 1 /\ DOMAIN r = 1 .. Len(r)
           /\ \A i \in DOMAIN r : Append(r, b)[i] = r[i]
           /\ Append(r, b)[Len(r) + 1] = b
           /\ \A n \in ReportsIn(Append(r, b)) : n \in ReportsIn(r) \/ n = b[1]
<1>1. PICK v : v = Append(r, b)
  OBVIOUS
<1>2. /\ v \in Seq(Bytes) /\ v # <<>> /\ Len(v) = Len(r) + 1 /\ Len(r) \in Nat
      /\ DOMAIN v = 1 .. Len(r) + 1 /\ DOMAIN r = 1 .. Len(r)
      /\ \A i \in 1 .. Len(r) : v[i] = r[i]
      /\ v[Len(r) + 1] = b
  BY <1>1
<1>3. ASSUME NEW n \in ReportsIn(v), n # b[1]
      PROVE  n \in ReportsIn(r)
  <2>1. PICK i \in DOMAIN v : v[i][1] = n /\ n \in 1 .. Reports
    BY ReportsOf
  <2>2. i \in DOMAIN r /\ r[i][1] = n
    BY <1>2, <1>3, <2>1
  <2> QED BY <2>1, <2>2, ReportsOf
<1> QED BY <1>1, <1>2, <1>3

(* ... a byte of a body ...                                                   *)
LEMMA ReadsBody ==
    ASSUME NEW w, NEW r, NEW g, NEW l, NEW p, NEW d, NEW z, Sent(w, r, g, l, p, d, z, FALSE),
           w # <<>>, w[1] # Flag
    PROVE  Sent(Tail(w), Append(r, w[1]), g, l, p, d, z, FALSE)
<1>1. /\ w \in Seq(Bytes) /\ r \in Seq(Bytes) /\ Stream(w, r) /\ Received(w, r, g, p)
      /\ p \in 0 .. Reports /\ Len(w) =< RingSize /\ g \in Seq(1 .. Reports)
  BY DEF Sent
<1>2. PICK t \in Seq(Bytes) : t = Tail(w)
  BY <1>1, TailShape
<1>3. PICK b \in Bytes : b = w[1]
  BY <1>1, TailShape
<1>4. PICK v \in Seq(Bytes) : v = Append(r, b)
  BY <1>1, AppendShape
<1>5. /\ Len(t) < RingSize /\ t # <<>> /\ Follows(b, t[1])
      /\ \A n \in ReportsIn(t) : n \in ReportsIn(w)
  <2>1. /\ Len(t) = Len(w) - 1 /\ Len(w) \in Nat /\ \A n \in ReportsIn(t) : n \in ReportsIn(w)
    BY <1>1, <1>2, TailShape
  <2>2. Len(t) < RingSize
    BY <1>1, <2>1, Sizes
  <2>3. t # <<>>
    BY <1>1, <1>2, TailStream
  <2>4. Follows(w[1], t[1])
    BY <1>1, <1>2, <2>3, TailStream
  <2> QED BY <1>3, <2>1, <2>2, <2>3, <2>4
<1>6. /\ v # <<>> /\ DOMAIN v = 1 .. Len(r) + 1 /\ DOMAIN r = 1 .. Len(r) /\ Len(r) \in Nat
      /\ \A i \in DOMAIN r : v[i] = r[i]
      /\ v[Len(r) + 1] = b
      /\ \A n \in ReportsIn(v) : n \in ReportsIn(r) \/ n = b[1]
  BY <1>1, <1>4, AppendShape
<1>7. 1 \in DOMAIN w
  BY <1>1, TailShape
<1>8. Stream(t, v)
  <2>1. InOrder(v)
    <3> SUFFICES ASSUME NEW i \in DOMAIN v, NEW j \in DOMAIN v, i < j
                 PROVE  Precedes(v[i], v[j])
      BY DEF InOrder
    <3>1. i \in DOMAIN r
      BY <1>6
    <3>2. CASE j \in DOMAIN r
      <4>1. InOrder(r)
        BY <1>1 DEF Stream
      <4>2. Precedes(r[i], r[j])
        BY <3>1, <3>2, <4>1 DEF InOrder
      <4> QED BY <1>6, <3>1, <3>2, <4>2
    <3>3. CASE j = Len(r) + 1
      <4>1. Precedes(r[i], w[1])
        BY <1>1, <1>7, <3>1 DEF Stream
      <4> QED BY <1>3, <1>6, <3>1, <3>3, <4>1
    <3> QED BY <1>6, <3>2, <3>3
  <2>2. ASSUME NEW i \in DOMAIN v, NEW j \in DOMAIN t
        PROVE  Precedes(v[i], t[j])
    <3>1. CASE i \in DOMAIN r
      <4>1. Precedes(r[i], t[j])
        BY <1>1, <1>2, <3>1, TailStream
      <4> QED BY <1>6, <3>1, <4>1
    <3>2. CASE i = Len(r) + 1
      <4>1. Precedes(w[1], t[j])
        BY <1>1, <1>2, TailStream
      <4> QED BY <1>3, <1>6, <3>2, <4>1
    <3> QED BY <1>6, <3>1, <3>2
  <2>3. /\ \A i \in 1 .. Len(t) - 1 : Follows(t[i], t[i + 1])
        /\ t # <<>> => t[Len(t)] = Flag
        /\ InOrder(t)
    BY <1>1, <1>2, TailStream
  <2> QED BY <2>1, <2>2, <2>3 DEF Stream
<1>9. Received(t, v, g, p)
  <2>1. ASSUME NEW n \in ReportsIn(t) \cup ReportsIn(v)
        PROVE  n \in ReportsIn(w) \cup ReportsIn(r)
    <3>1. CASE n \in ReportsIn(v) /\ n = b[1]
      <4>1. n \in 1 .. Reports
        BY <3>1 DEF ReportsIn
      <4> QED BY <1>3, <1>7, <3>1, <4>1, ReportsOf
    <3> QED BY <1>5, <1>6, <3>1
  <2> QED BY <1>1, <2>1 DEF Received
<1>10. ASSUME NEW n \in Status .. Request, NEW k \in 0 .. Body, r = Prefix(n, k), b = <<n, k + 1>>, k < Body
       PROVE  /\ v = Prefix(n, k + 1) /\ k + 1 \in 1 .. Body
              /\ t[1] = NextByte(n, k + 1)
  <2>1. v = Prefix(n, k + 1)
    BY <1>4, <1>10, PrefixShape
  <2>2. t[1] = NextByte(b[1], b[2])
    BY <1>3, <1>5 DEF Follows
  <2>3. b[1] = n /\ b[2] = k + 1
    BY <1>10
  <2> QED BY <1>10, <2>1, <2>2, <2>3, Sizes
<1>11. ASSUME NEW n \in 1 .. p
       PROVE  n \in l \/ n \in Range(g) \/ WholeIn(n, t, v, FALSE) \/ HalfIn(n, t, v)
  <2>1. n \in 1 .. Reports /\ n \in Status .. Request
    BY <1>1, FrameReports, Sizes
  <2>2. n \in l \/ n \in Range(g) \/ WholeIn(n, w, r, FALSE) \/ HalfIn(n, w, r)
    BY DEF Sent, Accounted
  <2>3. CASE WholeIn(n, w, r, FALSE)
    <3>1. PICK i \in DOMAIN w : w[i] = <<n, 1>> /\ (i = 1 => r = <<>>)
      BY <2>3 DEF WholeIn
    <3>2. CASE i = 1
      <4>1. r = Prefix(n, 0) /\ b = <<n, 0 + 1>> /\ 0 < Body /\ 0 \in 0 .. Body
        BY <1>3, <2>1, <3>1, <3>2, PrefixShape, Sizes
      <4>2. v = Prefix(n, 0 + 1) /\ 0 + 1 \in 1 .. Body /\ t[1] = NextByte(n, 0 + 1)
        BY <1>10, <2>1, <4>1
      <4> QED BY <1>5, <4>2 DEF HalfIn
    <3>3. CASE i # 1
      BY <1>1, <1>2, <2>1, <3>1, <3>3, WholeAfter
    <3> QED BY <3>2, <3>3
  <2>4. CASE HalfIn(n, w, r)
    <3>1. PICK k \in 1 .. Body : r = Prefix(n, k) /\ b = NextByte(n, k)
      BY <1>3, <2>4 DEF HalfIn
    <3>2. k < Body /\ b = <<n, k + 1>> /\ k \in 0 .. Body
      BY <1>3, <3>1, NextBytes, Sizes
    <3>3. v = Prefix(n, k + 1) /\ k + 1 \in 1 .. Body /\ t[1] = NextByte(n, k + 1)
      BY <1>10, <2>1, <3>1, <3>2
    <3> QED BY <1>5, <3>3 DEF HalfIn
  <2> QED BY <2>2, <2>3, <2>4
<1>12. FullIsHit(t, v, l, d)
  BY <1>5, Sizes DEF FullIsHit
<1>13. ASSUME ~d
       PROVE  Undisturbed(t, v, z, FALSE)
  <2>1. Undisturbed(w, r, z, FALSE)
    BY <1>13 DEF Sent
  <2>2. PICK n \in Status .. Request, k \in 0 .. Body : r = Prefix(n, k) /\ b = <<n, k + 1>> /\ k < Body
    <3>1. CASE r = <<>>
      <4>1. b[2] = 1
        BY <1>3, <2>1, <3>1 DEF Undisturbed, AtFrame
      <4>2. b[1] \in Status .. Request /\ b = <<b[1], 0 + 1>>
        BY <4>1, ByteParts, Sizes DEF Status, Request
      <4>3. r = Prefix(b[1], 0) /\ 0 \in 0 .. Body /\ 0 < Body
        BY <3>1, <4>2, PrefixShape, Sizes
      <4> QED BY <4>2, <4>3
    <3>2. CASE r # <<>>
      <4>1. PICK n \in Status .. Request, k \in 1 .. Body : r = Prefix(n, k) /\ b = NextByte(n, k)
        BY <1>3, <2>1, <3>2 DEF Undisturbed, Continued
      <4>2. k < Body /\ b = <<n, k + 1>> /\ k \in 0 .. Body
        BY <1>3, <4>1, NextBytes, Sizes
      <4> QED BY <4>1, <4>2
    <3> QED BY <3>1, <3>2
  <2>3. v = Prefix(n, k + 1) /\ k + 1 \in 1 .. Body /\ t[1] = NextByte(n, k + 1)
    BY <1>10, <2>2
  <2> QED BY <1>5, <1>6, <2>1, <2>3 DEF Undisturbed, Continued
<1>14. Accounted(t, v, g, l, p, FALSE)
  BY <1>11 DEF Accounted
<1>15. Len(t) =< RingSize
  BY <1>2, <1>5, Sizes
<1>16. Sent(t, v, g, l, p, d, z, FALSE)
  BY <1>1, <1>2, <1>4, <1>8, <1>9, <1>12, <1>13, <1>14, <1>15 DEF Sent
<1> QED BY <1>2, <1>3, <1>4, <1>16

(* ... a flag between two frames ...                                          *)
LEMMA ReadsOpening ==
    ASSUME NEW w, NEW g, NEW l, NEW p, NEW d, NEW z, Sent(w, <<>>, g, l, p, d, z, FALSE),
           w # <<>>, w[1] = Flag
    PROVE  Sent(Tail(w), <<>>, g, l, p, d, z, FALSE)
<1>1. /\ w \in Seq(Bytes) /\ Stream(w, <<>>) /\ Received(w, <<>>, g, p)
      /\ p \in 0 .. Reports /\ Len(w) =< RingSize /\ g \in Seq(1 .. Reports) /\ <<>> \in Seq(Bytes)
  BY DEF Sent
<1>2. PICK t \in Seq(Bytes) : t = Tail(w)
  BY <1>1, TailShape
<1>3. /\ Len(t) = Len(w) - 1 /\ Len(w) \in Nat /\ \A n \in ReportsIn(t) : n \in ReportsIn(w)
  BY <1>1, <1>2, TailShape
<1>4. Len(t) # RingSize /\ Len(t) =< RingSize
  BY <1>1, <1>3, Sizes
<1>5. Stream(t, <<>>)
  <2>1. InOrder(<<>>)
    BY DEF InOrder
  <2> QED BY <1>1, <1>2, <2>1, TailStream DEF Stream
<1>6. Received(t, <<>>, g, p)
  BY <1>1, <1>3 DEF Received
<1>7. ASSUME NEW n \in 1 .. p
      PROVE  n \in l \/ n \in Range(g) \/ WholeIn(n, t, <<>>, FALSE)
  <2>1. n \in 1 .. Reports /\ n \in Status .. Request
    BY <1>1, FrameReports, Sizes
  <2>2. n \in l \/ n \in Range(g) \/ WholeIn(n, w, <<>>, FALSE) \/ HalfIn(n, w, <<>>)
    BY DEF Sent, Accounted
  <2>3. CASE WholeIn(n, w, <<>>, FALSE)
    <3>1. PICK i \in DOMAIN w : w[i] = <<n, 1>>
      BY <2>3 DEF WholeIn
    <3>2. i # 1
      BY <3>1 DEF Flag
    <3> QED BY <1>1, <1>2, <2>1, <3>1, <3>2, WholeAfter
  <2>4. CASE HalfIn(n, w, <<>>)
    <3>1. PICK k \in 1 .. Body : <<>> = Prefix(n, k)
      BY <2>4 DEF HalfIn
    <3> QED BY <2>1, <3>1, PrefixShape
  <2> QED BY <2>2, <2>3, <2>4
<1>8. ASSUME ~d
      PROVE  Undisturbed(t, <<>>, z, FALSE)
  <2>1. ~z
    BY <1>8 DEF Sent, Undisturbed
  <2>2. t # <<>> => Follows(Flag, t[1])
    BY <1>1, <1>2, TailStream
  <2> QED BY <2>1, <2>2 DEF Undisturbed, AtFrame, Follows
<1>9. Accounted(t, <<>>, g, l, p, FALSE) /\ FullIsHit(t, <<>>, l, d)
  BY <1>4, <1>7 DEF Accounted, FullIsHit
<1> QED BY <1>1, <1>2, <1>4, <1>5, <1>6, <1>8, <1>9 DEF Sent

(* ... or the flag that ends a frame, or cuts one.                            *)
LEMMA ReadsClosing ==
    ASSUME NEW w, NEW l, NEW p, NEW d, Sent(w, readBuf, got, l, p, d, garbled, FALSE),
           w # <<>>, w[1] = Flag, readBuf # <<>>, CaptureByte(Flag)
    PROVE  readBuf' = <<>> /\ Sent(Tail(w), <<>>, got', l, p, d, garbled', FALSE)
<1>1. /\ w \in Seq(Bytes) /\ readBuf \in Seq(Bytes) /\ Stream(w, readBuf)
      /\ p \in 0 .. Reports /\ Len(w) =< RingSize /\ <<>> \in Seq(Bytes)
  BY DEF Sent
<1>2. PICK t \in Seq(Bytes) : t = Tail(w)
  BY <1>1, TailShape
<1>3. /\ Len(t) = Len(w) - 1 /\ Len(w) \in Nat /\ \A n \in ReportsIn(t) : n \in ReportsIn(w)
  BY <1>1, <1>2, TailShape
<1>4. Len(t) # RingSize /\ Len(t) =< RingSize
  BY <1>1, <1>3, Sizes
<1>5. Stream(t, <<>>)
  <2>1. InOrder(<<>>) /\ \A i \in DOMAIN <<>> : FALSE
    BY DEF InOrder
  <2> QED BY <1>1, <1>2, <2>1, TailStream DEF Stream
<1>6. PICK h : h = got'
  OBVIOUS
<1>7. /\ readBuf' = <<>> /\ h \in Seq(1 .. Reports)
      /\ Received(w, <<>>, h, p)
      /\ \A n \in Range(got) : n \in Range(h)
      /\ \A n \in 1 .. Reports : readBuf = BodyOf(n) => n \in Range(h)
      /\ \A n \in Status .. Request : readBuf = BodyOf(n) => garbled' = garbled
  BY <1>6, FlagCloses
<1>8. Received(t, <<>>, h, p)
  BY <1>3, <1>7 DEF Received
<1>9. ASSUME NEW n \in 1 .. p
      PROVE  n \in l \/ n \in Range(h) \/ WholeIn(n, t, <<>>, FALSE)
  <2>1. n \in 1 .. Reports /\ n \in Status .. Request
    BY <1>1, FrameReports, Sizes
  <2>2. n \in l \/ n \in Range(got) \/ WholeIn(n, w, readBuf, FALSE) \/ HalfIn(n, w, readBuf)
    BY DEF Sent, Accounted
  <2>3. CASE WholeIn(n, w, readBuf, FALSE)
    <3>1. PICK i \in DOMAIN w : w[i] = <<n, 1>>
      BY <2>3 DEF WholeIn
    <3>2. i # 1
      BY <3>1 DEF Flag
    <3> QED BY <1>1, <1>2, <2>1, <3>1, <3>2, WholeAfter
  <2>4. CASE HalfIn(n, w, readBuf)
    <3>1. PICK k \in 1 .. Body : readBuf = Prefix(n, k) /\ NextByte(n, k) = Flag
      BY <2>4 DEF HalfIn
    <3>2. k = Body
      BY <3>1, NextBytes
    <3>3. readBuf = BodyOf(n)
      BY <3>1, <3>2 DEF Prefix, BodyOf
    <3> QED BY <1>7, <2>1, <3>3
  <2> QED BY <1>7, <2>2, <2>3, <2>4
<1>10. ASSUME ~d
       PROVE  Undisturbed(t, <<>>, garbled', FALSE)
  <2>1. Undisturbed(w, readBuf, garbled, FALSE)
    BY <1>10 DEF Sent
  <2>2. PICK n \in Status .. Request, k \in 1 .. Body : readBuf = Prefix(n, k) /\ Flag = NextByte(n, k)
    BY <2>1 DEF Undisturbed, Continued
  <2>3. k = Body
    BY <2>2, NextBytes
  <2>4. readBuf = BodyOf(n)
    BY <2>2, <2>3 DEF Prefix, BodyOf
  <2>5. ~garbled'
    BY <1>7, <2>1, <2>4 DEF Undisturbed
  <2>6. t # <<>> => Follows(Flag, t[1])
    BY <1>1, <1>2, TailStream
  <2> QED BY <2>5, <2>6 DEF Undisturbed, AtFrame, Follows
<1>11. Accounted(t, <<>>, h, l, p, FALSE) /\ FullIsHit(t, <<>>, l, d)
  BY <1>4, <1>9 DEF Accounted, FullIsHit
<1>12. PICK y : y = garbled'
  OBVIOUS
<1>13. Sent(t, <<>>, h, l, p, d, y, FALSE)
  BY <1>1, <1>2, <1>4, <1>5, <1>7, <1>8, <1>10, <1>11, <1>12 DEF Sent
<1> QED BY <1>2, <1>6, <1>7, <1>12, <1>13

LEMMA ReadSent ==
    ASSUME NEW w, NEW l, NEW p, NEW d, Sent(w, readBuf, got, l, p, d, garbled, FALSE),
           w # <<>>, CaptureByte(w[1])
    PROVE  Sent(Tail(w), readBuf', got', l, p, d, garbled', FALSE)
<1>1. CASE w[1] # Flag
  <2>1. readBuf' = Append(readBuf, w[1]) /\ got' = got /\ garbled' = garbled
    BY <1>1 DEF CaptureByte
  <2>2. Sent(Tail(w), Append(readBuf, w[1]), got, l, p, d, garbled, FALSE)
    BY <1>1, ReadsBody
  <2> QED BY <2>1, <2>2
<1>2. CASE w[1] = Flag /\ readBuf = <<>>
  <2>1. readBuf' = <<>> /\ got' = got /\ garbled' = garbled
    BY <1>2 DEF CaptureByte, manager
  <2>2. Sent(Tail(w), <<>>, got, l, p, d, garbled, FALSE)
    BY <1>2, ReadsOpening
  <2> QED BY <2>1, <2>2
<1>3. CASE w[1] = Flag /\ readBuf # <<>>
  BY <1>3, ReadsClosing
<1> QED BY <1>1, <1>2, <1>3

-----------------------------------------------------------------------------
(* The request goes out over what the ring holds.                             *)

Torn(w, r) == r # <<>> /\ (Len(r) < Body \/ (w # <<>> /\ w[1] # Flag))
Tears(w, r, l, d, l2, d2) ==
    /\ l \subseteq l2 /\ (d => d2)
    /\ Torn(w, r) => d2 /\ (w # <<>> => ReportsIn(<<w[1]>>) \subseteq l2)

LEMMA TornHead ==
    ASSUME NEW w, NEW r, NEW l, NEW d, NEW l2, NEW d2, Tears(w, r, l, d, l2, d2), Torn(w, r),
           w # <<>>, NEW n \in 1 .. Reports, NEW k, w[1] = <<n, k>>
    PROVE  n \in l2
<1>1. 1 \in DOMAIN <<w[1]>> /\ <<w[1]>>[1][1] = n
  OBVIOUS
<1>2. n \in ReportsIn(<<w[1]>>)
  BY <1>1, ReportsOf
<1> QED BY <1>2 DEF Tears

(* Its flag comes out of turn.                                                *)
LEMMA FlagAsks ==
    ASSUME NEW w, NEW l, NEW p, NEW d, Sent(w, readBuf, got, l, p, d, garbled, FALSE),
           NEW l2, NEW d2, Tears(w, readBuf, l, d, l2, d2), CaptureByte(Flag)
    PROVE  readBuf' = <<>> /\ Sent(w, <<>>, got', l2, p, d2, garbled', TRUE)
<1>1. /\ w \in Seq(Bytes) /\ readBuf \in Seq(Bytes) /\ Stream(w, readBuf)
      /\ p \in 0 .. Reports /\ Len(w) =< RingSize /\ <<>> \in Seq(Bytes)
      /\ got \in Seq(1 .. Reports) /\ l \subseteq l2 /\ (d => d2)
  BY DEF Sent, Tears
<1>2. PICK h, y : h = got' /\ y = garbled'
  OBVIOUS
<1>3. /\ readBuf' = <<>> /\ h \in Seq(1 .. Reports)
      /\ Received(w, <<>>, h, p)
      /\ \A n \in Range(got) : n \in Range(h)
      /\ \A n \in 1 .. Reports : readBuf = BodyOf(n) => n \in Range(h)
      /\ \A n \in Status .. Request : readBuf = BodyOf(n) => y = garbled
      /\ readBuf = <<>> => y = garbled
  <2>1. CASE readBuf # <<>>
    BY <1>2, <2>1, FlagCloses
  <2>2. CASE readBuf = <<>>
    <3>1. readBuf' = readBuf /\ h = got /\ y = garbled
      BY <1>2, <2>2 DEF CaptureByte, manager
    <3>2. \A n \in Status .. Request : <<>> # BodyOf(n)
      <4> SUFFICES ASSUME NEW n \in Status .. Request
                   PROVE  <<>> # BodyOf(n)
        OBVIOUS
      <4>1. Body \in 0 .. Body /\ Body # 0
        BY Sizes
      <4> QED BY <4>1, PrefixShape
    <3>3. Received(w, readBuf, got, p)
      BY DEF Sent
    <3> QED BY <1>1, <2>2, <3>1, <3>2, <3>3, FrameReports
  <2> QED BY <2>1, <2>2
<1>4. Stream(w, <<>>)
  <2>1. InOrder(<<>>) /\ \A i \in DOMAIN <<>> : FALSE
    BY DEF InOrder
  <2> QED BY <1>1, <2>1 DEF Stream
<1>5. ASSUME NEW n \in 1 .. p
      PROVE  n \in l2 \/ n \in Range(h) \/ WholeIn(n, w, <<>>, TRUE)
  <2>1. n \in 1 .. Reports /\ n \in Status .. Request
    BY <1>1, FrameReports, Sizes
  <2>2. n \in l \/ n \in Range(got) \/ WholeIn(n, w, readBuf, FALSE) \/ HalfIn(n, w, readBuf)
    BY DEF Sent, Accounted
  <2>3. WholeIn(n, w, readBuf, FALSE) => WholeIn(n, w, <<>>, TRUE)
    BY DEF WholeIn
  <2>4. CASE HalfIn(n, w, readBuf)
    <3>1. PICK k \in 1 .. Body : readBuf = Prefix(n, k) /\ w # <<>> /\ w[1] = NextByte(n, k)
      BY <2>4 DEF HalfIn
    <3>2. CASE k = Body
      <4>1. readBuf = BodyOf(n)
        BY <3>1, <3>2 DEF Prefix, BodyOf
      <4> QED BY <1>3, <2>1, <4>1
    <3>3. CASE k < Body
      <4>1. k \in 0 .. Body /\ k # 0
        OBVIOUS
      <4>2. readBuf # <<>> /\ Len(readBuf) = k
        BY <2>1, <3>1, <4>1, PrefixShape
      <4>3. w[1] = <<n, k + 1>>
        BY <3>1, <3>3, NextBytes
      <4>4. Torn(w, readBuf)
        BY <3>3, <4>2 DEF Torn
      <4> QED BY <2>1, <3>1, <4>3, <4>4, TornHead
    <3>4. k = Body \/ k < Body
      BY Sizes
    <3> QED BY <3>2, <3>3, <3>4
  <2> QED BY <1>1, <1>3, <2>2, <2>3, <2>4
<1>6. ASSUME ~d2
      PROVE  Undisturbed(w, <<>>, y, TRUE)
  <2>1. Undisturbed(w, readBuf, garbled, FALSE) /\ ~Torn(w, readBuf)
    BY <1>6 DEF Sent, Tears
  <2>2. CASE readBuf = <<>>
    BY <1>3, <2>1, <2>2 DEF Undisturbed
  <2>3. CASE readBuf # <<>>
    <3>1. PICK n \in Status .. Request, k \in 1 .. Body : readBuf = Prefix(n, k)
      BY <2>1, <2>3 DEF Undisturbed
    <3>2. Len(readBuf) = k /\ k = Body
      BY <2>1, <2>3, <3>1, PrefixShape, Sizes DEF Torn
    <3>3. readBuf = BodyOf(n)
      BY <3>1, <3>2 DEF Prefix, BodyOf
    <3>4. AtFrame(w)
      BY <2>1, <2>3 DEF Torn, AtFrame
    <3> QED BY <1>3, <2>1, <3>3, <3>4 DEF Undisturbed
  <2> QED BY <2>2, <2>3
<1>7. Accounted(w, <<>>, h, l2, p, TRUE)
  BY <1>5 DEF Accounted
<1>8. FullIsHit(w, <<>>, l2, d2)
  BY <1>1, NothingIsBlock DEF Sent, FullIsHit
<1>9. Sent(w, <<>>, h, l2, p, d2, y, TRUE)
  BY <1>1, <1>3, <1>4, <1>6, <1>7, <1>8 DEF Sent
<1> QED BY <1>2, <1>3, <1>9

(* While it goes out, what the manager reads is no report.                    *)
LEMMA RequestUnderWay ==
    ASSUME NEW w, NEW j \in 0 .. Body, NEW g, NEW l, NEW p, NEW d, NEW z,
           Sent(w, Prefix(Request, j), g, l, p, d, z, TRUE), NEW k \in 0 .. Body
    PROVE  Sent(w, Prefix(Request, k), g, l, p, d, z, TRUE)
<1>1. Request \in Status .. Request /\ \A n \in 1 .. Reports : n # Request
  BY FrameReports, Sizes DEF Status, Request
<1>2. \A i \in 0 .. Body : /\ Prefix(Request, i) \in Seq(Bytes)
                           /\ ReportsIn(Prefix(Request, i)) = {}
                           /\ InOrder(Prefix(Request, i))
                           /\ \A h \in DOMAIN Prefix(Request, i) : ~IsReport(Prefix(Request, i)[h])
  <2> SUFFICES ASSUME NEW i \in 0 .. Body
               PROVE  /\ Prefix(Request, i) \in Seq(Bytes)
                      /\ ReportsIn(Prefix(Request, i)) = {}
                      /\ InOrder(Prefix(Request, i))
                      /\ \A h \in DOMAIN Prefix(Request, i) : ~IsReport(Prefix(Request, i)[h])
    OBVIOUS
  <2>1. PICK r : r = Prefix(Request, i)
    OBVIOUS
  <2>2. r \in Seq(Bytes) /\ \A h \in DOMAIN r : r[h] = <<Request, h>>
    BY <1>1, <2>1, PrefixShape
  <2>3. \A h \in DOMAIN r : ~IsReport(r[h])
    BY <1>1, <2>2 DEF IsReport
  <2>4. ReportsIn(r) = {}
    BY <2>3 DEF ReportsIn, IsReport
  <2>5. InOrder(r)
    BY <2>3 DEF InOrder, Precedes
  <2> QED BY <2>1, <2>2, <2>3, <2>4, <2>5
<1>3. PICK r, s : r = Prefix(Request, j) /\ s = Prefix(Request, k)
  OBVIOUS
<1>4. /\ s \in Seq(Bytes) /\ ReportsIn(s) = {} /\ InOrder(s) /\ \A h \in DOMAIN s : ~IsReport(s[h])
      /\ ReportsIn(r) = {} /\ Sent(w, r, g, l, p, d, z, TRUE)
  BY <1>2, <1>3
<1>5. Stream(w, s)
  BY <1>4 DEF Sent, Stream, Precedes
<1>6. Received(w, s, g, p)
  BY <1>4 DEF Sent, Received
<1>7. ASSUME NEW n \in 1 .. p
      PROVE  n \in l \/ n \in Range(g) \/ WholeIn(n, w, s, TRUE)
  <2>1. n \in 1 .. Reports
    BY <1>4, Sizes DEF Sent
  <2>2. ~HalfIn(n, w, r)
    BY <1>4, <2>1, InWindow
  <2>3. n \in l \/ n \in Range(g) \/ WholeIn(n, w, r, TRUE)
    BY <1>4, <2>2 DEF Sent, Accounted
  <2> QED BY <2>3 DEF WholeIn
<1>8. Accounted(w, s, g, l, p, TRUE)
  BY <1>7 DEF Accounted
<1>9. FullIsHit(w, s, l, d)
  BY <1>4 DEF Sent, FullIsHit
<1>10. ~d => Undisturbed(w, s, z, TRUE)
  BY <1>4 DEF Sent, Undisturbed
<1>11. Sent(w, s, g, l, p, d, z, TRUE)
  BY <1>4, <1>5, <1>6, <1>8, <1>9, <1>10 DEF Sent
<1> QED BY <1>3, <1>11

LEMMA RequestDone ==
    ASSUME NEW w, NEW g, NEW l, NEW p, NEW d, NEW z, Sent(w, <<>>, g, l, p, d, z, TRUE)
    PROVE  Sent(w, <<>>, g, l, p, d, z, FALSE)
<1>1. ASSUME NEW n, WholeIn(n, w, <<>>, TRUE)
      PROVE  WholeIn(n, w, <<>>, FALSE)
  BY <1>1 DEF WholeIn
<1>2. Accounted(w, <<>>, g, l, p, FALSE)
  BY <1>1 DEF Sent, Accounted
<1>3. ~d => Undisturbed(w, <<>>, z, FALSE)
  BY DEF Sent, Undisturbed
<1> QED BY <1>2, <1>3 DEF Sent

(* The end of a command stops the request: what is left of it may spoil the    *)
(* frame that comes next.                                                     *)
LEMMA RequestCut ==
    ASSUME NEW w, NEW j \in 0 .. Body, NEW g, NEW l, NEW p, NEW d, NEW z,
           Sent(w, Prefix(Request, j), g, l, p, d, z, TRUE),
           NEW l2, NEW d2, Tears(w, Prefix(Request, j), l, d, l2, d2)
    PROVE  Sent(w, Prefix(Request, j), g, l2, p, d2, z, FALSE)
<1>1. Request \in Status .. Request
  BY Sizes DEF Status, Request
<1>2. PICK r : r = Prefix(Request, j)
  OBVIOUS
<1>3. /\ Sent(w, r, g, l, p, d, z, TRUE) /\ Tears(w, r, l, d, l2, d2)
      /\ r = <<>> <=> j = 0
      /\ Len(r) = j /\ l \subseteq l2 /\ (d => d2)
  BY <1>1, <1>2, PrefixShape DEF Tears
<1>4. ASSUME NEW n \in 1 .. p, WholeIn(n, w, r, TRUE), n \notin l2
      PROVE  WholeIn(n, w, r, FALSE)
  <2>1. PICK i \in DOMAIN w : w[i] = <<n, 1>>
    BY <1>4 DEF WholeIn
  <2>2. ASSUME i = 1, r # <<>>
        PROVE  FALSE
    <3>1. w # <<>> /\ w[1] = <<n, 1>> /\ w[1] # Flag
      BY <1>3, <2>1, <2>2 DEF Sent, Flag
    <3>2. Torn(w, r)
      BY <2>2, <3>1 DEF Torn
    <3>3. n \in 1 .. Reports
      BY <1>3, Sizes DEF Sent
    <3> QED BY <1>3, <1>4, <3>1, <3>2, <3>3, TornHead
  <2> QED BY <2>1, <2>2 DEF WholeIn
<1>5. Accounted(w, r, g, l2, p, FALSE)
  BY <1>3, <1>4 DEF Sent, Accounted
<1>6. ASSUME ~d2
      PROVE  Undisturbed(w, r, z, FALSE)
  <2>1. Undisturbed(w, r, z, TRUE) /\ ~Torn(w, r)
    BY <1>3, <1>6 DEF Sent, Tears
  <2>2. CASE r = <<>>
    BY <2>1, <2>2 DEF Undisturbed
  <2>3. CASE r # <<>>
    <3>1. j = Body /\ (w = <<>> \/ w[1] = Flag)
      BY <1>3, <2>1, <2>3, Sizes DEF Torn
    <3>2. Body \in 1 .. Body /\ NextByte(Request, Body) = Flag
      BY Sizes DEF NextByte
    <3>3. Continued(Request, Body, w)
      BY <3>1, <3>2 DEF Continued
    <3> QED BY <1>1, <1>2, <2>1, <2>3, <3>1, <3>2, <3>3 DEF Undisturbed
  <2> QED BY <2>2, <2>3
<1>7. FullIsHit(w, r, l2, d2)
  BY <1>3 DEF Sent, FullIsHit
<1>8. Sent(w, r, g, l2, p, d2, z, FALSE)
  BY <1>3, <1>5, <1>6, <1>7 DEF Sent
<1> QED BY <1>2, <1>8

(* Equal indices drop what is in the ring.                                    *)
LEMMA DropSent ==
    ASSUME NEW w, NEW r, NEW g, NEW l, NEW p, NEW d, NEW z, Sent(w, r, g, l, p, d, z, FALSE),
           Len(w) = 0 \/ Len(w) = RingSize
    PROVE  Sent(<<>>, r, g, l, p, d, z, FALSE)
<1>1. CASE Len(w) = 0
  <2>1. w = <<>>
    BY <1>1 DEF Sent
  <2> QED BY <2>1
<1>2. CASE Len(w) = RingSize
  <2>1. d /\ ReportsIn(w) \cup ReportsIn(r) \subseteq l
    BY <1>2 DEF Sent, FullIsHit
  <2>2. Stream(<<>>, r)
    <3>1. InOrder(<<>>) /\ Len(<<>>) = 0 /\ \A i \in DOMAIN <<>> : FALSE
      BY DEF InOrder
    <3>2. InOrder(r)
      BY DEF Sent, Stream
    <3> QED BY <3>1, <3>2 DEF Stream
  <2>3. Received(<<>>, r, g, p)
    BY NothingIsBlock DEF Sent, Received
  <2>4. ASSUME NEW n \in 1 .. p
        PROVE  n \in l \/ n \in Range(g)
    <3>1. n \in 1 .. Reports
      BY Sizes DEF Sent
    <3>2. n \in l \/ n \in Range(g) \/ WholeIn(n, w, r, FALSE) \/ HalfIn(n, w, r)
      BY DEF Sent, Accounted
    <3> QED BY <2>1, <3>1, <3>2, InWindow
  <2>5. Accounted(<<>>, r, g, l, p, FALSE)
    BY <2>4 DEF Accounted
  <2>6. FullIsHit(<<>>, r, l, d) /\ Len(<<>>) =< RingSize
    BY Sizes DEF FullIsHit
  <2>7. /\ <<>> \in Seq(Bytes) /\ r \in Seq(Bytes) /\ g \in Seq(1 .. Reports)
        /\ p \in 0 .. Reports
    BY DEF Sent
  <2> QED BY <2>1, <2>2, <2>3, <2>5, <2>6, <2>7 DEF Sent
<1> QED BY <1>1, <1>2

-----------------------------------------------------------------------------
(* The steps of both sides, as far as the reports go.                         *)

LEMMA HalfReadIsTorn ==
    ASSUME RingOK
    PROVE  HalfRead <=> Torn(Window, readBuf)
<1>1. /\ Len(Window) = unread /\ unread \in Nat /\ Window \in Seq(Bytes)
      /\ unread > 0 => Window[1] = ring[iR]
  BY WindowShape DEF RingOK
<1>2. Window # <<>> <=> unread > 0
  BY <1>1
<1> QED BY <1>1, <1>2 DEF HalfRead, Torn

(* The excuses of a step that prints s: first for what is torn, then for what  *)
(* is overrun.                                                                *)
LEMMA ExcusedTear ==
    ASSUME RingOK, NEW s, Excuse(s, HalfRead)
    PROVE  Tears(Window, readBuf, lost, disturbed, lost', disturbed')
<1>1. Window # <<>> => Window[1] = ring[iR]
  <2>1. Len(Window) = unread /\ unread \in Nat /\ (unread > 0 => Window[1] = ring[iR]) /\ Window \in Seq(Bytes)
    BY WindowShape DEF RingOK
  <2> QED BY <2>1
<1>2. lost \subseteq lost' /\ (disturbed => disturbed')
  BY DEF Excuse
<1>3. HalfRead => disturbed' /\ ReportsIn(<<ring[iR]>>) \subseteq lost'
  BY DEF Excuse
<1> QED BY <1>1, <1>2, <1>3, HalfReadIsTorn DEF Tears

LEMMA ExcusedPrint ==
    ASSUME RingOK, NEW s, Block(s), NEW t, Excuse(s, t),
           NEW r, ReportsIn(r) \subseteq InHand, NEW g, NEW z, NEW a, NEW l, NEW d,
           Sent(Window, r, g, l, printed, d, z, a), l \subseteq lost', d => disturbed',
           \/ ReportsIn(s) = {} /\ printed' = printed
           \/ printed' = printed + 1 /\ printed' \in 1 .. Reports /\ s = FrameOf(printed')
    PROVE  Sent(Grown(Window, s), r, g, lost', printed', disturbed', z, a)
<1>1. Len(Window) = unread /\ InRing = ReportsIn(Window)
  BY WindowShape
<1>2. Len(Window) + Len(s) >= RingSize =>
        disturbed' /\ ReportsIn(Window) \cup ReportsIn(r) \cup ReportsIn(s) \subseteq lost'
  BY <1>1 DEF Excuse, Overruns
<1>3. PICK w, l2, q, d2 : w = Window /\ l2 = lost' /\ q = printed' /\ d2 = disturbed'
  OBVIOUS
<1>4. Prints(w, r, l, printed, d, s, l2, q, d2)
  BY <1>2, <1>3 DEF Prints
<1>5. Sent(Grown(w, s), r, g, l2, q, d2, z, a)
  BY <1>3, <1>4, PrintSent
<1> QED BY <1>3, <1>5

LEMMA StatusIsBlock ==
    ASSUME NEW t \in {<<>>, FrameOf(Status)}, NEW b
    PROVE  LET s == (IF b THEN FrameOf(Status) ELSE <<>>) \o t
           IN  /\ Block(s) /\ ReportsIn(s) = {} /\ Len(s) < RingSize
               /\ t = FrameOf(Status) => s # <<>>
<1>1. PICK f : f = FrameOf(Status)
  OBVIOUS
<1>2. /\ Block(f) /\ ReportsIn(f) = {} /\ f # <<>> /\ f \in Seq(Bytes)
      /\ Block(f \o f) /\ ReportsIn(f \o f) = {} /\ f \o f # <<>>
  <2>1. Status \in 0 .. Reports + 1 /\ Status \notin 1 .. Reports
    BY Sizes DEF Status
  <2>2. Block(f) /\ \A m \in ReportsIn(f) : m = Status
    BY <1>1, <2>1, FrameIsBlock
  <2>3. ReportsIn(f) = {}
    BY <2>1, <2>2 DEF ReportsIn
  <2>4. f \in Seq(Bytes) /\ Len(f) = Body + 2
    BY <1>1, <2>1, FrameShape
  <2>5. f # <<>>
    BY <2>4, Sizes
  <2>6. Block(f \o f) /\ ReportsIn(f \o f) = {} /\ f \o f # <<>>
    BY <1>1, TwoFrames
  <2> QED BY <2>2, <2>3, <2>4, <2>5, <2>6
<1>3. <<>> \o <<>> = <<>> /\ <<>> \o f = f /\ f \o <<>> = f
  BY <1>2
<1>4. PICK s : s = (IF b THEN f ELSE <<>>) \o t
  OBVIOUS
<1>5. s \in {<<>>, f, f \o f} /\ (t = f => s # <<>>)
  BY <1>1, <1>2, <1>3, <1>4
<1>6. Block(s) /\ ReportsIn(s) = {}
  BY <1>2, <1>5, NothingIsBlock
<1>7. Len(s) < RingSize
  BY <1>6, Sizes DEF Block
<1> QED BY <1>1, <1>4, <1>5, <1>6, <1>7

LEMMA TearsNothing ==
    ASSUME NEW w, NEW r, NEW g, NEW l, NEW p, NEW d, NEW z, NEW a, Sent(w, r, g, l, p, d, z, a),
           NEW l2, NEW d2, Tears(w, r, l, d, l2, d2)
    PROVE  Sent(w, r, g, l2, p, d2, z, a)
<1>1. l \subseteq l2 /\ (d => d2)
  BY DEF Tears
<1>2. Accounted(w, r, g, l2, p, a)
  BY <1>1 DEF Sent, Accounted
<1>3. FullIsHit(w, r, l2, d2)
  BY <1>1 DEF Sent, FullIsHit
<1> QED BY <1>1, <1>2, <1>3 DEF Sent

(* The steps of the mote that print.                                          *)
LEMMA PrintReportSent ==
    ASSUME RingOK, ReportInv, PrintReport
    PROVE  RingOK' /\ ReportInv'
<1>1. PICK s, q : s = FrameOf(q) /\ q = printed + 1
  OBVIOUS
<1>2. printed \in 0 .. Reports
  BY DEF ReportInv, Sent
<1>3. q \in 1 .. Reports /\ q \in 0 .. Reports + 1 /\ printed' = q
  BY <1>1, <1>2, Sizes DEF PrintReport
<1>4. Block(s) /\ Write(s, 0) /\ Excuse(s, FALSE)
  BY <1>1, <1>3, FrameIsBlock DEF PrintReport
<1>5. /\ UNCHANGED <<readBuf, got, garbled, mode, txPending, reqIdx, iR>>
      /\ lost \subseteq lost' /\ (disturbed => disturbed')
  BY <1>4 DEF PrintReport, manager, Excuse
<1>6. s \in Seq(Bytes) /\ Len(s) < RingSize
  BY <1>4, Sizes DEF Block
<1>7. RingOK' /\ Window' = Grown(Window, s)
  BY <1>4, <1>5, <1>6, WriteGrows
<1>8. ReportsIn(readBuf) \subseteq InHand
  BY DEF InHand
<1>9. Sent(Grown(Window, s), readBuf, got, lost', printed', disturbed', garbled, mode = "input" /\ txPending)
  <2>1. PICK a : a = (mode = "input" /\ txPending)
    OBVIOUS
  <2>2. Sent(Window, readBuf, got, lost, printed, disturbed, garbled, a)
    BY <2>1 DEF ReportInv
  <2>3. printed' = printed + 1 /\ printed' \in 1 .. Reports /\ s = FrameOf(printed')
    BY <1>1, <1>3
  <2>4. \/ ReportsIn(s) = {} /\ printed' = printed
        \/ printed' = printed + 1 /\ printed' \in 1 .. Reports /\ s = FrameOf(printed')
    BY <2>3
  <2>5. lost \subseteq lost' /\ (disturbed => disturbed')
    BY <1>5
  <2>6. Sent(Grown(Window, s), readBuf, got, lost', printed', disturbed', garbled, a)
    BY <1>4, <1>8, <2>2, <2>4, <2>5, ExcusedPrint
  <2> QED BY <2>1, <2>6
<1>10. RequestOK'
  BY <1>5 DEF ReportInv, RequestOK
<1> QED BY <1>5, <1>7, <1>9, <1>10 DEF ReportInv

LEMMA SilenceSent ==
    ASSUME RingOK, ReportInv, Silence, ~txPending \/ mode = "output"
    PROVE  RingOK' /\ ReportInv'
<1>1. PICK s : s = (IF busy THEN FrameOf(Status) ELSE <<>>) \o <<>>
  OBVIOUS
<1>2. Block(s) /\ ReportsIn(s) = {} /\ Len(s) < RingSize /\ s \in Seq(Bytes)
  BY <1>1, StatusIsBlock DEF Block
<1>3. Write(s, 0) /\ Excuse(s, FALSE)
  BY <1>1 DEF Silence, StopAnd
<1>4. /\ UNCHANGED <<readBuf, got, garbled, iR, printed>> /\ mode' = "off"
      /\ lost \subseteq lost' /\ (disturbed => disturbed')
  BY <1>3 DEF Silence, StopAnd, manager, Excuse
<1>5. RingOK' /\ Window' = Grown(Window, s)
  BY <1>2, <1>3, <1>4, WriteGrows
<1>6. ReportsIn(readBuf) \subseteq InHand
  BY DEF InHand
<1>7. Sent(Window, readBuf, got, lost, printed, disturbed, garbled, FALSE)
  <2>1. (mode = "input" /\ txPending) = FALSE
    OBVIOUS
  <2> QED BY <2>1 DEF ReportInv
<1>8. Sent(Grown(Window, s), readBuf, got, lost', printed', disturbed', garbled, FALSE)
  BY <1>2, <1>3, <1>4, <1>6, <1>7, ExcusedPrint
<1>9. (mode' = "input" /\ txPending') = FALSE
  BY <1>4
<1>10. RequestOK'
  BY <1>4 DEF RequestOK
<1> QED BY <1>4, <1>5, <1>8, <1>9, <1>10 DEF ReportInv

LEMMA StartOutputSent ==
    ASSUME RingOK, ReportInv, StartOutput, ~txPending \/ mode = "output"
    PROVE  RingOK' /\ ReportInv'
<1>1. PICK s : s = (IF busy THEN FrameOf(Status) ELSE <<>>) \o FrameOf(Status)
  OBVIOUS
<1>2. Block(s) /\ ReportsIn(s) = {} /\ Len(s) < RingSize /\ s \in Seq(Bytes) /\ s # <<>>
  BY <1>1, StatusIsBlock DEF Block
<1>3. Write(s, 1) /\ Excuse(s, FALSE)
  BY <1>1 DEF StartOutput, StopAnd
<1>4. /\ UNCHANGED printed /\ mode' = "output" /\ iR' = (iR + 1) % RingSize
      /\ lost \subseteq lost' /\ (disturbed => disturbed')
  BY <1>3 DEF StartOutput, StopAnd, Excuse
<1>5. PICK v : v = Grown(Window, s)
  OBVIOUS
<1>6. RingOK' /\ v # <<>> /\ Window' = Tail(v) /\ ring'[iR] = v[1]
  BY <1>2, <1>3, <1>4, <1>5, WriteAdvances
<1>7. ReportsIn(readBuf) \subseteq InHand
  BY DEF InHand
<1>8. Sent(Window, readBuf, got, lost, printed, disturbed, garbled, FALSE)
  <2>1. (mode = "input" /\ txPending) = FALSE
    OBVIOUS
  <2> QED BY <2>1 DEF ReportInv
<1>9. Sent(v, readBuf, got, lost', printed', disturbed', garbled, FALSE)
  BY <1>2, <1>3, <1>4, <1>5, <1>7, <1>8, ExcusedPrint
<1>10. CaptureByte(v[1])
  BY <1>6 DEF StartOutput
<1>11. PICK l, p, d : l = lost' /\ p = printed' /\ d = disturbed'
  OBVIOUS
<1>12. Sent(Tail(v), readBuf', got', l, p, d, garbled', FALSE)
  BY <1>6, <1>9, <1>10, <1>11, ReadSent
<1>13. (mode' = "input" /\ txPending') = FALSE
  BY <1>4
<1>14. RequestOK'
  BY <1>4 DEF RequestOK
<1> QED BY <1>6, <1>11, <1>12, <1>13, <1>14 DEF ReportInv

LEMMA StartInputSent ==
    ASSUME RingOK, ReportInv, StartInput, ~txPending \/ mode = "output"
    PROVE  RingOK' /\ ReportInv'
<1>1. PICK s : s = (IF busy THEN FrameOf(Status) ELSE <<>>) \o <<>>
  OBVIOUS
<1>2. Block(s) /\ ReportsIn(s) = {} /\ Len(s) < RingSize /\ s \in Seq(Bytes)
  BY <1>1, StatusIsBlock DEF Block
<1>3. Write(s, 0) /\ Excuse(s, HalfRead)
  BY <1>1 DEF StartInput, StopAnd
<1>4. /\ UNCHANGED <<iR, printed>> /\ mode' = "input" /\ txPending' = TRUE /\ reqIdx' = 0
      /\ lost \subseteq lost' /\ (disturbed => disturbed')
  BY <1>3 DEF StartInput, StopAnd, Excuse
<1>5. RingOK' /\ Window' = Grown(Window, s)
  BY <1>2, <1>3, <1>4, WriteGrows
<1>6. Sent(Window, readBuf, got, lost, printed, disturbed, garbled, FALSE)
  <2>1. (mode = "input" /\ txPending) = FALSE
    OBVIOUS
  <2> QED BY <2>1 DEF ReportInv
<1>7. PICK l, d : l = lost' /\ d = disturbed'
  OBVIOUS
<1>8. CaptureByte(Flag) /\ Tears(Window, readBuf, lost, disturbed, l, d)
  BY <1>3, <1>7, ExcusedTear DEF StartInput
<1>9. readBuf' = <<>> /\ Sent(Window, <<>>, got', l, printed, d, garbled', TRUE)
  BY <1>6, <1>8, FlagAsks
<1>10. PICK g, z : g = got' /\ z = garbled'
  OBVIOUS
<1>11. ReportsIn(<<>>) \subseteq InHand
  BY NothingIsBlock
<1>12. Sent(Grown(Window, s), <<>>, g, lost', printed', disturbed', z, TRUE)
  <2>1. PICK r : r = <<>>
    OBVIOUS
  <2>2. Sent(Window, r, g, l, printed, d, z, TRUE) /\ ReportsIn(r) \subseteq InHand
    BY <1>9, <1>10, <1>11, <2>1
  <2>3. l \subseteq lost' /\ (d => disturbed') /\ printed' = printed
    BY <1>4, <1>7
  <2>4. Sent(Grown(Window, s), r, g, lost', printed', disturbed', z, TRUE)
    BY <1>2, <1>3, <2>2, <2>3, ExcusedPrint
  <2> QED BY <2>1, <2>4
<1>13. (mode' = "input" /\ txPending') = TRUE
  BY <1>4
<1>14. RequestOK'
  <2>1. <<>> = Prefix(Request, 0)
    BY Sizes, PrefixShape DEF Status, Request
  <2> QED BY <1>4, <1>9, <2>1, Sizes DEF RequestOK
<1> QED BY <1>5, <1>9, <1>10, <1>12, <1>13, <1>14 DEF ReportInv

LEMMA HaltInputSent ==
    ASSUME RingOK, ReportInv, NEW t \in {<<>>, FrameOf(Status)}, HaltInput(t), mode = "input",
           UNCHANGED <<iR, printed, manager>>, reqIdx \in Nat
    PROVE  RingOK' /\ ReportInv'
<1>1. Block(t) /\ ReportsIn(t) = {} /\ Len(t) < RingSize /\ t \in Seq(Bytes)
  <2>1. PICK s : s = (IF FALSE THEN FrameOf(Status) ELSE <<>>) \o t
    OBVIOUS
  <2>2. Block(s) /\ ReportsIn(s) = {} /\ Len(s) < RingSize
    BY <2>1, StatusIsBlock
  <2>3. t \in Seq(Bytes)
    <3>1. Status \in 0 .. Reports + 1
      BY Sizes DEF Status
    <3>2. FrameOf(Status) \in Seq(Bytes)
      BY <3>1, FrameShape
    <3>3. <<>> \in Seq(Bytes)
      OBVIOUS
    <3>4. CASE t = <<>>
      BY <3>3, <3>4
    <3>5. CASE t = FrameOf(Status)
      BY <3>2, <3>5
    <3> QED BY <3>4, <3>5
  <2>4. s = t
    BY <2>1, <2>3
  <2> QED BY <2>2, <2>3, <2>4
<1>2. Write(t, 0) /\ Excuse(t, HalfRead) /\ mode' = "off"
  BY DEF HaltInput
<1>3. UNCHANGED <<iR, printed, readBuf, got, garbled>>
  BY DEF manager
<1>4. RingOK' /\ Window' = Grown(Window, t)
  BY <1>1, <1>2, <1>3, WriteGrows
<1>5. PICK l, d : l = lost' /\ d = disturbed'
  OBVIOUS
<1>6. Tears(Window, readBuf, lost, disturbed, l, d)
  BY <1>2, <1>5, ExcusedTear
<1>7. Sent(Window, readBuf, got, l, printed, d, garbled, FALSE)
  <2>1. PICK j \in 0 .. Body : readBuf = Prefix(Request, j)
    <3>1. CASE txPending
      <4>1. readBuf = Prefix(Request, IF reqIdx =< Body THEN reqIdx ELSE 0)
        BY <3>1 DEF ReportInv, RequestOK
      <4>2. 0 \in 0 .. Body /\ (reqIdx =< Body => reqIdx \in 0 .. Body)
        BY Sizes
      <4> QED BY <4>1, <4>2
    <3>2. CASE ~txPending
      <4>1. <<>> = Prefix(Request, 0)
        BY Sizes, PrefixShape DEF Status, Request
      <4> QED BY <3>2, <4>1, Sizes DEF ReportInv, RequestOK
    <3> QED BY <3>1, <3>2
  <2>2. CASE txPending
    <3>1. (mode = "input" /\ txPending) = TRUE
      BY <2>2
    <3>2. Sent(Window, readBuf, got, lost, printed, disturbed, garbled, TRUE)
      BY <3>1 DEF ReportInv
    <3> QED BY <1>6, <2>1, <3>2, RequestCut
  <2>3. CASE ~txPending
    <3>1. (mode = "input" /\ txPending) = FALSE
      BY <2>3
    <3>2. Sent(Window, readBuf, got, lost, printed, disturbed, garbled, FALSE)
      BY <3>1 DEF ReportInv
    <3>3. readBuf = <<>>
      BY <2>3 DEF ReportInv, RequestOK
    <3> QED BY <1>6, <3>2, <3>3, TearsNothing
  <2> QED BY <2>2, <2>3
<1>8. ReportsIn(readBuf) \subseteq InHand
  BY DEF InHand
<1>9. Sent(Grown(Window, t), readBuf, got, lost', printed', disturbed', garbled, FALSE)
  <2>1. l \subseteq lost' /\ (d => disturbed') /\ printed' = printed
    BY <1>3, <1>5
  <2> QED BY <1>1, <1>2, <1>7, <1>8, <2>1, ExcusedPrint
<1>10. (mode' = "input" /\ txPending') = FALSE
  BY <1>2
<1>11. RequestOK'
  BY <1>2 DEF RequestOK
<1> QED BY <1>3, <1>4, <1>9, <1>10, <1>11 DEF ReportInv

(* The steps of the UART.                                                     *)
LEMMA SendOutputSent ==
    ASSUME RingOK, ReportInv, SendOutput
    PROVE  RingOK' /\ ReportInv'
<1>1. mode = "output" /\ UNCHANGED <<mode, ring, iW, reqIdx, printed, lost, disturbed>>
  BY DEF SendOutput, excuses
<1>2. /\ (mode = "input" /\ txPending) = FALSE
      /\ (mode' = "input" /\ txPending') = FALSE
      /\ RequestOK'
  BY <1>1 DEF RequestOK
<1>3. Sent(Window, readBuf, got, lost, printed, disturbed, garbled, FALSE)
  BY <1>2 DEF ReportInv
<1>4. CASE iW = iR
  <2>1. unread' = 0 /\ UNCHANGED <<iR, readBuf, got, garbled>>
    BY <1>4 DEF SendOutput, manager
  <2>2. RingOK'
    <3>1. (iW - iR) % RingSize = 0 /\ 0 % RingSize = 0
      BY <1>4, Sizes DEF RingOK, Index
    <3> QED BY <1>1, <2>1, <3>1, Sizes DEF RingOK
  <2>3. Window' = <<>>
    BY <2>1 DEF Window
  <2>4. Len(Window) = 0 \/ Len(Window) = RingSize
    BY <1>4, EqualIndices, WindowShape
  <2>5. Sent(<<>>, readBuf, got, lost, printed, disturbed, garbled, FALSE)
    BY <1>3, <2>4, DropSent
  <2> QED BY <1>1, <1>2, <2>1, <2>2, <2>3, <2>5 DEF ReportInv
<1>5. CASE iW # iR
  <2>1. /\ iR' = (iR + 1) % RingSize /\ unread' = unread - 1 /\ UNCHANGED <<ring, iW>>
        /\ CaptureByte(ring[iR])
    BY <1>5 DEF SendOutput
  <2>2. RingOK' /\ Window # <<>> /\ Window' = Tail(Window) /\ ring[iR] = Window[1]
    BY <1>5, <2>1, ReadAdvances
  <2>3. CaptureByte(Window[1])
    BY <2>1, <2>2
  <2>4. Sent(Tail(Window), readBuf', got', lost, printed, disturbed, garbled', FALSE)
    BY <1>3, <2>2, <2>3, ReadSent
  <2> QED BY <1>1, <1>2, <2>2, <2>4 DEF ReportInv
<1> QED BY <1>4, <1>5

LEMMA SendRequestSent ==
    ASSUME RingOK, ReportInv, SendRequest, reqIdx \in Nat
    PROVE  /\ RingOK' /\ ReportInv' /\ reqIdx' \in Nat /\ reqIdx' =< Body + 2
<1>1. /\ mode = "input" /\ txPending /\ reqIdx' = reqIdx + 1
      /\ UNCHANGED <<mode, ring, iW, iR, unread, printed, lost, disturbed>>
  BY DEF SendRequest, RequestIndex, output, excuses
<1>2. RingOK' /\ Window' = Window
  BY <1>1 DEF RingOK, Window
<1>3. reqIdx =< Body + 1 /\ readBuf = Prefix(Request, IF reqIdx =< Body THEN reqIdx ELSE 0)
  BY <1>1 DEF ReportInv, RequestOK
<1>4. Sent(Window, readBuf, got, lost, printed, disturbed, garbled, TRUE)
  <2>1. (mode = "input" /\ txPending) = TRUE
    BY <1>1
  <2> QED BY <2>1 DEF ReportInv
<1>5. PICK f : f = ReqFrame
  OBVIOUS
<1>6. /\ Len(f) = Body + 2 /\ f[1] = Flag /\ f[Body + 2] = Flag
      /\ \A i \in 2 .. Body + 1 : f[i] = <<Request, i - 1>>
  <2>1. Request \in 0 .. Reports + 1
    BY Sizes DEF Request
  <2> QED BY <1>5, <2>1, FrameShape DEF ReqFrame
<1>7. Request \in Status .. Request /\ <<>> = Prefix(Request, 0) /\ 0 \in 0 .. Body
  BY Sizes, PrefixShape DEF Status, Request
<1>8. PICK q : q = reqIdx'
  OBVIOUS
<1>9. /\ q = reqIdx + 1 /\ q \in Nat /\ q =< Body + 2
      /\ \/ q < Len(f) /\ CaptureByte(f[q + 1]) /\ UNCHANGED txPending
         \/ q >= Len(f) /\ txPending' = FALSE /\ UNCHANGED <<manager, line>>
  <2>1. q = reqIdx + 1 /\ q \in Nat /\ q =< Body + 2
    BY <1>1, <1>3, <1>8, Sizes
  <2>2. \/ reqIdx' < Len(f) /\ CaptureByte(f[reqIdx' + 1]) /\ UNCHANGED txPending
        \/ reqIdx' >= Len(f) /\ txPending' = FALSE /\ UNCHANGED <<manager, line>>
    BY <1>5, Zenon DEF SendRequest
  <2> QED BY <1>8, <2>1, <2>2, Zenon
<1>10. CASE reqIdx < Body
  <2>1. PICK k \in 1 .. Body : k = reqIdx + 1
    BY <1>10, Sizes
  <2>2. k - 1 \in 0 .. Body /\ k \in 0 .. Body /\ k + 1 \in 2 .. Body + 1 /\ k < Len(f)
    BY <1>6, Sizes
  <2>3. f[k + 1] = <<Request, k>> /\ <<Request, k>> # Flag
    BY <1>6, <2>2 DEF Flag
  <2>4. CaptureByte(<<Request, k>>) /\ UNCHANGED txPending
    <3>1. q = k /\ ~(q >= Len(f))
      BY <1>9, <2>1, <2>2
    <3>2. CaptureByte(f[k + 1]) /\ UNCHANGED txPending
      BY <1>9, <3>1
    <3> QED BY <2>3, <3>2
  <2>5. readBuf' = Append(readBuf, <<Request, k>>) /\ got' = got /\ garbled' = garbled
    BY <2>3, <2>4 DEF CaptureByte
  <2>6. readBuf = Prefix(Request, k - 1)
    <3>1. reqIdx = k - 1 /\ reqIdx =< Body
      BY <2>1, Sizes
    <3> QED BY <1>3, <3>1
  <2>7. readBuf' = Prefix(Request, k)
    <3>1. k - 1 < Body /\ k - 1 + 1 = k
      BY Sizes
    <3>2. Append(Prefix(Request, k - 1), <<Request, k - 1 + 1>>) = Prefix(Request, k - 1 + 1)
      BY <1>7, <2>2, <3>1, PrefixShape
    <3> QED BY <2>5, <2>6, <3>1, <3>2
  <2>8. Sent(Window, Prefix(Request, k), got, lost, printed, disturbed, garbled, TRUE)
    BY <1>4, <2>2, <2>6, RequestUnderWay
  <2>9. RequestOK'
    <3>1. q = k /\ k =< Body + 1 /\ k =< Body
      BY <1>9, <2>1, Sizes
    <3> QED BY <1>1, <1>8, <2>4, <2>7, <3>1 DEF RequestOK
  <2>10. (mode' = "input" /\ txPending') = TRUE
    BY <1>1, <2>4
  <2> QED BY <1>1, <1>2, <1>8, <1>9, <2>5, <2>7, <2>8, <2>9, <2>10 DEF ReportInv
<1>11. CASE reqIdx = Body
  <2>1. reqIdx' = Body + 1 /\ readBuf = Prefix(Request, Body) /\ Body \in 0 .. Body
    BY <1>1, <1>3, <1>11, Sizes
  <2>2. CaptureByte(Flag) /\ UNCHANGED txPending
    <3>1. q = Body + 1 /\ ~(q >= Len(f)) /\ f[q + 1] = Flag
      BY <1>6, <1>9, <1>11, Sizes
    <3> QED BY <1>9, <3>1
  <2>3. readBuf = BodyOf(Request) /\ readBuf # <<>>
    BY <1>7, <2>1, PrefixShape, Sizes
  <2>4. readBuf' = <<>> /\ got' = got /\ garbled' = garbled
    BY <1>4, <1>7, <2>2, <2>3, FlagCloses
  <2>5. Sent(Window, Prefix(Request, 0), got, lost, printed, disturbed, garbled, TRUE)
    BY <1>4, <1>7, <2>1, RequestUnderWay
  <2>6. RequestOK'
    BY <1>1, <1>7, <2>1, <2>2, <2>4, Sizes DEF RequestOK
  <2>7. (mode' = "input" /\ txPending') = TRUE
    BY <1>1, <2>2
  <2> QED BY <1>1, <1>2, <1>7, <1>8, <1>9, <2>4, <2>5, <2>6, <2>7 DEF ReportInv
<1>12. CASE reqIdx = Body + 1
  <2>1. reqIdx' = Body + 2 /\ readBuf = <<>>
    BY <1>1, <1>3, <1>7, <1>12, Sizes
  <2>2. txPending' = FALSE /\ UNCHANGED <<readBuf, got, garbled>>
    <3>1. ~(q < Len(f))
      BY <1>6, <1>9, <1>12, Sizes
    <3> QED BY <1>9, <3>1 DEF manager
  <2>3. Sent(Window, <<>>, got, lost, printed, disturbed, garbled, FALSE)
    BY <1>4, <2>1, RequestDone
  <2>4. RequestOK'
    BY <2>1, <2>2 DEF RequestOK
  <2>5. (mode' = "input" /\ txPending') = FALSE
    BY <2>2
  <2> QED BY <1>1, <1>2, <1>8, <1>9, <2>1, <2>2, <2>3, <2>4, <2>5 DEF ReportInv
<1> QED BY <1>3, <1>10, <1>11, <1>12, Sizes

-----------------------------------------------------------------------------
(* Commands: their bytes, and what follows what on the line.                  *)

FlagOf(c) == Byte(c, 0, "flag")
PayloadByte(c, k) == Byte(c, k, Commands[c][k])
Genuine(b) ==
    /\ b \in CommandByte /\ b.k =< Len(Payload(b.c))
    /\ b = IF b.k = 0 THEN FlagOf(b.c) ELSE PayloadByte(b.c, b.k)
AnswersTo(x, y) ==
    IF x.k = 0 THEN y = PayloadByte(x.c, 1) \/ y = FlagOf(x.c + 1)
    ELSE y = IF x.k < Len(Payload(x.c)) THEN PayloadByte(x.c, x.k + 1) ELSE FlagOf(x.c)
SentBefore(x, y) == x.k > 0 /\ y.k > 0 => x.c < y.c \/ (x.c = y.c /\ x.k < y.k)

LEMMA ByteShape ==
    ASSUME NEW c, NEW k, NEW is
    PROVE  Byte(c, k, is).c = c /\ Byte(c, k, is).k = k /\ Byte(c, k, is).is = is
BY DEF Byte

LEMMA PayloadShape ==
    ASSUME NEW c \in 1 .. Len(Commands)
    PROVE  /\ Payload(c) \in Seq(CommandByte) /\ DOMAIN Payload(c) = 1 .. Len(Payload(c))
           /\ Len(Payload(c)) = Len(Commands[c]) /\ Len(Payload(c)) \in Nat \ {0}
           /\ DOMAIN Commands[c] = 1 .. Len(Commands[c])
           /\ \A k \in 1 .. Len(Commands[c]) :
                 /\ Commands[c][k] \in {"data", "esc", "flag"}
                 /\ Payload(c)[k] = PayloadByte(c, k)
<1>1. PICK w : w = Commands[c] /\ w \in Seq({"data", "esc", "flag"}) /\ w # <<>>
  BY SerialAssumption
<1>2. PICK n \in Nat \ {0} : n = Len(w) /\ DOMAIN w = 1 .. n
  BY <1>1
<1>3. \A k \in 1 .. n : w[k] \in {"data", "esc", "flag"}
  BY <1>1, <1>2
<1>4. \A k \in 1 .. n : Byte(c, k, w[k]) \in CommandByte
  BY <1>3 DEF Byte, CommandByte
<1>5. PICK u : u = Payload(c)
  OBVIOUS
<1>6. u = [k \in 1 .. n |-> Byte(c, k, w[k])]
  BY <1>1, <1>2, <1>5 DEF Payload
<1>7. u \in Seq(CommandByte) /\ Len(u) = n /\ DOMAIN u = 1 .. n
  BY <1>4, <1>6
<1>8. \A k \in 1 .. n : u[k] = PayloadByte(c, k)
  BY <1>1, <1>6 DEF PayloadByte
<1> QED BY <1>1, <1>2, <1>3, <1>5, <1>7, <1>8

LEMMA GenuineShape ==
    ASSUME NEW b, Genuine(b)
    PROVE  /\ b.c \in 1 .. Len(Commands) /\ b.k \in Nat /\ b \in CommandByte
           /\ b.is \in {"flag", "data", "esc"}
           /\ b.is # "flag" => b.k > 0
           /\ b.k = 0 => b = FlagOf(b.c)
           /\ b.k > 0 => b = PayloadByte(b.c, b.k)
           /\ b.is = "esc" => HasEscape(b.c)
<1>1. b.c \in 1 .. Len(Commands) /\ b.k \in Nat /\ b \in CommandByte
  BY DEF Genuine, CommandByte
<1>2. b.k = 0 => b = FlagOf(b.c) /\ b.is = "flag"
  BY DEF Genuine, FlagOf, Byte
<1>3. b.k # 0 => b = PayloadByte(b.c, b.k) /\ b.is = Commands[b.c][b.k]
  BY DEF Genuine, PayloadByte, Byte
<1>4. b.k # 0 => b.k \in DOMAIN Commands[b.c] /\ Commands[b.c][b.k] \in {"data", "esc", "flag"}
  <2>1. PICK c \in 1 .. Len(Commands) : c = b.c
    BY <1>1
  <2>2. PICK n \in Nat : /\ n = Len(Commands[c]) /\ n = Len(Payload(c))
                          /\ DOMAIN Commands[c] = 1 .. n
    BY PayloadShape
  <2>3. b.k # 0 => b.k \in 1 .. n
    BY <1>1, <2>1, <2>2 DEF Genuine
  <2> QED BY <2>1, <2>2, <2>3, PayloadShape
<1> QED BY <1>1, <1>2, <1>3, <1>4 DEF HasEscape

LEMMA FlagIsGenuine ==
    ASSUME NEW c \in 1 .. Len(Commands)
    PROVE  Genuine(FlagOf(c)) /\ FlagOf(c).k = 0 /\ FlagOf(c).c = c
<1>1. FlagOf(c).k = 0 /\ FlagOf(c).c = c
  BY DEF FlagOf, Byte
<1>2. FlagOf(c) \in CommandByte
  BY DEF FlagOf, Byte, CommandByte
<1>3. 0 =< Len(Payload(c))
  BY PayloadShape
<1> QED BY <1>1, <1>2, <1>3 DEF Genuine

LEMMA PayloadIsGenuine ==
    ASSUME NEW c \in 1 .. Len(Commands), NEW k \in 1 .. Len(Payload(c))
    PROVE  Genuine(PayloadByte(c, k)) /\ PayloadByte(c, k).k = k /\ PayloadByte(c, k).c = c
<1>1. PayloadByte(c, k).k = k /\ PayloadByte(c, k).c = c
  BY DEF PayloadByte, Byte
<1>2. PayloadByte(c, k) \in CommandByte
  <2>1. PICK u \in Seq(CommandByte) : u = Payload(c)
    BY PayloadShape
  <2>2. u[k] \in CommandByte
    BY <2>1
  <2> QED BY <2>1, <2>2, PayloadShape
<1>3. k # 0 /\ k =< Len(Payload(c))
  BY PayloadShape
<1> QED BY <1>1, <1>2, <1>3 DEF Genuine

LEMMA CommandShape ==
    ASSUME NEW c \in 1 .. Len(Commands), NEW s, s = CommandBytes(c)
    PROVE  /\ s \in Seq(CommandByte) /\ Len(s) = Len(Payload(c)) + 2
           /\ s[Len(s)] = FlagOf(c) /\ s[2] = PayloadByte(c, 1)
           /\ s[1] = FlagOf(c)
           /\ \A i \in 1 .. Len(s) : Genuine(s[i]) /\ s[i].c = c
           /\ \A i \in 1 .. Len(s) - 1 : AnswersTo(s[i], s[i + 1])
           /\ \A i, j \in 1 .. Len(s) : i < j => SentBefore(s[i], s[j])
<1>1. PICK n \in Nat \ {0} : n = Len(Payload(c)) /\ n = Len(Commands[c])
  BY PayloadShape
<1>2. PICK u \in Seq(CommandByte) : u = Payload(c)
  BY PayloadShape
<1>3. Len(u) = n /\ \A k \in 1 .. n : u[k] = PayloadByte(c, k)
  BY <1>1, <1>2, PayloadShape
<1>4. PICK f \in CommandByte : f = FlagOf(c)
  BY FlagIsGenuine DEF Genuine
<1>5. s = <<f>> \o u \o <<f>>
  BY <1>2, <1>4 DEF CommandBytes, FlagOf
<1>6. PICK t : t = <<f>> \o u
  OBVIOUS
<1>7. t \in Seq(CommandByte) /\ Len(t) = n + 1 /\ t[1] = f /\ \A i \in 2 .. n + 1 : t[i] = u[i - 1]
  <2>1. <<f>> \in Seq(CommandByte) /\ Len(<<f>>) = 1 /\ <<f>>[1] = f
    OBVIOUS
  <2>2. /\ t \in Seq(CommandByte) /\ Len(t) = 1 + n
        /\ \A i \in 1 .. 1 + n : t[i] = IF i =< 1 THEN <<f>>[i] ELSE u[i - 1]
    BY <1>3, <1>6, <2>1, ConcatProperties
  <2> QED BY <1>1, <2>1, <2>2
<1>8. s = Append(t, f)
  BY <1>5, <1>6, <1>7, <1>4
<1>9. /\ s \in Seq(CommandByte) /\ Len(s) = n + 2 /\ s[1] = f /\ s[n + 2] = f
      /\ \A i \in 2 .. n + 1 : s[i] = u[i - 1]
  BY <1>1, <1>7, <1>8
<1>10. \A i \in 2 .. n + 1 : i - 1 \in 1 .. n /\ s[i] = PayloadByte(c, i - 1)
  BY <1>1, <1>3, <1>9
<1>11. ASSUME NEW i \in 1 .. n + 2
       PROVE  /\ Genuine(s[i]) /\ s[i].c = c
              /\ s[i].k = IF i = 1 \/ i = n + 2 THEN 0 ELSE i - 1
  <2>1. CASE i = 1 \/ i = n + 2
    BY <1>4, <1>9, <2>1, FlagIsGenuine
  <2>2. CASE i # 1 /\ i # n + 2
    <3>1. i \in 2 .. n + 1
      BY <2>2
    <3>2. i - 1 \in 1 .. Len(Payload(c)) /\ s[i] = PayloadByte(c, i - 1)
      BY <1>1, <1>10, <3>1
    <3> QED BY <2>2, <3>2, PayloadIsGenuine
  <2> QED BY <2>1, <2>2
<1>12. ASSUME NEW i \in 1 .. n + 1
       PROVE  AnswersTo(s[i], s[i + 1])
  <2>1. CASE i = 1
    <3>1. s[i].k = 0 /\ s[i].c = c /\ s[i + 1] = PayloadByte(c, 1)
      BY <1>1, <1>10, <1>11, <2>1
    <3> QED BY <3>1 DEF AnswersTo
  <2>2. CASE i # 1 /\ i # n + 1
    <3>1. s[i].k = i - 1 /\ s[i].c = c
      BY <1>11, <2>2
    <3>2. i + 1 \in 2 .. n + 1 /\ i + 1 - 1 = i - 1 + 1 /\ i - 1 < n /\ i - 1 # 0
      BY <2>2
    <3>3. s[i + 1] = PayloadByte(c, i - 1 + 1)
      BY <1>10, <3>2
    <3> QED BY <1>1, <3>1, <3>2, <3>3 DEF AnswersTo
  <2>3. CASE i = n + 1
    <3>1. s[i].k = i - 1 /\ s[i].c = c /\ i - 1 = n /\ i - 1 # 0 /\ s[i + 1] = FlagOf(c)
      BY <1>1, <1>4, <1>9, <1>11, <2>3
    <3>2. PICK y, z : y = s[i] /\ z = s[i + 1]
      OBVIOUS
    <3>3. y.k = n /\ y.c = c /\ n # 0 /\ ~(n < n) /\ z = FlagOf(c)
      BY <3>1, <3>2
    <3>4. AnswersTo(y, z)
      BY <1>1, <3>3 DEF AnswersTo
    <3> QED BY <3>2, <3>4
  <2> QED BY <2>1, <2>2, <2>3
<1>13. ASSUME NEW i \in 1 .. n + 2, NEW j \in 1 .. n + 2, i < j
       PROVE  SentBefore(s[i], s[j])
  BY <1>11, <1>13 DEF SentBefore
<1>14. s[2] = PayloadByte(c, 1)
  BY <1>1, <1>10
<1> QED BY <1>1, <1>4, <1>9, <1>11, <1>12, <1>13, <1>14

-----------------------------------------------------------------------------
(* Commands on their way: v is the line, q the number of commands polled, e    *)
(* those executed, m those missed, u the buffer, b whether a frame is coming   *)
(* in, f whether the last byte was a flag, x whether an escape is open, s the  *)
(* commands spoiled by one.                                                   *)
OnLine(v, q) ==
    /\ v \in Seq(CommandByte) /\ q \in 0 .. Len(Commands)
    /\ \A i \in 1 .. Len(v) : Genuine(v[i]) /\ v[i].c =< q
    /\ \A i \in 1 .. Len(v) - 1 : AnswersTo(v[i], v[i + 1])
    /\ v # <<>> => v[Len(v)] = FlagOf(q)
    /\ \A i, j \in 1 .. Len(v) : i < j => SentBefore(v[i], v[j])

InBuffer(u, v, q) ==
    /\ u \in Seq(CommandByte)
    /\ \A i \in 1 .. Len(u) : u[i].k > 0 /\ u[i].c =< q /\ u[i].is \in {"data", "flipped"}
    /\ \A i \in 1 .. Len(u), j \in 1 .. Len(v) : SentBefore(u[i], v[j])

(* The bytes of a frame that is coming in are those of the command whose next   *)
(* byte is the first of the line.                                             *)
InFrame(u, v, b) == b => v # <<>> /\ \A i \in 1 .. Len(u) : u[i].c = v[1].c

Done(e, u, v, q) ==
    /\ e \in Seq(1 .. Len(Commands)) /\ Increasing(e)
    /\ \A i \in 1 .. Len(e) :
          /\ Plain(e[i]) /\ e[i] =< q
          /\ \A j \in 1 .. Len(v) : v[j].k > 0 => e[i] < v[j].c
          /\ \A j \in 1 .. Len(u) : e[i] < u[j].c

(* What is still to come is not older than command c.                          *)
NotBefore(c, u, v) ==
    /\ \A i \in 1 .. Len(v) : v[i].k > 0 => c =< v[i].c
    /\ \A i \in 1 .. Len(u) : c =< u[i].c
NoneSince(d, n, e, s) == \A p \in d + 1 .. n : Plain(p) => p \notin Range(e) /\ p \notin s

(* A spoiled command, and an open escape, go back to a command with an escape   *)
(* since which none has come in.                                              *)
SpoiledOK(u, v, q, e, s) ==
    \A c \in s :
        /\ c \in 1 .. q /\ NotBefore(c, u, v)
        /\ Plain(c) => \E d \in 1 .. c - 1 : HasEscape(d) /\ NoneSince(d, c - 1, e, s)
EscapeOK(u, v, q, b, e, x, s) ==
    x => \E d \in 1 .. q :
            /\ HasEscape(d) /\ NotBefore(d, u, v) /\ NoneSince(d, Len(Commands), e, s)
            /\ b => v[1].c = d

(* A plain command that is not executed, missed or spoiled has its first byte   *)
(* on the line, behind its flag, or its first bytes are in the buffer and the  *)
(* next one is on the line.                                                   *)
ToCome(c, v, b, f) ==
    \E i \in 1 .. Len(v) : v[i] = Byte(c, 1, "data") /\ (i = 1 => ~b /\ f)
FirstBytes(c, k) == [j \in 1 .. k |-> Byte(c, j, "data")]
UnderWay(c, v, b, x, u) ==
    /\ b /\ ~x /\ v # <<>>
    /\ \E k \in 1 .. Len(Commands[c]) :
          /\ u = FirstBytes(c, k)
          /\ v[1] = IF k < Len(Commands[c]) THEN Byte(c, k + 1, "data") ELSE FlagOf(c)
Followed(v, q, e, m, u, b, f, x, s) ==
    \A c \in 1 .. q : Plain(c) =>
        \/ c \in m \/ c \in s \/ c \in Range(e)
        \/ ToCome(c, v, b, f) \/ UnderWay(c, v, b, x, u)

Carried(v, q, e, m, u, b, f, x, s) ==
    /\ OnLine(v, q) /\ InBuffer(u, v, q) /\ InFrame(u, v, b) /\ Done(e, u, v, q)
    /\ SpoiledOK(u, v, q, e, s) /\ EscapeOK(u, v, q, b, e, x, s)
    /\ Followed(v, q, e, m, u, b, f, x, s)

CommandInv ==
    /\ Carried(line, polled, executed, missed, inBuf, busy, lastFlag, escaping, spoiled)
    /\ busy => mode = "input"

(* The manager takes the next command from its queue.                         *)
Extended(t, v, q, s) ==
    /\ t = v \o s /\ OnLine(t, q + 1)
    /\ Len(v) \in Nat /\ Len(s) \in Nat /\ Len(s) >= 2 /\ Len(t) = Len(v) + Len(s)
    /\ t # <<>>
    /\ v # <<>> => t[1] = v[1]
    /\ \A i \in 1 .. Len(v) : t[i] = v[i]
    /\ \A i \in Len(v) + 1 .. Len(v) + Len(s) : t[i].c = q + 1
    /\ t[Len(v) + 2] = PayloadByte(q + 1, 1)

LEMMA PollOnLine ==
    ASSUME NEW v, NEW q, OnLine(v, q), q + 1 =< Len(Commands), NEW s, s = CommandBytes(q + 1)
    PROVE  \E t : Extended(t, v, q, s)
<1>1. PICK c \in 1 .. Len(Commands) : c = q + 1
  BY Sizes DEF OnLine
<1>2. /\ v \in Seq(CommandByte) /\ q \in 0 .. Len(Commands)
      /\ \A i \in 1 .. Len(v) : Genuine(v[i]) /\ v[i].c =< q
      /\ \A i \in 1 .. Len(v) - 1 : AnswersTo(v[i], v[i + 1])
      /\ v # <<>> => v[Len(v)] = FlagOf(q)
      /\ \A i, j \in 1 .. Len(v) : i < j => SentBefore(v[i], v[j])
  BY DEF OnLine
<1>3. /\ s \in Seq(CommandByte) /\ Len(s) = Len(Payload(c)) + 2
      /\ s[Len(s)] = FlagOf(c) /\ s[1] = FlagOf(c) /\ s[2] = PayloadByte(c, 1)
      /\ \A i \in 1 .. Len(s) : Genuine(s[i]) /\ s[i].c = c
      /\ \A i \in 1 .. Len(s) - 1 : AnswersTo(s[i], s[i + 1])
      /\ \A i, j \in 1 .. Len(s) : i < j => SentBefore(s[i], s[j])
  BY <1>1, CommandShape
<1>4. PICK n \in Nat, k \in Nat : n = Len(v) /\ k = Len(s) /\ k >= 2
  <2>1. Len(v) \in Nat /\ Len(s) \in Nat
    BY <1>2, <1>3
  <2>2. Len(Payload(c)) \in Nat
    BY PayloadShape
  <2>3. Len(s) >= 2
    BY <1>3, <2>2
  <2> QED BY <2>1, <2>3
<1>5. PICK t : t = v \o s
  OBVIOUS
<1>6. /\ t \in Seq(CommandByte) /\ Len(t) = n + k
      /\ \A i \in 1 .. n + k : t[i] = IF i =< n THEN v[i] ELSE s[i - n]
  <2>1. v \in Seq(CommandByte) /\ s \in Seq(CommandByte)
    BY <1>2, <1>3
  <2>2. /\ v \o s \in Seq(CommandByte) /\ Len(v \o s) = Len(v) + Len(s)
        /\ \A i \in 1 .. Len(v) + Len(s) : (v \o s)[i] = IF i =< Len(v) THEN v[i] ELSE s[i - Len(v)]
    BY <2>1, ConcatProperties
  <2> QED BY <1>4, <1>5, <2>2
<1>7. /\ \A i \in 1 .. n : t[i] = v[i]
      /\ \A i \in n + 1 .. n + k : i - n \in 1 .. k /\ t[i] = s[i - n]
  BY <1>4, <1>6
<1>8. ASSUME NEW i \in 1 .. n + k
      PROVE  /\ Genuine(t[i]) /\ t[i].c =< c
             /\ i =< n => t[i].c =< q
             /\ i > n => t[i].c = c
  <2>1. CASE i =< n
    <3>1. i \in 1 .. n /\ q =< c
      BY <1>1, <1>2, <2>1, Sizes
    <3>2. Genuine(v[i]) /\ v[i].c =< q
      BY <1>2, <1>4, <3>1
    <3>3. v[i].c \in Int
      BY <3>2, GenuineShape, Sizes
    <3>4. t[i] = v[i]
      BY <1>7, <3>1
    <3>5. v[i].c =< c
      BY <1>1, <1>2, <3>1, <3>2, <3>3, Sizes
    <3> QED BY <2>1, <3>2, <3>4, <3>5
  <2>2. CASE i > n
    <3>1. i \in n + 1 .. n + k
      BY <2>2
    <3>2. i - n \in 1 .. Len(s)
      BY <1>4, <1>7, <3>1
    <3>3. Genuine(s[i - n]) /\ s[i - n].c = c
      BY <1>3, <3>2
    <3>4. c =< c
      BY <1>1, Sizes
    <3>5. t[i] = s[i - n]
      BY <1>7, <3>1
    <3> QED BY <2>2, <3>3, <3>4, <3>5
  <2> QED BY <2>1, <2>2
<1>9. ASSUME NEW i \in 1 .. n + k - 1
      PROVE  AnswersTo(t[i], t[i + 1])
  <2>1. CASE i < n
    <3>1. i \in 1 .. n - 1 /\ i \in 1 .. n /\ i + 1 \in 1 .. n
      BY <2>1
    <3> QED BY <1>2, <1>4, <1>7, <3>1
  <2>2. CASE i = n
    <3>1. n \in 1 .. n /\ v # <<>> /\ n + 1 \in n + 1 .. n + k /\ n + 1 - n = 1
      BY <1>2, <1>4, <2>2
    <3>2. t[n] = v[n] /\ t[n + 1] = s[1]
      BY <1>7, <3>1
    <3>3. v[n] = FlagOf(q) /\ s[1] = FlagOf(c) /\ i = n
      BY <1>2, <1>3, <1>4, <2>2, <3>1
    <3>4. t[i] = FlagOf(q) /\ t[i + 1] = FlagOf(c)
      BY <3>2, <3>3
    <3> QED BY <1>1, <3>4 DEF AnswersTo, FlagOf, Byte
  <2>3. CASE i > n
    <3>1. PICK j \in 1 .. k - 1 : j = i - n
      BY <2>3
    <3>2. i \in n + 1 .. n + k /\ i + 1 \in n + 1 .. n + k /\ i + 1 - n = j + 1
      BY <2>3, <3>1
    <3>3. t[i] = s[j] /\ t[i + 1] = s[j + 1]
      BY <1>7, <3>1, <3>2
    <3> QED BY <1>3, <1>4, <3>3
  <2> QED BY <2>1, <2>2, <2>3
<1>10. ASSUME NEW i \in 1 .. n + k, NEW j \in 1 .. n + k, i < j
       PROVE  SentBefore(t[i], t[j])
  <2>1. CASE j =< n
    <3>1. i \in 1 .. n /\ j \in 1 .. n
      BY <1>10, <2>1
    <3> QED BY <1>2, <1>4, <1>7, <1>10, <3>1
  <2>2. CASE i =< n /\ j > n
    <3>1. t[i].c =< q /\ t[j].c = c /\ t[i].c \in Int
      BY <1>8, <2>2, GenuineShape, Sizes
    <3> QED BY <1>1, <1>2, <3>1, Sizes DEF SentBefore
  <2>3. CASE i > n
    <3>1. i \in n + 1 .. n + k /\ j \in n + 1 .. n + k /\ i - n < j - n
      BY <1>10, <2>3
    <3> QED BY <1>3, <1>4, <1>7, <3>1
  <2> QED BY <1>10, <2>1, <2>2, <2>3
<1>11. t # <<>> /\ t[n + k] = FlagOf(c)
  <2>1. n + k \in n + 1 .. n + k /\ n + k - n = k /\ n + k > 0
    BY <1>4
  <2> QED BY <1>3, <1>4, <1>6, <1>7, <2>1
<1>12. OnLine(t, c)
  BY <1>1, <1>6, <1>8, <1>9, <1>10, <1>11 DEF OnLine
<1>13. t[n + 2] = PayloadByte(c, 1)
  <2>1. n + 2 \in n + 1 .. n + k /\ n + 2 - n = 2
    BY <1>4
  <2> QED BY <1>3, <1>7, <2>1
<1>14. v # <<>> => t[1] = v[1]
  BY <1>2, <1>4, <1>7
<1>15. \A i \in n + 1 .. n + k : t[i].c = c
  BY <1>8
<1>16. Extended(t, v, q, s)
  BY <1>1, <1>4, <1>5, <1>6, <1>7, <1>11, <1>12, <1>13, <1>14, <1>15 DEF Extended
<1> QED BY <1>16

LEMMA PollCarried ==
    ASSUME NEW v, NEW q, NEW e, NEW m, NEW u, NEW b, NEW f, NEW x, NEW s,
           Carried(v, q, e, m, u, b, f, x, s), q + 1 =< Len(Commands)
    PROVE  Carried(v \o CommandBytes(q + 1), q + 1, e, m, u, b, f, x, s)
<1>1. PICK w : w = CommandBytes(q + 1)
  OBVIOUS
<1>2. /\ OnLine(v, q) /\ InBuffer(u, v, q) /\ InFrame(u, v, b) /\ Done(e, u, v, q)
      /\ SpoiledOK(u, v, q, e, s) /\ EscapeOK(u, v, q, b, e, x, s)
  BY DEF Carried
<1>3. PICK t : Extended(t, v, q, w)
  BY <1>1, <1>2, PollOnLine
<1>4. PICK n, k : n = Len(v) /\ k = Len(w)
  OBVIOUS
<1>5. /\ OnLine(t, q + 1)
      /\ n \in Nat /\ k \in Nat /\ k >= 2 /\ Len(t) = n + k /\ t # <<>>
      /\ v # <<>> => t[1] = v[1]
      /\ \A i \in 1 .. n : t[i] = v[i]
      /\ \A i \in n + 1 .. n + k : t[i].c = q + 1
      /\ t[n + 2] = PayloadByte(q + 1, 1)
  BY <1>3, <1>4 DEF Extended
<1>6. q \in Nat /\ \A i \in 1 .. Len(u) : u[i].c \in Nat
  <2>1. q \in Nat
    BY <1>2, Sizes DEF OnLine
  <2>2. \A i \in 1 .. Len(u) : u[i] \in CommandByte
    BY <1>2 DEF InBuffer
  <2> QED BY <2>1, <2>2, Sizes DEF CommandByte
<1>7. InBuffer(u, t, q + 1)
  <2>1. ASSUME NEW i \in 1 .. Len(u), NEW j \in 1 .. n + k
        PROVE  SentBefore(u[i], t[j])
    <3>1. CASE j =< n
      <4>1. j \in 1 .. n
        BY <1>5, <3>1
      <4> QED BY <1>2, <1>4, <1>5, <4>1 DEF InBuffer
    <3>2. CASE j > n
      <4>1. j \in n + 1 .. n + k /\ u[i].c =< q
        BY <1>2, <1>5, <3>2 DEF InBuffer
      <4>2. t[j].c = q + 1 /\ u[i].c < q + 1
        BY <1>5, <1>6, <4>1
      <4> QED BY <4>2 DEF SentBefore
    <3> QED BY <1>5, <3>1, <3>2
  <2>2. \A i \in 1 .. Len(u) : u[i].c =< q + 1
    BY <1>2, <1>6 DEF InBuffer
  <2> QED BY <1>2, <1>5, <2>1, <2>2 DEF InBuffer
<1>8. Done(e, u, t, q + 1)
  <2>1. \A i \in 1 .. Len(e) : e[i] \in Nat /\ e[i] =< q
    BY <1>2, Sizes DEF Done
  <2>2. ASSUME NEW i \in 1 .. Len(e), NEW j \in 1 .. n + k, t[j].k > 0
        PROVE  e[i] < t[j].c
    <3>1. CASE j =< n
      <4>1. j \in 1 .. n
        BY <1>5, <3>1
      <4> QED BY <1>2, <1>4, <1>5, <2>2, <4>1 DEF Done
    <3>2. CASE j > n
      <4>1. j \in n + 1 .. n + k
        BY <1>5, <3>2
      <4> QED BY <1>5, <1>6, <2>1, <4>1
    <3> QED BY <1>5, <3>1, <3>2
  <2>3. \A i \in 1 .. Len(e) : e[i] =< q + 1
    BY <1>6, <2>1
  <2> QED BY <1>2, <1>5, <2>2, <2>3 DEF Done
<1>9. ASSUME NEW c \in 1 .. q, NotBefore(c, u, v)
      PROVE  NotBefore(c, u, t)
  <2>1. ASSUME NEW j \in 1 .. n + k, t[j].k > 0
        PROVE  c =< t[j].c
    <3>1. CASE j =< n
      <4>1. j \in 1 .. n
        BY <1>5, <3>1
      <4> QED BY <1>4, <1>5, <1>9, <2>1, <4>1 DEF NotBefore
    <3>2. CASE j > n
      <4>1. j \in n + 1 .. n + k
        BY <1>5, <3>2
      <4> QED BY <1>5, <1>6, <4>1
    <3> QED BY <1>5, <3>1, <3>2
  <2> QED BY <1>5, <1>9, <2>1 DEF NotBefore
<1>10. \A c : c \in 1 .. q => c \in 1 .. q + 1
  BY <1>6
<1>11. SpoiledOK(u, t, q + 1, e, s)
  BY <1>2, <1>9, <1>10 DEF SpoiledOK
<1>12. EscapeOK(u, t, q + 1, b, e, x, s) /\ InFrame(u, t, b)
  <2>1. InFrame(u, t, b)
    BY <1>2, <1>5 DEF InFrame
  <2>2. b => t[1] = v[1]
    BY <1>2, <1>5 DEF InFrame
  <2>3. EscapeOK(u, t, q + 1, b, e, x, s)
    BY <1>2, <1>9, <1>10, <2>2 DEF EscapeOK
  <2> QED BY <2>1, <2>3
<1>13. ASSUME NEW c \in 1 .. q + 1, Plain(c)
       PROVE  \/ c \in m \/ c \in s \/ c \in Range(e)
              \/ ToCome(c, t, b, f) \/ UnderWay(c, t, b, x, u)
  <2>1. CASE c = q + 1
    <3>1. t[n + 2] = Byte(c, 1, "data")
      <4>1. c \in 1 .. Len(Commands)
        BY <1>6, <2>1, Sizes
      <4>2. 1 \in DOMAIN Commands[c]
        BY <4>1, PayloadShape
      <4>3. Commands[c][1] = "data"
        BY <1>13, <4>2 DEF Plain
      <4> QED BY <1>5, <2>1, <4>3 DEF PayloadByte
    <3>2. n + 2 \in 1 .. Len(t) /\ n + 2 # 1
      BY <1>5
    <3> QED BY <3>1, <3>2 DEF ToCome
  <2>2. CASE c # q + 1
    <3>1. c \in 1 .. q
      BY <1>6, <2>2
    <3>2. \/ c \in m \/ c \in s \/ c \in Range(e)
          \/ ToCome(c, v, b, f) \/ UnderWay(c, v, b, x, u)
      BY <1>13, <3>1 DEF Carried, Followed
    <3>3. ToCome(c, v, b, f) => ToCome(c, t, b, f)
      <4>1. \A i \in 1 .. Len(v) : i \in 1 .. Len(t) /\ t[i] = v[i]
        BY <1>4, <1>5
      <4> QED BY <4>1 DEF ToCome
    <3>4. UnderWay(c, v, b, x, u) => UnderWay(c, t, b, x, u)
      BY <1>5 DEF UnderWay
    <3> QED BY <3>2, <3>3, <3>4
  <2> QED BY <2>1, <2>2
<1>14. Followed(t, q + 1, e, m, u, b, f, x, s)
  BY <1>13 DEF Followed
<1>15. t = v \o CommandBytes(q + 1)
  BY <1>1, <1>3 DEF Extended
<1>16. Carried(t, q + 1, e, m, u, b, f, x, s)
  BY <1>5, <1>7, <1>8, <1>14, <1>11, <1>12 DEF Carried
<1> QED BY <1>15, <1>16

(* The receiver takes the first byte of the line.                             *)
Taken(t, v, q) ==
    /\ t = Tail(v) /\ OnLine(t, q) /\ Len(t) \in Nat /\ Len(v) = Len(t) + 1
    /\ Genuine(v[1]) /\ v[1].c =< q
    /\ \A i \in 1 .. Len(t) : t[i] = v[i + 1] /\ SentBefore(v[1], t[i])
    /\ v[1].k > 0 => t # <<>>
    /\ t # <<>> => AnswersTo(v[1], t[1])

LEMMA TakeByte ==
    ASSUME NEW v, NEW q, OnLine(v, q), v # <<>>
    PROVE  \E t : Taken(t, v, q)
<1>1. /\ v \in Seq(CommandByte) /\ q \in 0 .. Len(Commands)
      /\ \A i \in 1 .. Len(v) : Genuine(v[i]) /\ v[i].c =< q
      /\ \A i \in 1 .. Len(v) - 1 : AnswersTo(v[i], v[i + 1])
      /\ v[Len(v)] = FlagOf(q)
      /\ \A i, j \in 1 .. Len(v) : i < j => SentBefore(v[i], v[j])
  BY DEF OnLine
<1>2. PICK t : t = Tail(v)
  OBVIOUS
<1>3. PICK n \in Nat : n = Len(v) - 1
  <2>1. v \in Seq(CommandByte)
    BY <1>1
  <2>2. Len(v) \in Nat /\ Len(v) # 0
    BY <2>1
  <2>3. Len(v) - 1 \in Nat
    BY <2>2
  <2> QED BY <2>3
<1>4. t \in Seq(CommandByte) /\ Len(t) = n /\ Len(v) = n + 1 /\ \A i \in 1 .. n : t[i] = v[i + 1]
  <2>1. /\ Tail(v) \in Seq(CommandByte) /\ Len(Tail(v)) = Len(v) - 1
        /\ \A i \in 1 .. Len(Tail(v)) : Tail(v)[i] = v[i + 1]
    BY <1>1, HeadTailProperties
  <2> QED BY <1>1, <1>2, <1>3, <2>1
<1>5. \A i \in 1 .. n : i + 1 \in 1 .. Len(v) /\ 1 < i + 1 /\ 1 \in 1 .. Len(v)
  BY <1>3, <1>4
<1>6. \A i \in 1 .. n : Genuine(t[i]) /\ t[i].c =< q /\ SentBefore(v[1], t[i])
  BY <1>1, <1>4, <1>5
<1>7. \A i \in 1 .. n - 1 : AnswersTo(t[i], t[i + 1])
  <2> SUFFICES ASSUME NEW i \in 1 .. n - 1
               PROVE  AnswersTo(t[i], t[i + 1])
    OBVIOUS
  <2>1. i \in 1 .. n /\ i + 1 \in 1 .. n /\ i + 1 \in 1 .. Len(v) - 1
    BY <1>4
  <2>2. t[i] = v[i + 1] /\ t[i + 1] = v[i + 1 + 1]
    BY <1>4, <2>1
  <2> QED BY <1>1, <2>1, <2>2
<1>8. \A i, j \in 1 .. n : i < j => SentBefore(t[i], t[j])
  <2> SUFFICES ASSUME NEW i \in 1 .. n, NEW j \in 1 .. n, i < j
               PROVE  SentBefore(t[i], t[j])
    OBVIOUS
  <2>1. i + 1 \in 1 .. Len(v) /\ j + 1 \in 1 .. Len(v) /\ i + 1 < j + 1
    BY <1>4
  <2>2. t[i] = v[i + 1] /\ t[j] = v[j + 1]
    BY <1>4
  <2> QED BY <1>1, <2>1, <2>2
<1>9. t # <<>> => n \in 1 .. n /\ t[n] = FlagOf(q)
  BY <1>1, <1>4
<1>10. OnLine(t, q)
  BY <1>1, <1>4, <1>6, <1>7, <1>8, <1>9 DEF OnLine
<1>11. 1 \in 1 .. Len(v)
  BY <1>3, <1>4
<1>12. v[1].k > 0 => t # <<>>
  <2>1. FlagOf(q).k = 0
    BY DEF FlagOf, Byte
  <2>2. ~(0 > 0)
    OBVIOUS
  <2>3. n = 0 => v[1] = FlagOf(q)
    BY <1>1, <1>4
  <2>4. t = <<>> => n = 0
    BY <1>4
  <2> QED BY <2>1, <2>2, <2>3, <2>4
<1>13. t # <<>> => AnswersTo(v[1], t[1])
  <2>1. t # <<>> => 1 \in 1 .. n /\ 1 \in 1 .. Len(v) - 1
    BY <1>4
  <2> QED BY <1>1, <1>4, <2>1
<1>14. Taken(t, v, q)
  BY <1>1, <1>2, <1>3, <1>4, <1>6, <1>10, <1>11, <1>12, <1>13 DEF Taken
<1> QED BY <1>14

LEMMA TakenKeeps ==
    ASSUME NEW t, NEW v, NEW q, Taken(t, v, q), NEW u, NEW e, InBuffer(u, v, q), Done(e, u, v, q)
    PROVE  InBuffer(u, t, q) /\ Done(e, u, t, q)
<1>1. \A j \in 1 .. Len(t) : j + 1 \in 1 .. Len(v) /\ t[j] = v[j + 1]
  BY DEF Taken
<1>2. InBuffer(u, t, q)
  BY <1>1 DEF InBuffer
<1>3. Done(e, u, t, q)
  BY <1>1 DEF Done
<1> QED BY <1>2, <1>3

LEMMA NothingInBuffer ==
    ASSUME NEW v, NEW q, NEW e, NEW u, Done(e, u, v, q)
    PROVE  InBuffer(<<>>, v, q) /\ Done(e, <<>>, v, q)
<1>1. <<>> \in Seq(CommandByte) /\ Len(<<>>) = 0 /\ \A i \in 1 .. 0 : FALSE
  OBVIOUS
<1> QED BY <1>1 DEF InBuffer, Done

LEMMA AfterPayload ==
    ASSUME NEW t, NEW v, NEW q, Taken(t, v, q), v[1].k > 0
    PROVE  /\ t # <<>> /\ t[1].c = v[1].c
           /\ \A c : v[1] # FlagOf(c)
           /\ \A c \in 1 .. Len(Commands) : \A k \in 1 .. Len(Commands[c]) :
                 Plain(c) /\ v[1] = Byte(c, k, "data") =>
                    t[1] = IF k < Len(Commands[c]) THEN Byte(c, k + 1, "data") ELSE FlagOf(c)
<1>1. PICK y : y = v[1]
  OBVIOUS
<1>2. Genuine(y) /\ y.k > 0 /\ t # <<>> /\ AnswersTo(y, t[1])
  BY <1>1 DEF Taken
<1>3. y.c \in 1 .. Len(Commands) /\ y.k \in Nat /\ y.k # 0
  BY <1>2, GenuineShape
<1>4. t[1] = IF y.k < Len(Payload(y.c)) THEN PayloadByte(y.c, y.k + 1) ELSE FlagOf(y.c)
  BY <1>2, <1>3 DEF AnswersTo
<1>5. t[1].c = y.c
  BY <1>4, ByteShape DEF PayloadByte, FlagOf
<1>6. \A c : y # FlagOf(c)
  BY <1>3 DEF FlagOf, Byte
<1>7. ASSUME NEW c \in 1 .. Len(Commands), NEW k \in 1 .. Len(Commands[c]), Plain(c),
             y = Byte(c, k, "data")
      PROVE  t[1] = IF k < Len(Commands[c]) THEN Byte(c, k + 1, "data") ELSE FlagOf(c)
  <2>1. y.c = c /\ y.k = k /\ Len(Payload(c)) = Len(Commands[c])
    BY <1>7, ByteShape, PayloadShape
  <2>2. k < Len(Commands[c]) => PayloadByte(c, k + 1) = Byte(c, k + 1, "data")
    <3>1. PICK l \in Nat : l = Len(Commands[c]) /\ DOMAIN Commands[c] = 1 .. l
      BY PayloadShape
    <3>2. k < l => k + 1 \in 1 .. l
      BY <3>1
    <3> QED BY <1>7, <3>1, <3>2 DEF PayloadByte, Plain
  <2> QED BY <1>4, <2>1, <2>2
<1> QED BY <1>1, <1>2, <1>3, <1>5, <1>6, <1>7

LEMMA StillToCome ==
    ASSUME NEW t, NEW v, NEW q, Taken(t, v, q), NEW c, NEW b, NEW f, ToCome(c, v, b, f),
           NEW b2, NEW f2, v[1] = FlagOf(c) => ~b2 /\ f2, ~(v[1] = Byte(c, 1, "data") /\ ~b /\ f)
    PROVE  ToCome(c, t, b2, f2)
<1>1. PICK i \in 1 .. Len(v) : v[i] = Byte(c, 1, "data") /\ (i = 1 => ~b /\ f)
  BY DEF ToCome
<1>2. Len(t) \in Nat /\ Len(v) = Len(t) + 1 /\ \A k \in 1 .. Len(t) : t[k] = v[k + 1]
  BY DEF Taken
<1>3. i # 1
  BY <1>1
<1>4. PICK j \in 1 .. Len(t) : i = j + 1
  <2>1. i - 1 \in 1 .. Len(t) /\ i = i - 1 + 1
    BY <1>2, <1>3
  <2> QED BY <2>1
<1>5. t[j] = Byte(c, 1, "data")
  BY <1>1, <1>2, <1>4
<1>6. CASE j = 1
  <2>1. PICK y : y = v[1]
    OBVIOUS
  <2>2. Genuine(y) /\ AnswersTo(y, t[1]) /\ t[1] = Byte(c, 1, "data")
    <3>1. t # <<>>
      BY <1>2, <1>6
    <3> QED BY <1>5, <1>6, <2>1, <3>1 DEF Taken
  <2>3. y.k \in Nat /\ (y.k = 0 => y = FlagOf(y.c))
    BY <2>2, GenuineShape
  <2>4. t[1].c = c /\ t[1].k = 1 /\ t[1].is = "data"
    BY <2>2, ByteShape
  <2>5. \A d : FlagOf(d).k = 0
    BY ByteShape DEF FlagOf
  <2>6. \A d, k : PayloadByte(d, k).c = d /\ PayloadByte(d, k).k = k
    BY ByteShape DEF PayloadByte
  <2>7. y.k = 0
    <3>1. CASE y.k # 0
      <4>1. t[1] = PayloadByte(y.c, y.k + 1) \/ t[1] = FlagOf(y.c)
        BY <2>2, <3>1 DEF AnswersTo
      <4>2. t[1].k = y.k + 1 \/ t[1].k = 0
        BY <2>5, <2>6, <4>1
      <4> QED BY <2>3, <2>4, <3>1, <4>2
    <3> QED BY <3>1
  <2>8. t[1] = PayloadByte(y.c, 1) \/ t[1] = FlagOf(y.c + 1)
    BY <2>2, <2>7 DEF AnswersTo
  <2>9. y.c = c
    BY <2>4, <2>5, <2>6, <2>8
  <2>10. ~b2 /\ f2
    BY <2>1, <2>3, <2>7, <2>9
  <2> QED BY <1>5, <2>10 DEF ToCome
<1>7. CASE j # 1
  BY <1>5, <1>7 DEF ToCome
<1> QED BY <1>6, <1>7

LEMMA StillNotBefore ==
    ASSUME NEW t, NEW v, NEW q, Taken(t, v, q), NEW u, NEW c, NotBefore(c, u, v)
    PROVE  NotBefore(c, u, t) /\ NotBefore(c, <<>>, t) /\ (v[1].k > 0 => c =< v[1].c)
<1>1. Len(t) \in Nat /\ Len(v) = Len(t) + 1 /\ \A i \in 1 .. Len(t) : t[i] = v[i + 1]
  BY DEF Taken
<1>2. \A i \in 1 .. Len(t) : i + 1 \in 1 .. Len(v)
  BY <1>1
<1>3. 1 \in 1 .. Len(v)
  BY <1>1
<1>4. Len(<<>>) = 0 /\ \A i \in 1 .. 0 : FALSE
  OBVIOUS
<1> QED BY <1>1, <1>2, <1>3, <1>4 DEF NotBefore

LEMMA ToComeNext ==
    ASSUME NEW t, NEW v, NEW q, Taken(t, v, q), NEW c, NEW b, NEW f, ToCome(c, v, b, f),
           v[1].is = "flag"
    PROVE  ToCome(c, t, FALSE, TRUE)
<1>1. v[1] # Byte(c, 1, "data")
  BY ByteShape
<1>2. PICK b2, f2 : b2 = FALSE /\ f2 = TRUE
  OBVIOUS
<1>3. v[1] = FlagOf(c) => ~b2 /\ f2
  BY <1>2
<1>4. ToCome(c, t, b2, f2)
  BY <1>1, <1>3, StillToCome
<1> QED BY <1>2, <1>4

(* What a byte, a command or the end of a slot does to the commands.           *)
LEMMA DropCarried ==
    ASSUME NEW t, NEW v, NEW q, Taken(t, v, q), NEW e, NEW m, NEW u, NEW b, NEW f, NEW x, NEW s,
           Carried(v, q, e, m, u, b, f, x, s), ~b,
           NEW m2, NEW f2, m \subseteq m2, v[1].c \in m2 \/ (f2 <=> v[1].is = "flag"),
           v[1].c \in m2 \/ ~f \/ v[1].is = "flag"
    PROVE  Carried(t, q, e, m2, u, b, f2, x, s)
<1>1. InBuffer(u, t, q) /\ Done(e, u, t, q)
  BY TakenKeeps DEF Carried
<1>2. SpoiledOK(u, t, q, e, s) /\ EscapeOK(u, t, q, b, e, x, s) /\ InFrame(u, t, b)
  <2>1. \A c : NotBefore(c, u, v) => NotBefore(c, u, t)
    BY StillNotBefore
  <2>2. SpoiledOK(u, t, q, e, s)
    BY <2>1 DEF Carried, SpoiledOK
  <2>3. EscapeOK(u, t, q, b, e, x, s)
    BY <2>1 DEF Carried, EscapeOK
  <2> QED BY <2>2, <2>3 DEF InFrame
<1>3. ASSUME NEW c \in 1 .. q, Plain(c), c \notin m2
      PROVE  c \in s \/ c \in Range(e) \/ ToCome(c, t, b, f2)
  <2>1. c \in s \/ c \in Range(e) \/ ToCome(c, v, b, f)
    BY <1>3 DEF Carried, Followed, UnderWay
  <2>2. ASSUME ToCome(c, v, b, f)
        PROVE  ToCome(c, t, b, f2)
    <3>1. v[1] = FlagOf(c) => v[1].c = c /\ v[1].is = "flag"
      BY ByteShape DEF FlagOf
    <3>2. v[1] = Byte(c, 1, "data") => v[1].c = c /\ v[1].is # "flag"
      BY ByteShape
    <3>3. v[1] = FlagOf(c) => ~b /\ f2
      BY <1>3, <3>1
    <3>4. ~(v[1] = Byte(c, 1, "data") /\ ~b /\ f)
      BY <1>3, <3>2
    <3> QED BY <2>2, <3>3, <3>4, StillToCome
  <2> QED BY <2>1, <2>2
<1>4. Followed(t, q, e, m2, u, b, f2, x, s)
  BY <1>3 DEF Followed
<1> QED BY <1>1, <1>2, <1>4 DEF Carried, Taken

(* The buffer u with byte y written to it, x saying that an escape is open.     *)
WrittenTo(u, y, x) ==
    IF y.is = "esc" THEN u ELSE Append(u, IF x THEN [y EXCEPT !.is = "flipped"] ELSE y)

OfOne(u, c) == \A i \in 1 .. Len(u) : u[i].c = c

LEMMA BufferGrows ==
    ASSUME NEW t, NEW v, NEW q, Taken(t, v, q), v[1].k > 0,
           NEW u, NEW e, InBuffer(u, v, q), Done(e, u, v, q),
           v[1].is # "flag", OfOne(u, v[1].c), NEW u2, NEW x,
           u2 = WrittenTo(u, v[1], x)
    PROVE  InBuffer(u2, t, q) /\ Done(e, u2, t, q) /\ OfOne(u2, v[1].c)
<1>1. InBuffer(u, t, q) /\ Done(e, u, t, q)
  BY TakenKeeps
<1>2. CASE v[1].is = "esc"
  BY <1>1, <1>2 DEF WrittenTo
<1>3. CASE v[1].is # "esc"
  <2>1. PICK y : y = v[1]
    OBVIOUS
  <2>2. y \in CommandByte /\ y.k > 0 /\ y.c =< q /\ y.is = "data"
    BY <1>3, <2>1, GenuineShape DEF Taken
  <2>3. PICK z \in CommandByte : /\ z = (IF x THEN [y EXCEPT !.is = "flipped"] ELSE y)
                                 /\ z.c = y.c /\ z.k = y.k /\ z.is \in {"data", "flipped"}
    <3>1. CASE x
      <4>1. [y EXCEPT !.is = "flipped"] = [c |-> y.c, k |-> y.k, is |-> "flipped"]
        BY <2>2 DEF CommandByte
      <4>2. [c |-> y.c, k |-> y.k, is |-> "flipped"] \in CommandByte
        BY <2>2 DEF CommandByte
      <4> QED BY <3>1, <4>1, <4>2
    <3>2. CASE ~x
      BY <2>2, <3>2
    <3> QED BY <3>1, <3>2
  <2>4. PICK s : s = u2 /\ s = Append(u, z)
    BY <1>3, <2>1, <2>3 DEF WrittenTo
  <2>5. u \in Seq(CommandByte)
    BY DEF InBuffer
  <2>6. PICK n \in Nat : n = Len(u)
    BY <2>5
  <2>7. s \in Seq(CommandByte) /\ Len(s) = n + 1 /\ s[n + 1] = z /\ \A i \in 1 .. n : s[i] = u[i]
    BY <2>4, <2>5, <2>6
  <2>8. \A j \in 1 .. Len(t) : SentBefore(y, t[j])
    BY <2>1 DEF Taken
  <2>9. ASSUME NEW i \in 1 .. n + 1
        PROVE  /\ s[i].k > 0 /\ s[i].c =< q /\ s[i].is \in {"data", "flipped"}
               /\ \A j \in 1 .. Len(t) : SentBefore(s[i], t[j])
               /\ \A j \in 1 .. Len(e) : e[j] < s[i].c
    <3>1. CASE i = n + 1
      <4>1. s[i] = z
        BY <2>7, <3>1
      <4>2. \A j \in 1 .. Len(t) : SentBefore(z, t[j])
        BY <2>3, <2>8 DEF SentBefore
      <4>3. 1 \in 1 .. Len(v)
        BY DEF Taken
      <4>4. \A j \in 1 .. Len(e) : e[j] < y.c
        BY <2>1, <4>3 DEF Done
      <4> QED BY <2>2, <2>3, <4>1, <4>2, <4>4
    <3>2. CASE i # n + 1
      <4>1. i \in 1 .. Len(u) /\ s[i] = u[i]
        BY <2>6, <2>7, <3>2
      <4> QED BY <1>1, <4>1 DEF InBuffer, Done
    <3> QED BY <3>1, <3>2
  <2>10. InBuffer(s, t, q)
    BY <2>7, <2>9 DEF InBuffer
  <2>11. Done(e, s, t, q)
    BY <1>1, <2>7, <2>9 DEF Done
  <2>12. ASSUME NEW i \in 1 .. n + 1
         PROVE  s[i].c = y.c
    <3>1. i = n + 1 \/ i \in 1 .. n
      OBVIOUS
    <3>2. s[n + 1].c = y.c /\ \A j \in 1 .. n : s[j].c = y.c
      BY <2>1, <2>3, <2>6, <2>7 DEF OfOne
    <3> QED BY <3>1, <3>2
  <2> QED BY <2>1, <2>4, <2>7, <2>10, <2>11, <2>12 DEF OfOne
<1> QED BY <1>2, <1>3

LEMMA FirstBytesShape ==
    ASSUME NEW c, NEW k \in Nat
    PROVE  /\ Append(FirstBytes(c, k), Byte(c, k + 1, "data")) = FirstBytes(c, k + 1)
           /\ Append(<<>>, Byte(c, 1, "data")) = FirstBytes(c, 1)
<1>1. PICK T : T = {Byte(c, j, "data") : j \in 1 .. k + 1}
  OBVIOUS
<1>2. PICK u : u = FirstBytes(c, k)
  OBVIOUS
<1>3. u \in Seq(T) /\ Len(u) = k /\ \A j \in 1 .. k : u[j] = Byte(c, j, "data")
  BY <1>1, <1>2 DEF FirstBytes
<1>4. PICK b \in T : b = Byte(c, k + 1, "data")
  BY <1>1
<1>5. PICK s : s = Append(u, b)
  OBVIOUS
<1>6. s \in Seq(T) /\ Len(s) = k + 1 /\ s[k + 1] = b /\ \A j \in 1 .. k : s[j] = u[j]
  BY <1>3, <1>4, <1>5
<1>7. s \in [1 .. k + 1 -> T]
  BY <1>6, LenProperties
<1>8. \A j \in 1 .. k + 1 : s[j] = Byte(c, j, "data")
  BY <1>3, <1>4, <1>6
<1>9. s = FirstBytes(c, k + 1)
  BY <1>7, <1>8 DEF FirstBytes
<1>10. Append(<<>>, Byte(c, 1, "data")) = FirstBytes(c, 1)
  BY DEF FirstBytes
<1> QED BY <1>2, <1>4, <1>5, <1>9, <1>10

(* A byte that is written makes the frame, and may open an escape.             *)
LEMMA PlainNoEscape ==
    ASSUME NEW c, Plain(c)
    PROVE  ~HasEscape(c)
BY DEF Plain, HasEscape

LEMMA EscapeOpens ==
    ASSUME NEW t, NEW v, NEW q, Taken(t, v, q), v[1].is # "flag", NEW e, NEW u, NEW s,
           OnLine(v, q), Done(e, u, v, q), SpoiledOK(u, v, q, e, s), NEW u2,
           \A i \in 1 .. Len(u2) : u2[i].c = v[1].c,
           NEW s2, \A c \in s2 : c \in s \/ c = v[1].c
    PROVE  /\ NotBefore(v[1].c, u2, t) /\ InFrame(u2, t, TRUE)
           /\ EscapeOK(u2, t, q, TRUE, e, v[1].is = "esc", s2)
<1>1. PICK y, d : y = v[1] /\ d = y.c
  OBVIOUS
<1>2. /\ Genuine(y) /\ y.c =< q /\ y.k > 0 /\ d \in 1 .. Len(Commands)
      /\ (y.is = "esc" => HasEscape(d)) /\ 1 \in 1 .. Len(v)
  BY <1>1, GenuineShape DEF Taken
<1>3. d \in 1 .. q /\ q \in Nat /\ q =< Len(Commands)
  BY <1>1, <1>2, Sizes DEF OnLine
<1>4. NotBefore(d, u2, t)
  <2>1. ASSUME NEW i \in 1 .. Len(t), t[i].k > 0
        PROVE  d =< t[i].c
    <3>1. SentBefore(y, t[i]) /\ Genuine(t[i])
      BY <1>1 DEF Taken, OnLine
    <3>2. t[i].c \in Nat
      BY <3>1, GenuineShape, Sizes
    <3> QED BY <1>1, <1>2, <1>3, <2>1, <3>1, <3>2 DEF SentBefore
  <2>2. \A i \in 1 .. Len(u2) : d =< u2[i].c
    BY <1>1, <1>3
  <2> QED BY <2>1, <2>2 DEF NotBefore
<1>5. t # <<>> /\ t[1].c = d
  BY <1>1, <1>2, AfterPayload
<1>6. InFrame(u2, t, TRUE)
  BY <1>1, <1>5 DEF InFrame
<1>7. NoneSince(d, Len(Commands), e, s2)
  <2>1. ASSUME NEW p \in d + 1 .. Len(Commands)
        PROVE  p \notin Range(e) /\ p \notin s2
    <3>1. p > d /\ p \in Nat
      BY <1>3, Sizes
    <3>2. p \notin Range(e)
      <4>1. e \in Seq(1 .. Len(Commands)) /\ \A i \in 1 .. Len(e) : e[i] < d
        BY <1>1, <1>2 DEF Done
      <4>2. \A i \in DOMAIN e : e[i] < d
        BY <4>1
      <4> QED BY <1>3, <3>1, <4>2 DEF Range
    <3>3. \A c \in s : c \in 1 .. q /\ c =< d
      BY <1>1, <1>2 DEF SpoiledOK, NotBefore
    <3>4. p \notin s
      BY <1>3, <3>1, <3>3
    <3>5. p # d
      BY <1>3, <3>1
    <3> QED BY <1>1, <3>2, <3>4, <3>5
  <2> QED BY <2>1 DEF NoneSince
<1>8. EscapeOK(u2, t, q, TRUE, e, y.is = "esc", s2)
  BY <1>2, <1>3, <1>4, <1>5, <1>7 DEF EscapeOK
<1> QED BY <1>1, <1>4, <1>6, <1>8

LEMMA StartCarried ==
    ASSUME Carried(line, polled, executed, missed, inBuf, busy, lastFlag, escaping, spoiled),
           NEW t, Taken(t, line, polled), ~busy, line[1].is # "flag",
           NEW s2, s2 = IF escaping THEN spoiled \cup {line[1].c} ELSE spoiled, NEW u2,
           u2 = WrittenTo(<<>>, line[1], escaping)
    PROVE  Carried(t, polled, executed, missed, u2, TRUE, FALSE, line[1].is = "esc", s2)
<1>1. line[1].k > 0 /\ Genuine(line[1]) /\ line[1].c =< polled
  BY GenuineShape DEF Taken
<1>2. /\ InBuffer(u2, t, polled) /\ Done(executed, u2, t, polled)
      /\ \A i \in 1 .. Len(u2) : u2[i].c = line[1].c
  <2>1. InBuffer(<<>>, line, polled) /\ Done(executed, <<>>, line, polled)
    BY NothingInBuffer DEF Carried
  <2>2. Len(<<>>) = 0 /\ \A i \in 1 .. 0 : FALSE
    OBVIOUS
  <2>3. OfOne(<<>>, line[1].c)
    BY <2>2 DEF OfOne
  <2>4. InBuffer(u2, t, polled) /\ Done(executed, u2, t, polled) /\ OfOne(u2, line[1].c)
    BY <1>1, <2>1, <2>3, BufferGrows
  <2> QED BY <2>4 DEF OfOne
<1>3. PICK d \in 1 .. polled : d = line[1].c
  BY <1>1, GenuineShape, Sizes DEF Carried, OnLine
<1>4. spoiled \subseteq s2 /\ \A c \in s2 : c \in spoiled \/ c = line[1].c
  OBVIOUS
<1>5. /\ NotBefore(d, u2, t) /\ InFrame(u2, t, TRUE)
      /\ EscapeOK(u2, t, polled, TRUE, executed, line[1].is = "esc", s2)
  BY <1>2, <1>3, <1>4, EscapeOpens DEF Carried
<1>6. SpoiledOK(u2, t, polled, executed, s2)
  <2>1. ASSUME NEW c \in spoiled
        PROVE  /\ c \in 1 .. polled /\ NotBefore(c, u2, t)
               /\ Plain(c) => \E p \in 1 .. c - 1 :
                                 HasEscape(p) /\ NoneSince(p, c - 1, executed, s2)
    <3>1. /\ c \in 1 .. polled /\ NotBefore(c, inBuf, line)
          /\ Plain(c) => \E p \in 1 .. c - 1 :
                            HasEscape(p) /\ NoneSince(p, c - 1, executed, spoiled)
      BY DEF Carried, SpoiledOK
    <3>2. c =< d /\ NotBefore(c, <<>>, t)
      BY <1>1, <1>3, <3>1, StillNotBefore
    <3>3. NotBefore(c, u2, t)
      BY <1>2, <1>3, <3>2 DEF NotBefore
    <3>4. polled \in Nat
      BY Sizes DEF Carried, OnLine
    <3>5. \A p \in 1 .. c - 1 : NoneSince(p, c - 1, executed, spoiled)
                                    => NoneSince(p, c - 1, executed, s2)
      <4>1. ASSUME NEW p \in 1 .. c - 1, NEW r \in p + 1 .. c - 1
            PROVE  r # d
        BY <3>1, <3>2, <3>4
      <4> QED BY <1>3, <1>4, <4>1 DEF NoneSince
    <3> QED BY <3>1, <3>3, <3>5
  <2>2. ASSUME escaping
        PROVE  Plain(d) => \E p \in 1 .. d - 1 :
                              HasEscape(p) /\ NoneSince(p, d - 1, executed, s2)
    <3>1. PICK p \in 1 .. polled : /\ HasEscape(p) /\ NotBefore(p, inBuf, line)
                                   /\ NoneSince(p, Len(Commands), executed, spoiled)
      BY <2>2 DEF Carried, EscapeOK
    <3>2. p =< d
      BY <1>1, <1>3, <3>1, StillNotBefore
    <3>3. polled \in Nat /\ polled =< Len(Commands)
      BY Sizes DEF Carried, OnLine
    <3>4. Plain(d) => p \in 1 .. d - 1
      BY <3>1, <3>2, <3>3, PlainNoEscape
    <3>5. NoneSince(p, d - 1, executed, s2)
      <4>1. \A r \in p + 1 .. d - 1 : r \in p + 1 .. Len(Commands) /\ r # d
        BY <3>3, Sizes
      <4> QED BY <1>3, <1>4, <3>1, <4>1 DEF NoneSince
    <3> QED BY <3>1, <3>4, <3>5
  <2>3. ASSUME NEW c \in s2, c \notin spoiled
        PROVE  c = d /\ escaping
    BY <1>3, <2>3
  <2> QED BY <1>5, <2>1, <2>2, <2>3 DEF SpoiledOK
<1>7. ASSUME NEW c \in 1 .. polled, Plain(c), c \notin missed, c \notin s2
      PROVE  \/ c \in Range(executed) \/ ToCome(c, t, TRUE, FALSE)
             \/ UnderWay(c, t, TRUE, line[1].is = "esc", u2)
  <2>1. c \in Range(executed) \/ ToCome(c, line, busy, lastFlag)
    BY <1>7, <1>4 DEF Carried, Followed, UnderWay
  <2>2. CASE line[1] = Byte(c, 1, "data")
    <3>1. c \in 1 .. Len(Commands) /\ 1 \in 1 .. Len(Commands[c])
      <4>1. c \in 1 .. Len(Commands)
        BY Sizes DEF Carried, OnLine
      <4> QED BY <4>1, PayloadShape
    <3>2. t # <<>> /\ t[1] = IF 1 < Len(Commands[c]) THEN Byte(c, 1 + 1, "data") ELSE FlagOf(c)
      BY <1>1, <1>7, <2>2, <3>1, AfterPayload
    <3>3. line[1].c = c /\ line[1].is = "data"
      BY <2>2, ByteShape
    <3>4. ~escaping
      BY <1>7, <3>3
    <3>5. u2 = FirstBytes(c, 1)
      BY <2>2, <3>3, <3>4, FirstBytesShape DEF WrittenTo
    <3> QED BY <3>1, <3>2, <3>3, <3>5 DEF UnderWay
  <2>3. CASE line[1] # Byte(c, 1, "data")
    <3>1. line[1] # FlagOf(c)
      BY <1>1, AfterPayload
    <3> QED BY <2>1, <2>3, <3>1, StillToCome
  <2> QED BY <2>2, <2>3
<1>8. Followed(t, polled, executed, missed, u2, TRUE, FALSE, line[1].is = "esc", s2)
  BY <1>7 DEF Followed
<1> QED BY <1>2, <1>8, <1>5, <1>6 DEF Carried, Taken

LEMMA ContinueCarried ==
    ASSUME NEW t, NEW v, NEW q, Taken(t, v, q), NEW e, NEW m, NEW u, NEW b, NEW f, NEW x, NEW s,
           Carried(v, q, e, m, u, b, f, x, s), b, v[1].is # "flag", NEW u2,
           u2 = WrittenTo(u, v[1], x)
    PROVE  Carried(t, q, e, m, u2, b, FALSE, v[1].is = "esc", s)
<1>1. v[1].k > 0
  BY GenuineShape DEF Taken
<1>2. /\ InBuffer(u2, t, q) /\ Done(e, u2, t, q)
      /\ \A i \in 1 .. Len(u2) : u2[i].c = v[1].c
  <2>1. OfOne(u, v[1].c)
    BY DEF Carried, InFrame, OfOne
  <2>2. InBuffer(u, v, q) /\ Done(e, u, v, q)
    BY DEF Carried
  <2>3. InBuffer(u2, t, q) /\ Done(e, u2, t, q) /\ OfOne(u2, v[1].c)
    BY <1>1, <2>1, <2>2, BufferGrows
  <2> QED BY <2>3 DEF OfOne
<1>3. /\ NotBefore(v[1].c, u2, t) /\ InFrame(u2, t, TRUE)
      /\ EscapeOK(u2, t, q, TRUE, e, v[1].is = "esc", s)
  BY <1>2, EscapeOpens DEF Carried
<1>4. InFrame(u2, t, b) /\ EscapeOK(u2, t, q, b, e, v[1].is = "esc", s)
  BY <1>3 DEF InFrame, EscapeOK
<1>5. SpoiledOK(u2, t, q, e, s)
  <2>1. ASSUME NEW c, NotBefore(c, u, v)
        PROVE  NotBefore(c, u2, t)
    <3>1. c =< v[1].c /\ NotBefore(c, u, t)
      BY <1>1, <2>1, StillNotBefore
    <3> QED BY <1>2, <3>1 DEF NotBefore
  <2> QED BY <2>1 DEF Carried, SpoiledOK
<1>6. ASSUME NEW c \in 1 .. q, Plain(c), c \notin m, c \notin s, c \notin Range(e)
      PROVE  ToCome(c, t, b, FALSE) \/ UnderWay(c, t, b, v[1].is = "esc", u2)
  <2>1. ToCome(c, v, b, f) \/ UnderWay(c, v, b, x, u)
    BY <1>6 DEF Carried, Followed
  <2>2. \A d : v[1] # FlagOf(d)
    BY <1>1, AfterPayload
  <2>3. CASE UnderWay(c, v, b, x, u)
    <3>1. PICK k \in 1 .. Len(Commands[c]) :
             /\ u = FirstBytes(c, k)
             /\ v[1] = IF k < Len(Commands[c]) THEN Byte(c, k + 1, "data") ELSE FlagOf(c)
      BY <2>3 DEF UnderWay
    <3>2. v[1] = Byte(c, k + 1, "data") /\ k < Len(Commands[c])
      BY <2>2, <3>1
    <3>3. c \in 1 .. Len(Commands)
      BY Sizes DEF Carried, OnLine
    <3>4. PICK n \in 1 .. Len(Commands[c]) : n = k + 1
      <4>1. Len(Commands[c]) \in Nat
        BY <3>3, PayloadShape
      <4> QED BY <3>2, <4>1
    <3>5. t # <<>> /\ t[1] = IF n < Len(Commands[c]) THEN Byte(c, n + 1, "data") ELSE FlagOf(c)
      BY <1>1, <1>6, <3>2, <3>4, <3>3, AfterPayload
    <3>6. v[1].is = "data" /\ ~x
      BY <2>3, <3>2, ByteShape DEF UnderWay
    <3>7. u2 = FirstBytes(c, n)
      <4>1. u2 = Append(FirstBytes(c, k), Byte(c, k + 1, "data")) /\ k \in Nat
        BY <3>1, <3>2, <3>6 DEF WrittenTo
      <4> QED BY <3>4, <4>1, FirstBytesShape
    <3> QED BY <3>5, <3>6, <3>7 DEF UnderWay
  <2>4. CASE ToCome(c, v, b, f)
    <3>1. ToCome(c, t, b, FALSE)
      BY <2>2, <2>4, StillToCome, Zenon
    <3> QED BY <3>1
  <2> QED BY <2>1, <2>3, <2>4
<1>7. Followed(t, q, e, m, u2, b, FALSE, v[1].is = "esc", s)
  BY <1>6 DEF Followed
<1> QED BY <1>2, <1>7, <1>4, <1>5 DEF Carried, Taken

LEMMA OverflowCarried ==
    ASSUME NEW t, NEW v, NEW q, Taken(t, v, q), NEW e, NEW m, NEW u, NEW b, NEW f, NEW x, NEW s,
           Carried(v, q, e, m, u, b, f, x, s), b, v[1].is # "flag",
           NEW m2, m \subseteq m2, v[1].c \in m2
    PROVE  Carried(t, q, e, m2, <<>>, FALSE, FALSE, FALSE, s)
<1>1. v[1].k > 0
  BY GenuineShape DEF Taken
<1>2. InBuffer(<<>>, t, q) /\ Done(e, <<>>, t, q)
  BY TakenKeeps, NothingInBuffer DEF Carried
<1>3. /\ SpoiledOK(<<>>, t, q, e, s) /\ EscapeOK(<<>>, t, q, FALSE, e, FALSE, s)
      /\ InFrame(<<>>, t, FALSE)
  <2>1. \A c : NotBefore(c, u, v) => NotBefore(c, <<>>, t)
    BY StillNotBefore
  <2>2. SpoiledOK(<<>>, t, q, e, s)
    BY <2>1 DEF Carried, SpoiledOK
  <2> QED BY <2>2 DEF EscapeOK, InFrame
<1>4. ASSUME NEW c \in 1 .. q, Plain(c), c \notin m2, c \notin s, c \notin Range(e)
      PROVE  ToCome(c, t, FALSE, FALSE)
  <2>1. ToCome(c, v, b, f) \/ UnderWay(c, v, b, x, u)
    BY <1>4 DEF Carried, Followed
  <2>2. \A d : v[1] # FlagOf(d)
    BY <1>1, AfterPayload
  <2>3. ~UnderWay(c, v, b, x, u)
    <3>1. ASSUME UnderWay(c, v, b, x, u)
          PROVE  v[1].c = c
      BY <2>2, <3>1, ByteShape DEF UnderWay
    <3> QED BY <1>4, <3>1
  <2>4. ToCome(c, v, b, f)
    BY <2>1, <2>3
  <2> QED BY <2>2, <2>4, StillToCome
<1>5. Followed(t, q, e, m2, <<>>, FALSE, FALSE, FALSE, s)
  BY <1>4 DEF Followed
<1> QED BY <1>2, <1>3, <1>5 DEF Carried, Taken

(* A frame that is executed is a plain command: an escape does not get through. *)
LEMMA GoodIsPlain ==
    ASSUME NEW v, NEW q, NEW u, InBuffer(u, v, q), Len(u) < InSize,
           NEW d \in 1 .. Len(Commands), u = Payload(d)
    PROVE  /\ Plain(d) /\ Len(u) = Len(Payload(d)) /\ Len(u) \in 1 .. Len(u) /\ 1 \in 1 .. Len(u)
           /\ u[1].c = d /\ u[Len(u)].c = d /\ u[Len(u)].k = Len(u)
<1>1. PICK l \in Nat \ {0} : /\ l = Len(u) /\ l = Len(Commands[d]) /\ l = Len(Payload(d))
                             /\ DOMAIN Commands[d] = 1 .. l
                             /\ \A k \in 1 .. l : /\ Commands[d][k] \in {"data", "esc", "flag"}
                                                  /\ u[k] = PayloadByte(d, k)
  BY PayloadShape
<1>2. \A k \in 1 .. l : u[k].c = d /\ u[k].k = k /\ u[k].is = Commands[d][k]
  BY <1>1, ByteShape DEF PayloadByte
<1>3. \A k \in 1 .. l : Commands[d][k] = "data"
  BY <1>1, <1>2 DEF InBuffer
<1>4. Plain(d)
  BY <1>1, <1>3 DEF Plain
<1>5. l \in 1 .. l /\ 1 \in 1 .. l
  OBVIOUS
<1> QED BY <1>1, <1>2, <1>4, <1>5

(* Its execution ends no escape and comes after all that is spoiled.           *)
LEMMA GoodEnds ==
    ASSUME NEW t, NEW v, NEW q, Taken(t, v, q), NEW e, NEW m, NEW u, NEW b, NEW f, NEW x, NEW s,
           Carried(v, q, e, m, u, b, f, x, s), b, Len(u) < InSize,
           NEW d \in 1 .. Len(Commands), u = Payload(d),
           NEW e2, \A c \in Range(e2) : c \in Range(e) \/ c = d
    PROVE  SpoiledOK(<<>>, t, q, e2, s) /\ ~x
<1>1. Plain(d) /\ 1 \in 1 .. Len(u) /\ u[1].c = d
  BY GoodIsPlain DEF Carried
<1>2. ~x
  <2> SUFFICES ASSUME x
               PROVE  FALSE
    OBVIOUS
  <2>1. PICK p \in 1 .. q : HasEscape(p) /\ v[1].c = p
    BY DEF Carried, EscapeOK
  <2>2. p = d
    BY <1>1, <2>1 DEF Carried, InFrame
  <2> QED BY <1>1, <2>1, <2>2, PlainNoEscape
<1>3. q \in Nat
  BY Sizes DEF Carried, OnLine
<1>4. ASSUME NEW c \in s
      PROVE  /\ c \in 1 .. q /\ NotBefore(c, <<>>, t)
             /\ Plain(c) => \E p \in 1 .. c - 1 : HasEscape(p) /\ NoneSince(p, c - 1, e2, s)
  <2>1. /\ c \in 1 .. q /\ NotBefore(c, u, v)
        /\ Plain(c) => \E p \in 1 .. c - 1 : HasEscape(p) /\ NoneSince(p, c - 1, e, s)
    BY DEF Carried, SpoiledOK
  <2>2. NotBefore(c, <<>>, t)
    BY <2>1, StillNotBefore
  <2>3. c =< d
    BY <1>1, <2>1 DEF NotBefore
  <2>4. \A p \in 1 .. c - 1 : NoneSince(p, c - 1, e, s) => NoneSince(p, c - 1, e2, s)
    <3>1. ASSUME NEW p \in 1 .. c - 1, NEW r \in p + 1 .. c - 1
          PROVE  r # d
      BY <1>3, <2>1, <2>3
    <3> QED BY <3>1 DEF NoneSince
  <2> QED BY <2>1, <2>2, <2>4
<1>5. SpoiledOK(<<>>, t, q, e2, s)
  BY <1>4 DEF SpoiledOK
<1> QED BY <1>2, <1>5

LEMMA EndCarried ==
    ASSUME NEW t, NEW v, NEW q, Taken(t, v, q), NEW e, NEW m, NEW u, NEW b, NEW f, NEW x, NEW s,
           Carried(v, q, e, m, u, b, f, x, s), b, v[1].is = "flag", Len(u) < InSize, NEW e2,
           \/ (\E c \in 1 .. Len(Commands) : u = Payload(c)) /\ e2 = Append(e, u[1].c)
           \/ ~(\E c \in 1 .. Len(Commands) : u = Payload(c)) /\ e2 = e
    PROVE  Carried(t, q, e2, m, <<>>, FALSE, TRUE, x, s)
<1>1. Done(e, u, t, q) /\ InBuffer(u, t, q) /\ InBuffer(u, v, q) /\ InBuffer(<<>>, t, q)
  BY TakenKeeps, NothingInBuffer DEF Carried
<1>2. \A c : NotBefore(c, u, v) => NotBefore(c, <<>>, t)
  BY StillNotBefore
<1>3. e \in Seq(1 .. Len(Commands))
  BY <1>1 DEF Done
<1>4. /\ Done(e2, <<>>, t, q) /\ \A c \in 1 .. q : c \in Range(e) => c \in Range(e2)
      /\ SpoiledOK(<<>>, t, q, e2, s) /\ EscapeOK(<<>>, t, q, FALSE, e2, x, s)
  <2>1. CASE e2 = e
    <3>1. Done(e, <<>>, t, q)
      BY <1>1, NothingInBuffer
    <3>2. SpoiledOK(<<>>, t, q, e, s)
      BY <1>2 DEF Carried, SpoiledOK
    <3>3. EscapeOK(<<>>, t, q, FALSE, e, x, s)
      BY <1>2 DEF Carried, EscapeOK
    <3> QED BY <2>1, <3>1, <3>2, <3>3
  <2>2. CASE \E c \in 1 .. Len(Commands) : u = Payload(c) /\ e2 = Append(e, u[1].c)
    <3>1. PICK d \in 1 .. Len(Commands) : u = Payload(d) /\ e2 = Append(e, u[1].c)
      BY <2>2
    <3>2. PICK n \in Nat, l \in Nat : n = Len(e) /\ l = Len(u)
      <4>1. u \in Seq(CommandByte)
        BY <1>1 DEF InBuffer
      <4> QED BY <1>3, <4>1
    <3>3. /\ Plain(d) /\ l = Len(Payload(d)) /\ l \in 1 .. l
          /\ u[1].c = d /\ u[l].c = d /\ u[l].k = l /\ 1 \in 1 .. l
      BY <1>1, <3>1, <3>2, GoodIsPlain
    <3>4. PICK g : g = e2
      OBVIOUS
    <3>5. g \in Seq(1 .. Len(Commands)) /\ Len(g) = n + 1 /\ g[n + 1] = d /\ \A i \in 1 .. n : g[i] = e[i]
      <4>1. g = Append(e, d)
        BY <3>1, <3>3, <3>4
      <4> QED BY <1>3, <3>2, <4>1
    <3>6. \A i \in 1 .. n : e[i] < d
      BY <1>1, <3>2, <3>3 DEF Done
    <3>7. Increasing(g)
      <4>1. DOMAIN g = 1 .. n + 1 /\ DOMAIN e = 1 .. n
        BY <1>3, <3>2, <3>5
      <4>2. \A i, j \in 1 .. n : i < j => e[i] < e[j]
        BY <1>1, <4>1 DEF Done, Increasing
      <4>3. ASSUME NEW i \in 1 .. n + 1, NEW j \in 1 .. n + 1, i < j
            PROVE  g[i] < g[j]
        <5>1. CASE j = n + 1
          BY <3>5, <3>6, <4>3, <5>1
        <5>2. CASE j # n + 1
          BY <3>5, <4>2, <4>3, <5>2
        <5> QED BY <5>1, <5>2
      <4> QED BY <4>1, <4>3 DEF Increasing
    <3>8. ASSUME NEW j \in 1 .. Len(t), t[j].k > 0
          PROVE  d < t[j].c
      <4>1. PICK y : y = t[j]
        OBVIOUS
      <4>2. Genuine(y)
        BY <4>1 DEF Taken, OnLine
      <4>3. y.c \in 1 .. Len(Commands) /\ y.k \in Nat /\ y.k =< Len(Payload(y.c))
        BY <4>2, GenuineShape DEF Genuine
      <4>4. d < y.c \/ (d = y.c /\ l < y.k)
        <5>1. SentBefore(u[l], t[j])
          BY <1>1, <3>2, <3>3 DEF InBuffer
        <5>2. l > 0
          BY <3>3
        <5> QED BY <3>3, <3>8, <4>1, <5>1, <5>2 DEF SentBefore
      <4>5. d = y.c => y.k =< l
        BY <3>3, <4>3
      <4> QED BY <4>1, <4>3, <4>4, <4>5, Sizes
    <3>9. d =< q
      <4>1. 1 \in 1 .. Len(u)
        BY <3>2, <3>3
      <4> QED BY <1>1, <3>3, <4>1 DEF InBuffer
    <3>10. ASSUME NEW i \in 1 .. n + 1
           PROVE  /\ Plain(g[i]) /\ g[i] =< q
                  /\ \A j \in 1 .. Len(t) : t[j].k > 0 => g[i] < t[j].c
      <4>1. CASE i = n + 1
        BY <3>3, <3>5, <3>8, <3>9, <4>1
      <4>2. CASE i # n + 1
        <5>1. i \in 1 .. Len(e) /\ g[i] = e[i]
          BY <3>2, <3>5, <4>2
        <5> QED BY <1>1, <5>1 DEF Done
      <4> QED BY <4>1, <4>2
    <3>11. Done(g, <<>>, t, q)
      <4>1. Len(<<>>) = 0 /\ \A i \in 1 .. 0 : FALSE
        OBVIOUS
      <4> QED BY <3>5, <3>7, <3>10, <4>1 DEF Done
    <3>12. \A c \in 1 .. q : c \in Range(e) => c \in Range(g)
      <4>1. DOMAIN g = 1 .. n + 1 /\ DOMAIN e = 1 .. n
        BY <1>3, <3>2, <3>5
      <4> QED BY <3>5, <4>1 DEF Range
    <3>13. \A c \in Range(g) : c \in Range(e) \/ c = d
      <4>1. DOMAIN g = 1 .. n + 1 /\ DOMAIN e = 1 .. n
        BY <1>3, <3>2, <3>5
      <4> QED BY <3>5, <4>1 DEF Range
    <3>14. SpoiledOK(<<>>, t, q, g, s) /\ ~x
      BY <3>1, <3>13, GoodEnds
    <3> QED BY <3>4, <3>11, <3>12, <3>14 DEF EscapeOK
  <2> QED BY <2>1, <2>2
<1>5. ASSUME NEW c \in 1 .. q, Plain(c), c \notin m, c \notin s, c \notin Range(e2)
      PROVE  ToCome(c, t, FALSE, TRUE)
  <2>1. ToCome(c, v, b, f) \/ UnderWay(c, v, b, x, u)
    BY <1>4, <1>5 DEF Carried, Followed
  <2>2. ~UnderWay(c, v, b, x, u)
    <3> SUFFICES ASSUME UnderWay(c, v, b, x, u)
                 PROVE  FALSE
      OBVIOUS
    <3>1. c \in 1 .. Len(Commands)
      BY Sizes DEF Carried, OnLine
    <3>2. PICK l \in Nat : l = Len(Commands[c]) /\ DOMAIN Commands[c] = 1 .. l
      BY <3>1, PayloadShape
    <3>3. PICK k \in 1 .. l :
             /\ u = FirstBytes(c, k)
             /\ v[1] = IF k < l THEN Byte(c, k + 1, "data") ELSE FlagOf(c)
      BY <3>2 DEF UnderWay
    <3>4. k = l
      BY <3>2, <3>3, ByteShape
    <3>5. \A j \in 1 .. l : Commands[c][j] = "data"
      BY <1>5, <3>2 DEF Plain
    <3>6. u = Payload(c)
      BY <3>2, <3>3, <3>4, <3>5 DEF FirstBytes, Payload
    <3>7. e2 = Append(e, u[1].c) /\ u[1].c = c
      BY <1>1, <3>1, <3>6, GoodIsPlain
    <3>8. c \in Range(e2)
      <4>1. PICK g : g = e2
        OBVIOUS
      <4>2. g = Append(e, c)
        BY <3>7, <4>1
      <4>3. Len(e) + 1 \in DOMAIN g /\ g[Len(e) + 1] = c
        BY <1>3, <3>1, <4>2
      <4> QED BY <4>1, <4>3 DEF Range
    <3> QED BY <1>5, <3>8
  <2>3. ToCome(c, v, b, f)
    BY <2>1, <2>2
  <2> QED BY <2>3, ToComeNext
<1>6. Followed(t, q, e2, m, <<>>, FALSE, TRUE, x, s)
  BY <1>5 DEF Followed
<1>7. InFrame(<<>>, t, FALSE)
  BY DEF InFrame
<1> QED BY <1>1, <1>4, <1>6, <1>7 DEF Carried, Taken

LEMMA StopCarried ==
    ASSUME NEW v, NEW q, NEW e, NEW m, NEW u, NEW b, NEW f, NEW x, NEW s,
           Carried(v, q, e, m, u, b, f, x, s), NEW m2,
           m \subseteq m2, \A i \in DOMAIN u : u[i].c \in m2
    PROVE  Carried(v, q, e, m2, <<>>, FALSE, f, x, s)
<1>1. InBuffer(<<>>, v, q) /\ Done(e, <<>>, v, q)
  BY NothingInBuffer DEF Carried
<1>2. /\ SpoiledOK(<<>>, v, q, e, s) /\ EscapeOK(<<>>, v, q, FALSE, e, x, s)
      /\ InFrame(<<>>, v, FALSE)
  <2>1. \A c : NotBefore(c, u, v) => NotBefore(c, <<>>, v)
    BY DEF NotBefore
  <2>2. SpoiledOK(<<>>, v, q, e, s)
    BY <2>1 DEF Carried, SpoiledOK
  <2>3. EscapeOK(<<>>, v, q, FALSE, e, x, s)
    BY <2>1 DEF Carried, EscapeOK
  <2> QED BY <2>2, <2>3 DEF InFrame
<1>3. ASSUME NEW c \in 1 .. q, Plain(c), c \notin m2, c \notin s, c \notin Range(e)
      PROVE  ToCome(c, v, FALSE, f)
  <2>1. ToCome(c, v, b, f) \/ UnderWay(c, v, b, x, u)
    BY <1>3 DEF Carried, Followed
  <2>2. ~UnderWay(c, v, b, x, u)
    <3> SUFFICES ASSUME UnderWay(c, v, b, x, u)
                 PROVE  FALSE
      OBVIOUS
    <3>1. c \in 1 .. Len(Commands)
      BY Sizes DEF Carried, OnLine
    <3>2. PICK k \in 1 .. Len(Commands[c]) : u = FirstBytes(c, k)
      BY DEF UnderWay
    <3>3. 1 \in 1 .. k
      BY <3>1, <3>2, PayloadShape
    <3>4. 1 \in DOMAIN u /\ u[1] = Byte(c, 1, "data")
      BY <3>2, <3>3 DEF FirstBytes
    <3>5. u[1].c = c
      BY <3>4, ByteShape
    <3> QED BY <1>3, <3>4, <3>5
  <2> QED BY <2>1, <2>2 DEF ToCome
<1>4. Followed(v, q, e, m2, <<>>, FALSE, f, x, s)
  BY <1>3 DEF Followed
<1> QED BY <1>1, <1>2, <1>4 DEF Carried

-----------------------------------------------------------------------------
(* The invariant: the ring, the reports, the commands, and the types of what   *)
(* remains.                                                                   *)
RestOK ==
    /\ mode \in {"off", "input", "output"}
    /\ filled \in BOOLEAN /\ txPending \in BOOLEAN
    /\ reqIdx \in 0 .. Len(ReqFrame)
    /\ busy \in BOOLEAN /\ lastFlag \in BOOLEAN /\ escaping \in BOOLEAN
    /\ Len(inBuf) < InSize /\ (~busy => inBuf = <<>>)
    /\ slot \in DOMAIN Slots /\ room \in 0 .. SlotBytes
    /\ queued \in 0 .. Len(Commands) /\ polled \in 0 .. queued
    /\ lost \subseteq 1 .. Reports /\ missed \subseteq 1 .. Len(Commands)
    /\ spoiled \subseteq 1 .. Len(Commands) /\ {disturbed, garbled} \subseteq BOOLEAN

SerialInv == RingOK /\ ReportInv /\ CommandInv /\ RestOK

LEMMA InvIsTyped == SerialInv => SerialTypeOK
<1> SUFFICES ASSUME SerialInv
             PROVE  SerialTypeOK
  OBVIOUS
<1>1. /\ readBuf \in Seq(Bytes) /\ got \in Seq(1 .. Reports) /\ printed \in 0 .. Reports
  BY DEF SerialInv, ReportInv, Sent
<1>2. /\ line \in Seq(CommandByte) /\ inBuf \in Seq(CommandByte)
      /\ executed \in Seq(1 .. Len(Commands))
  BY DEF SerialInv, CommandInv, Carried, OnLine, InBuffer, Done
<1>3. RestOK /\ RingOK
  BY DEF SerialInv
<1>4. /\ ring \in [Index -> Bytes] /\ iW \in Index /\ iR \in Index
      /\ unread \in 0 .. RingSize /\ (iW - iR) % RingSize = unread % RingSize
  BY <1>3 DEF RingOK
<1> QED BY <1>1, <1>2, <1>3, <1>4, Zenon DEF RestOK, SerialTypeOK

LEMMA InvAccounts == SerialInv => FramesAccounted
<1> SUFFICES ASSUME SerialInv
             PROVE  FramesAccounted
  OBVIOUS
<1>1. PICK a : Sent(Window, readBuf, got, lost, printed, disturbed, garbled, a)
  BY DEF SerialInv, ReportInv
<1>2. Increasing(got) /\ printed \in 0 .. Reports
  BY <1>1 DEF Sent, Received
<1>3. ASSUME NEW n \in 1 .. printed
      PROVE  n \in Range(got) \cup lost \cup InRing \cup InHand
  <2>1. n \in 1 .. Reports
    BY <1>2, Sizes
  <2>2. n \in lost \/ n \in Range(got) \/ WholeIn(n, Window, readBuf, a) \/ HalfIn(n, Window, readBuf)
    BY <1>1 DEF Sent, Accounted
  <2>3. InRing = ReportsIn(Window)
    BY WindowShape DEF SerialInv
  <2> QED BY <2>1, <2>2, <2>3, InWindow DEF InHand
<1>4. garbled => disturbed
  BY <1>1 DEF Sent, Undisturbed
<1>5. Carried(line, polled, executed, missed, inBuf, busy, lastFlag, escaping, spoiled)
  BY DEF SerialInv, CommandInv
<1>6. /\ Done(executed, inBuf, line, polled) /\ OnLine(line, polled) /\ InBuffer(inBuf, line, polled)
      /\ Followed(line, polled, executed, missed, inBuf, busy, lastFlag, escaping, spoiled)
      /\ SpoiledOK(inBuf, line, polled, executed, spoiled)
  BY <1>5 DEF Carried
<1>7. Increasing(executed)
  BY <1>6 DEF Done
<1>8. ASSUME NEW c \in 1 .. polled, Plain(c)
      PROVE  c \in Range(executed) \cup missed \cup spoiled \cup OnItsWay
  <2>1. \/ c \in missed \/ c \in spoiled \/ c \in Range(executed)
        \/ ToCome(c, line, busy, lastFlag) \/ UnderWay(c, line, busy, escaping, inBuf)
    BY <1>6, <1>8 DEF Followed
  <2>2. CASE ToCome(c, line, busy, lastFlag)
    <3>1. PICK i \in 1 .. Len(line) : line[i] = Byte(c, 1, "data")
      BY <2>2 DEF ToCome
    <3>2. i \in DOMAIN line /\ line[i].c = c
      BY <1>6, <3>1, ByteShape DEF OnLine
    <3> QED BY <3>2 DEF OnItsWay
  <2>3. CASE UnderWay(c, line, busy, escaping, inBuf)
    <3>1. c \in 1 .. Len(Commands)
      BY <1>6, Sizes DEF OnLine
    <3>2. PICK k \in 1 .. Len(Commands[c]) : inBuf = FirstBytes(c, k)
      BY <2>3 DEF UnderWay
    <3>3. 1 \in 1 .. k
      BY <3>1, <3>2, PayloadShape
    <3>4. 1 \in DOMAIN inBuf /\ inBuf[1] = Byte(c, 1, "data")
      BY <3>2, <3>3 DEF FirstBytes
    <3>5. inBuf[1].c = c
      BY <3>4, ByteShape
    <3> QED BY <3>4, <3>5 DEF OnItsWay
  <2> QED BY <2>1, <2>2, <2>3
<1>9. ASSUME NEW c \in Range(executed)
      PROVE  Plain(c)
  <2>1. PICK i \in DOMAIN executed : executed[i] = c
    BY DEF Range
  <2>2. i \in 1 .. Len(executed)
    BY <1>6, <2>1 DEF Done
  <2> QED BY <1>6, <2>1, <2>2 DEF Done
<1>10. ASSUME NEW c \in spoiled, Plain(c)
       PROVE  \E d \in 1 .. c - 1 :
                 /\ HasEscape(d)
                 /\ \A p \in d + 1 .. c - 1 : Plain(p) => p \notin Range(executed) \cup spoiled
  BY <1>6, <1>10 DEF SpoiledOK, NoneSince
<1> QED BY <1>2, <1>3, <1>4, <1>7, <1>8, <1>9, <1>10 DEF FramesAccounted

LEMMA InvInit == SerialInit => SerialInv
<1> SUFFICES ASSUME SerialInit
             PROVE  SerialInv
  OBVIOUS
<1>1. Flag \in Bytes /\ 0 \in Index
  BY Sizes DEF Bytes, Index
<1>2. RingOK
  <2>1. (0 - 0) % RingSize = 0 % RingSize
    OBVIOUS
  <2> QED BY <1>1, <2>1, Sizes DEF SerialInit, RingOK
<1>3. Window = <<>>
  BY DEF SerialInit, Window
<1>4. (mode = "input" /\ txPending) = FALSE
  BY DEF SerialInit
<1>5. Len(<<>>) = 0 /\ (\A i \in 1 .. 0 : FALSE) /\ 0 # RingSize /\ DOMAIN <<>> = {}
  BY Sizes
<1>6. Sent(<<>>, <<>>, <<>>, {}, 0, FALSE, FALSE, FALSE)
  <2>1. Stream(<<>>, <<>>)
    BY <1>5 DEF Stream, InOrder
  <2>2. Received(<<>>, <<>>, <<>>, 0)
    BY <1>5, NothingIsBlock DEF Received, Increasing
  <2>3. Accounted(<<>>, <<>>, <<>>, {}, 0, FALSE)
    BY <1>5 DEF Accounted
  <2>4. FullIsHit(<<>>, <<>>, {}, FALSE)
    BY <1>5 DEF FullIsHit
  <2>5. Undisturbed(<<>>, <<>>, FALSE, FALSE)
    BY DEF Undisturbed, AtFrame
  <2>6. <<>> \in Seq(Bytes) /\ <<>> \in Seq(1 .. Reports) /\ 0 \in 0 .. Reports /\ 0 =< RingSize
    BY Sizes
  <2> QED BY <1>5, <2>1, <2>2, <2>3, <2>4, <2>5, <2>6 DEF Sent
<1>7. ReportInv
  BY <1>3, <1>4, <1>6 DEF ReportInv, RequestOK, SerialInit
<1>8. Carried(<<>>, 0, <<>>, {}, <<>>, FALSE, TRUE, FALSE, {})
  <2>1. OnLine(<<>>, 0)
    BY <1>5, Sizes DEF OnLine
  <2>2. InBuffer(<<>>, <<>>, 0)
    BY <1>5 DEF InBuffer
  <2>3. Done(<<>>, <<>>, <<>>, 0)
    BY <1>5 DEF Done, Increasing
  <2>4. /\ SpoiledOK(<<>>, <<>>, 0, <<>>, {}) /\ InFrame(<<>>, <<>>, FALSE)
        /\ EscapeOK(<<>>, <<>>, 0, FALSE, <<>>, FALSE, {})
    BY DEF SpoiledOK, InFrame, EscapeOK
  <2>5. Followed(<<>>, 0, <<>>, {}, <<>>, FALSE, TRUE, FALSE, {})
    BY <1>5 DEF Followed
  <2> QED BY <2>1, <2>2, <2>3, <2>4, <2>5 DEF Carried
<1>9. CommandInv
  BY <1>8 DEF CommandInv, SerialInit
<1>10. RestOK
  <2>1. Len(ReqFrame) \in Nat
    BY FrameShape, Sizes DEF ReqFrame, Request
  <2>2. Len(Slots) \in DOMAIN Slots
    BY SerialAssumption, Sizes
  <2>3. /\ reqIdx \in 0 .. Len(ReqFrame) /\ room \in 0 .. SlotBytes
        /\ queued \in 0 .. Len(Commands) /\ polled \in 0 .. queued
        /\ slot \in DOMAIN Slots
    BY <2>1, <2>2, Sizes DEF SerialInit
  <2>4. Len(inBuf) < InSize /\ inBuf = <<>>
    BY <1>5, Sizes DEF SerialInit
  <2> QED BY <2>3, <2>4 DEF RestOK, SerialInit
<1> QED BY <1>2, <1>7, <1>9, <1>10 DEF SerialInv

(* What the commands see of the steps of the manager and of the end of a slot. *)
LEMMA CaptureCarried ==
    ASSUME NEW e, NEW m, NEW u, NEW b, NEW f, NEW x, NEW s,
           Carried(line, polled, e, m, u, b, f, x, s), RestOK, NEW y, CaptureByte(y)
    PROVE  /\ Carried(line', polled', e, m, u, b, f, x, s)
           /\ polled' \in 0 .. queued /\ garbled' \in BOOLEAN
<1>1. queued \in 0 .. Len(Commands) /\ polled \in 0 .. queued /\ garbled \in BOOLEAN
  BY DEF RestOK
<1>2. garbled' = garbled \/ garbled' = TRUE
  BY DEF CaptureByte, CloseFrame, manager
<1>3. Poll \/ UNCHANGED <<polled, line>>
  BY DEF CaptureByte, CloseFrame, manager
<1>4. CASE UNCHANGED <<polled, line>>
  BY <1>1, <1>2, <1>4
<1>5. CASE polled < queued /\ polled' = polled + 1 /\ line' = line \o CommandBytes(polled + 1)
  <2>1. polled + 1 \in 0 .. queued /\ polled + 1 =< Len(Commands)
    BY <1>1, <1>5, Sizes
  <2>2. Carried(line \o CommandBytes(polled + 1), polled + 1, e, m, u, b, f, x, s)
    BY <2>1, PollCarried
  <2> QED BY <1>1, <1>2, <1>5, <2>1, <2>2
<1> QED BY <1>3, <1>4, <1>5 DEF Poll

LEMMA StopCommands ==
    ASSUME NEW p, NEW k, NEW y, StopAnd(p, k, y),
           Carried(line', polled', executed, missed, inBuf, busy, lastFlag, escaping, spoiled)
    PROVE  CommandInv'
<1>1. PICK v, q : v = line' /\ q = polled'
  OBVIOUS
<1>2. PICK m : m = missed'
  OBVIOUS
<1>3. /\ m = missed \cup {inBuf[i].c : i \in DOMAIN inBuf}
      /\ busy' = FALSE /\ inBuf' = <<>>
      /\ UNCHANGED <<lastFlag, escaping, executed, spoiled>>
  BY <1>2 DEF StopAnd, Stopped
<1>4. Carried(v, q, executed, m, <<>>, FALSE, lastFlag, escaping, spoiled)
  <2>1. Carried(v, q, executed, missed, inBuf, busy, lastFlag, escaping, spoiled)
    BY <1>1
  <2>2. missed \subseteq m /\ \A i \in DOMAIN inBuf : inBuf[i].c \in m
    BY <1>3
  <2> QED BY <2>1, <2>2, StopCarried
<1> QED BY <1>1, <1>2, <1>3, <1>4 DEF CommandInv

(* The steps, one by one.                                                     *)
LEMMA ReportNumbers == \A s : ReportsIn(s) \subseteq 1 .. Reports
BY DEF ReportsIn

LEMMA LostNumbers ==
    ASSUME RestOK, NEW s, NEW y, Excuse(s, y)
    PROVE  lost' \subseteq 1 .. Reports /\ disturbed' \in BOOLEAN
<1>1. InRing \subseteq 1 .. Reports /\ InHand \subseteq 1 .. Reports
  BY ReportNumbers DEF InRing, InHand
<1>2. lost' \subseteq 1 .. Reports
  BY <1>1, ReportNumbers DEF RestOK, Excuse
<1>3. disturbed' \in BOOLEAN
  BY DEF Excuse
<1> QED BY <1>2, <1>3

LEMMA SendToBufferStep ==
    ASSUME SerialInv, SendToBuffer
    PROVE  SerialInv'
<1>1. /\ UNCHANGED <<mode, ring, iW, iR, unread, filled, reqIdx, busy, lastFlag, escaping, inBuf>>
      /\ UNCHANGED <<txPending, slot, room, readBuf, polled, got, garbled, line, printed, executed>>
      /\ UNCHANGED <<lost, disturbed, missed, spoiled>>
  BY DEF SendToBuffer, output, input, manager, excuses
<1>2. RingOK' /\ Window' = Window
  BY <1>1 DEF SerialInv, RingOK, Window
<1>3. ReportInv'
  BY <1>1, <1>2 DEF SerialInv, ReportInv, RequestOK
<1>4. CommandInv'
  BY <1>1 DEF SerialInv, CommandInv
<1>5. RestOK'
  <2>1. queued' \in 0 .. Len(Commands) /\ polled \in 0 .. queued'
    BY Sizes DEF SerialInv, RestOK, SendToBuffer
  <2> QED BY <1>1, <2>1 DEF SerialInv, RestOK
<1> QED BY <1>2, <1>3, <1>4, <1>5 DEF SerialInv

LEMMA PrintReportStep ==
    ASSUME SerialInv, PrintReport
    PROVE  SerialInv'
<1>1. RingOK' /\ ReportInv'
  BY PrintReportSent DEF SerialInv
<1>2. /\ UNCHANGED <<mode, reqIdx, busy, lastFlag, escaping, inBuf, txPending, slot, room>>
      /\ UNCHANGED <<polled, garbled, queued, line, executed, missed, spoiled>>
      /\ filled' = TRUE
  BY DEF PrintReport, input, manager
<1>3. CommandInv'
  BY <1>2 DEF SerialInv, CommandInv
<1>4. lost' \subseteq 1 .. Reports /\ disturbed' \in BOOLEAN
  BY LostNumbers DEF SerialInv, PrintReport
<1>5. RestOK'
  BY <1>2, <1>4 DEF SerialInv, RestOK
<1> QED BY <1>1, <1>3, <1>5 DEF SerialInv

LEMMA SendRequestStep ==
    ASSUME SerialInv, SendRequest
    PROVE  SerialInv'
<1>1. Len(ReqFrame) = Body + 2
  BY FrameShape, Sizes DEF ReqFrame, Request
<1>2. reqIdx \in Nat
  BY <1>1, Sizes DEF SerialInv, RestOK
<1>3. RingOK' /\ ReportInv' /\ reqIdx' \in Nat /\ reqIdx' =< Body + 2
  BY <1>2, SendRequestSent DEF SerialInv
<1>4. /\ UNCHANGED <<mode, filled, busy, lastFlag, escaping, inBuf, slot, room>>
      /\ UNCHANGED <<queued, executed, missed, spoiled, lost, disturbed>>
      /\ txPending' = txPending \/ txPending' = FALSE
      /\ (\E y : CaptureByte(y)) \/ UNCHANGED <<line, polled, garbled>>
  BY DEF SendRequest, input, manager, excuses
<1>5. Carried(line, polled, executed, missed, inBuf, busy, lastFlag, escaping, spoiled) /\ RestOK
  BY DEF SerialInv, CommandInv
<1>6. /\ Carried(line', polled', executed, missed, inBuf, busy, lastFlag, escaping, spoiled)
      /\ polled' \in 0 .. queued /\ garbled' \in BOOLEAN
  <2>1. CASE \E y : CaptureByte(y)
    BY <1>5, <2>1, CaptureCarried
  <2>2. CASE UNCHANGED <<line, polled, garbled>>
    BY <1>5, <2>2 DEF RestOK
  <2> QED BY <1>4, <2>1, <2>2
<1>7. CommandInv'
  BY <1>4, <1>6 DEF SerialInv, CommandInv
<1>8. RestOK'
  <2>1. reqIdx' \in 0 .. Len(ReqFrame)
    BY <1>1, <1>3, Sizes
  <2>2. txPending' \in BOOLEAN
    BY <1>4, <1>5 DEF RestOK
  <2> QED BY <1>4, <1>5, <1>6, <2>1, <2>2 DEF RestOK
<1> QED BY <1>3, <1>7, <1>8 DEF SerialInv

LEMMA SendOutputStep ==
    ASSUME SerialInv, SendOutput
    PROVE  SerialInv'
<1>1. RingOK' /\ ReportInv'
  BY SendOutputSent DEF SerialInv
<1>2. /\ UNCHANGED <<mode, reqIdx, busy, lastFlag, escaping, inBuf, slot>>
      /\ UNCHANGED <<queued, executed, missed, spoiled, lost, disturbed>>
      /\ txPending' = txPending \/ txPending' = FALSE
      /\ filled' = filled \/ filled' = FALSE
      /\ room' = room \/ (room > 0 /\ room' = room - 1)
      /\ (\E y : CaptureByte(y)) \/ UNCHANGED <<line, polled, garbled>>
  BY DEF SendOutput, input, manager, excuses
<1>3. Carried(line, polled, executed, missed, inBuf, busy, lastFlag, escaping, spoiled) /\ RestOK
  BY DEF SerialInv, CommandInv
<1>4. /\ Carried(line', polled', executed, missed, inBuf, busy, lastFlag, escaping, spoiled)
      /\ polled' \in 0 .. queued /\ garbled' \in BOOLEAN
  <2>1. CASE \E y : CaptureByte(y)
    BY <1>3, <2>1, CaptureCarried
  <2>2. CASE UNCHANGED <<line, polled, garbled>>
    BY <1>3, <2>2 DEF RestOK
  <2> QED BY <1>2, <2>1, <2>2
<1>5. CommandInv'
  BY <1>2, <1>4 DEF SerialInv, CommandInv
<1>6. RestOK'
  <2>1. room' \in 0 .. SlotBytes
    BY <1>2, <1>3, Sizes DEF RestOK
  <2>2. txPending' \in BOOLEAN /\ filled' \in BOOLEAN
    BY <1>2, <1>3 DEF RestOK
  <2> QED BY <1>2, <1>3, <1>4, <2>1, <2>2 DEF RestOK
<1> QED BY <1>1, <1>5, <1>6 DEF SerialInv

LEMMA NewSlotStep ==
    ASSUME SerialInv, NewSlot
    PROVE  SerialInv'
<1>1. (~txPending \/ mode = "output") /\ (Silence \/ StartOutput \/ StartInput)
  BY DEF NewSlot
<1>2. RingOK' /\ ReportInv'
  BY <1>1, SilenceSent, StartOutputSent, StartInputSent DEF SerialInv
<1>3. PICK p, k, y : StopAnd(p, k, y)
  BY <1>1 DEF Silence, StartOutput, StartInput
<1>4. /\ busy' = FALSE /\ inBuf' = <<>>
      /\ UNCHANGED <<lastFlag, escaping, queued, executed, spoiled>>
      /\ filled' = TRUE \/ filled' = filled
      /\ missed' = missed \cup {inBuf[i].c : i \in DOMAIN inBuf}
      /\ (\E s : Excuse(s, y))
  <2>1. filled' \in BOOLEAN
    BY <1>3 DEF StopAnd
  <2>2. /\ busy' = FALSE /\ inBuf' = <<>>
        /\ UNCHANGED <<lastFlag, escaping, queued, executed, spoiled>>
        /\ missed' = missed \cup {inBuf[i].c : i \in DOMAIN inBuf}
        /\ (filled => filled')
    BY <1>3 DEF StopAnd, Stopped
  <2>3. \E s : Excuse(s, y)
    BY <1>3 DEF StopAnd
  <2>4. filled \in BOOLEAN
    BY DEF SerialInv, RestOK
  <2> QED BY <2>1, <2>2, <2>3, <2>4
<1>5. /\ mode' \in {"off", "input", "output"} /\ txPending' \in BOOLEAN
      /\ reqIdx' = reqIdx \/ reqIdx' = 0
      /\ room' = room \/ room' = SlotBytes - 1
      /\ (\E z : CaptureByte(z)) \/ UNCHANGED <<line, polled, garbled>>
  BY <1>1 DEF Silence, StartOutput, StartInput, manager
<1>6. Carried(line, polled, executed, missed, inBuf, busy, lastFlag, escaping, spoiled) /\ RestOK
  BY DEF SerialInv, CommandInv
<1>7. /\ Carried(line', polled', executed, missed, inBuf, busy, lastFlag, escaping, spoiled)
      /\ polled' \in 0 .. queued /\ garbled' \in BOOLEAN
  <2>1. CASE \E z : CaptureByte(z)
    BY <1>6, <2>1, CaptureCarried
  <2>2. CASE UNCHANGED <<line, polled, garbled>>
    BY <1>6, <2>2 DEF RestOK
  <2> QED BY <1>5, <2>1, <2>2
<1>8. CommandInv'
  BY <1>3, <1>7, StopCommands
<1>9. RestOK'
  <2>1. slot' \in DOMAIN Slots
    <3>1. slot \in 1 .. Len(Slots) /\ DOMAIN Slots = 1 .. Len(Slots)
      BY <1>6, SerialAssumption, Sizes DEF RestOK
    <3>2. slot % Len(Slots) \in 0 .. Len(Slots) - 1
      BY <3>1, Sizes
    <3> QED BY <3>1, <3>2, Sizes DEF NewSlot
  <2>2. room' \in 0 .. SlotBytes
    BY <1>5, <1>6, Sizes DEF RestOK
  <2>3. reqIdx' \in 0 .. Len(ReqFrame)
    <3>1. Len(ReqFrame) \in Nat
      BY FrameShape, Sizes DEF ReqFrame, Request
    <3> QED BY <1>5, <1>6, <3>1 DEF RestOK
  <2>4. lost' \subseteq 1 .. Reports /\ disturbed' \in BOOLEAN
    BY <1>4, <1>6, LostNumbers
  <2>5. missed' \subseteq 1 .. Len(Commands)
    <3>1. inBuf \in Seq(CommandByte)
      BY <1>6 DEF Carried, InBuffer
    <3>2. \A i \in DOMAIN inBuf : inBuf[i] \in CommandByte
      BY <3>1
    <3>3. \A i \in DOMAIN inBuf : inBuf[i].c \in 1 .. Len(Commands)
      BY <3>2 DEF CommandByte
    <3> QED BY <1>4, <1>6, <3>3 DEF RestOK
  <2>6. Len(inBuf') < InSize
    BY <1>4, Sizes
  <2>7. filled' \in BOOLEAN
    BY <1>4, <1>6 DEF RestOK
  <2> QED BY <1>4, <1>5, <1>6, <1>7, <2>1, <2>2, <2>3, <2>4, <2>5, <2>6, <2>7 DEF RestOK
<1> QED BY <1>2, <1>8, <1>9 DEF SerialInv

(* A byte that does not stop the receiver leaves the mote's output alone.      *)
LEMMA QuietSent ==
    ASSUME RingOK, ReportInv,
           UNCHANGED <<mode, output, iR, reqIdx, txPending, manager, printed, excuses>>
    PROVE  RingOK' /\ ReportInv'
<1>1. /\ UNCHANGED <<mode, ring, iW, iR, unread, reqIdx, txPending, printed>>
      /\ UNCHANGED <<readBuf, got, garbled, lost, disturbed>>
  BY DEF output, manager, excuses
<1>2. RingOK' /\ Window' = Window
  BY <1>1 DEF RingOK, Window
<1>3. ReportInv'
  BY <1>1, <1>2 DEF ReportInv, RequestOK
<1> QED BY <1>2, <1>3

LEMMA ReceiveStep ==
    ASSUME SerialInv, ReceiveByte
    PROVE  SerialInv'
<1>1. Carried(line, polled, executed, missed, inBuf, busy, lastFlag, escaping, spoiled)
  BY DEF SerialInv, CommandInv
<1>2. RestOK /\ RingOK /\ ReportInv /\ (busy => mode = "input")
  BY DEF SerialInv, CommandInv
<1>3. PICK y : y = line[1]
  OBVIOUS
<1>4. line # <<>> /\ Head(line) = y /\ OnLine(line, polled) /\ line \in Seq(CommandByte)
  BY <1>1, <1>3 DEF ReceiveByte, Carried, OnLine
<1>5. PICK t : Taken(t, line, polled)
  BY <1>4, TakeByte
<1>6. line' = t
  BY <1>5 DEF ReceiveByte, Taken
<1>7. y.c \in 1 .. Len(Commands) /\ y.is \in {"flag", "data", "esc"}
  BY <1>3, <1>5, GenuineShape DEF Taken
<1>8. UNCHANGED <<iR, reqIdx, slot, room, polled, queued, printed, manager>>
  BY DEF ReceiveByte, manager
<1>9. \/ mode # "input" /\ DropsByte(y)
      \/ /\ mode = "input"
         /\ StartsFrame(y) \/ ContinuesFrame(y) \/ EndsFrame(y) \/ BetweenFrames(y)
         /\ lastFlag' = (y.is = "flag")
  BY <1>4 DEF ReceiveByte
<1>10. (y.is = "flag") \in BOOLEAN /\ (y.is = "esc") \in BOOLEAN
  OBVIOUS
<1>11. CASE mode # "input"
  <2>1. DropsByte(y) /\ ~busy
    BY <1>2, <1>9, <1>11
  <2>2. /\ UNCHANGED <<mode, output, filled, txPending, busy, lastFlag, escaping, inBuf, executed>>
        /\ UNCHANGED <<excuses, spoiled>> /\ missed' = missed \cup {y.c}
    BY <2>1 DEF DropsByte, input
  <2>3. RingOK' /\ ReportInv'
    BY <1>2, <1>8, <2>2, QuietSent
  <2>4. CommandInv'
    <3>1. PICK m : m = missed'
      OBVIOUS
    <3>2. missed \subseteq m /\ y.c \in m
      BY <2>2, <3>1
    <3>3. Carried(t, polled, executed, m, inBuf, busy, lastFlag, escaping, spoiled)
      BY <1>1, <1>3, <1>5, <2>1, <3>2, DropCarried
    <3> QED BY <1>6, <1>8, <2>1, <2>2, <3>1, <3>3 DEF CommandInv
  <2>5. RestOK'
    BY <1>2, <1>7, <1>8, <2>2 DEF RestOK, excuses, manager
  <2> QED BY <2>3, <2>4, <2>5 DEF SerialInv
<1>12. CASE mode = "input" /\ BetweenFrames(y)
  <2>1. /\ UNCHANGED <<mode, output, filled, txPending, busy, escaping, inBuf, executed>>
        /\ UNCHANGED <<excuses, missed, spoiled>> /\ lastFlag' = (y.is = "flag")
        /\ ~busy /\ (y.is = "flag" \/ ~lastFlag)
    BY <1>9, <1>12 DEF BetweenFrames
  <2>2. RingOK' /\ ReportInv'
    BY <1>2, <1>8, <2>1, QuietSent
  <2>3. CommandInv'
    <3>1. PICK f : f = (y.is = "flag")
      OBVIOUS
    <3>2. f <=> y.is = "flag"
      BY <3>1
    <3>3. Carried(t, polled, executed, missed, inBuf, busy, f, escaping, spoiled)
      BY <1>1, <1>3, <1>5, <2>1, <3>2, DropCarried
    <3> QED BY <1>6, <1>8, <2>1, <3>1, <3>3 DEF CommandInv
  <2>4. RestOK'
    BY <1>2, <1>8, <1>10, <2>1 DEF RestOK, excuses, manager
  <2> QED BY <2>2, <2>3, <2>4 DEF SerialInv
<1>13. CASE mode = "input" /\ StartsFrame(y)
  <2>1. /\ UNCHANGED <<mode, output, filled, txPending, executed, excuses, missed>>
        /\ lastFlag' = FALSE /\ busy' = TRUE
        /\ ~busy /\ y.is # "flag"
    BY <1>9, <1>13 DEF StartsFrame
  <2>2. /\ spoiled' = IF escaping THEN spoiled \cup {y.c} ELSE spoiled
        /\ escaping' = (y.is = "esc") /\ inBuf' = Written(<<>>, y)
    BY <1>13 DEF StartsFrame, EscapingAfter
  <2>3. RingOK' /\ ReportInv'
    BY <1>2, <1>8, <2>1, QuietSent
  <2>4. PICK s, u : s = spoiled' /\ u = inBuf'
    OBVIOUS
  <2>5. /\ s = IF escaping THEN spoiled \cup {y.c} ELSE spoiled
        /\ u = WrittenTo(<<>>, y, escaping)
    BY <2>2, <2>4 DEF Written, WrittenTo
  <2>6. Carried(t, polled, executed, missed, u, TRUE, FALSE, y.is = "esc", s)
    <3>1. /\ ~busy /\ line[1].is # "flag"
          /\ s = IF escaping THEN spoiled \cup {line[1].c} ELSE spoiled
          /\ u = WrittenTo(<<>>, line[1], escaping)
      BY <1>3, <2>1, <2>5
    <3>2. Carried(t, polled, executed, missed, u, TRUE, FALSE, line[1].is = "esc", s)
      BY <1>1, <1>5, <3>1, StartCarried
    <3> QED BY <1>3, <3>2
  <2>7. CommandInv'
    BY <1>6, <1>8, <1>13, <2>1, <2>2, <2>4, <2>6 DEF CommandInv
  <2>8. Len(inBuf') < InSize
    <3>1. \A z : Len(Append(<<>>, z)) = 1
      OBVIOUS
    <3>2. Len(<<>>) = 0
      OBVIOUS
    <3> QED BY <2>4, <2>5, <3>1, <3>2, Sizes DEF WrittenTo
  <2>9. RestOK'
    BY <1>2, <1>7, <1>8, <1>10, <2>1, <2>2, <2>8 DEF RestOK, excuses, manager
  <2> QED BY <2>3, <2>7, <2>9 DEF SerialInv
<1>14. CASE mode = "input" /\ ContinuesFrame(y)
  <2>1. /\ busy /\ y.is # "flag" /\ escaping' = (y.is = "esc") /\ UNCHANGED <<executed, spoiled>>
        /\ lastFlag' = FALSE
    BY <1>9, <1>14 DEF ContinuesFrame, EscapingAfter
  <2>2. CASE /\ Len(Written(inBuf, y)) + 1 =< InSize
             /\ inBuf' = Written(inBuf, y)
             /\ UNCHANGED <<mode, output, filled, txPending, busy, excuses, missed>>
    <3>1. RingOK' /\ ReportInv'
      BY <1>2, <1>8, <2>2, QuietSent
    <3>2. PICK u : u = inBuf'
      OBVIOUS
    <3>3. u = WrittenTo(inBuf, y, escaping)
      BY <2>2, <3>2 DEF Written, WrittenTo
    <3>4. Carried(t, polled, executed, missed, u, busy, FALSE, y.is = "esc", spoiled)
      <4>1. /\ busy /\ line[1].is # "flag"
            /\ u = WrittenTo(inBuf, line[1], escaping)
        BY <1>3, <2>1, <3>3
      <4>2. Carried(t, polled, executed, missed, u, busy, FALSE, line[1].is = "esc", spoiled)
        BY <1>1, <1>5, <4>1, ContinueCarried
      <4> QED BY <1>3, <4>2
    <3>5. CommandInv'
      BY <1>2, <1>6, <1>8, <2>1, <2>2, <3>2, <3>4 DEF CommandInv
    <3>6. Len(inBuf') < InSize
      <4>1. u \in Seq(CommandByte)
        BY <3>4 DEF Carried, InBuffer
      <4>2. Len(u) \in Nat /\ Len(u) + 1 =< InSize
        BY <2>2, <3>2, <4>1
      <4> QED BY <3>2, <4>2, Sizes
    <3>7. RestOK'
      BY <1>2, <1>8, <1>10, <2>1, <2>2, <3>6 DEF RestOK, excuses, manager
    <3> QED BY <3>1, <3>5, <3>7 DEF SerialInv
  <2>3. CASE /\ Len(Written(inBuf, y)) + 1 > InSize
             /\ HaltInput(FrameOf(Status)) /\ missed' = missed \cup {y.c}
    <3>1. y.is # "esc"
      <4>1. inBuf \in Seq(CommandByte) /\ Len(inBuf) < InSize
        BY <1>1, <1>2 DEF Carried, InBuffer, RestOK
      <4>2. ~(Len(inBuf) + 1 > InSize)
        BY <4>1, Sizes
      <4> QED BY <2>3, <4>2 DEF Written
    <3>2. reqIdx \in Nat
      BY <1>2, FrameShape, Sizes DEF RestOK, ReqFrame, Request
    <3>3. RingOK' /\ ReportInv'
      BY <1>2, <1>8, <1>14, <2>3, <3>2, HaltInputSent
    <3>4. /\ busy' = FALSE /\ inBuf' = <<>> /\ mode' = "off" /\ txPending' = FALSE
          /\ filled' \in BOOLEAN /\ Excuse(FrameOf(Status), HalfRead)
      BY <2>3 DEF HaltInput, Stopped
    <3>5. PICK m : m = missed' /\ m = missed \cup {y.c}
      BY <2>3
    <3>6. Carried(t, polled, executed, m, <<>>, FALSE, FALSE, FALSE, spoiled)
      <4>1. busy /\ line[1].is # "flag" /\ missed \subseteq m /\ line[1].c \in m
        BY <1>3, <2>1, <3>5
      <4> QED BY <1>1, <1>5, <4>1, OverflowCarried
    <3>7. CommandInv'
      BY <1>6, <1>8, <2>1, <3>1, <3>4, <3>5, <3>6 DEF CommandInv
    <3>8. RestOK'
      <4>1. lost' \subseteq 1 .. Reports /\ disturbed' \in BOOLEAN
        BY <1>2, <3>4, LostNumbers
      <4>2. Len(inBuf') < InSize
        BY <3>4, Sizes
      <4> QED BY <1>2, <1>7, <1>8, <1>10, <2>1, <2>3, <3>4, <4>1, <4>2 DEF RestOK, manager
    <3> QED BY <3>3, <3>7, <3>8 DEF SerialInv
  <2> QED BY <1>14, <2>2, <2>3 DEF ContinuesFrame
<1>15. CASE mode = "input" /\ EndsFrame(y)
  <2>1. /\ busy /\ y.is = "flag" /\ UNCHANGED <<escaping, missed, spoiled>> /\ lastFlag' = TRUE
    BY <1>9, <1>15 DEF EndsFrame
  <2>2. PICK p \in {<<>>, FrameOf(Status)} : HaltInput(p)
    BY <1>15 DEF EndsFrame
  <2>3. reqIdx \in Nat
    BY <1>2, FrameShape, Sizes DEF RestOK, ReqFrame, Request
  <2>4. RingOK' /\ ReportInv'
    BY <1>2, <1>8, <1>15, <2>2, <2>3, HaltInputSent
  <2>5. /\ busy' = FALSE /\ inBuf' = <<>> /\ mode' = "off" /\ txPending' = FALSE
        /\ filled' \in BOOLEAN /\ Excuse(p, HalfRead)
    BY <2>2 DEF HaltInput, Stopped
  <2>6. PICK e : e = executed'
    OBVIOUS
  <2>7. \/ (\E c \in 1 .. Len(Commands) : inBuf = Payload(c)) /\ e = Append(executed, inBuf[1].c)
        \/ ~(\E c \in 1 .. Len(Commands) : inBuf = Payload(c)) /\ e = executed
    BY <1>15, <2>6 DEF EndsFrame, CrcGood
  <2>8. Carried(t, polled, e, missed, <<>>, FALSE, TRUE, escaping, spoiled)
    <3>1. busy /\ line[1].is = "flag" /\ Len(inBuf) < InSize
      BY <1>2, <1>3, <2>1 DEF RestOK
    <3>2. CASE (\E c \in 1 .. Len(Commands) : inBuf = Payload(c)) /\ e = Append(executed, inBuf[1].c)
      BY <1>1, <1>5, <3>1, <3>2, EndCarried, ZenonT(30)
    <3>3. CASE ~(\E c \in 1 .. Len(Commands) : inBuf = Payload(c)) /\ e = executed
      BY <1>1, <1>5, <3>1, <3>3, EndCarried, ZenonT(30)
    <3> QED BY <2>7, <3>2, <3>3
  <2>9. CommandInv'
    BY <1>6, <1>8, <2>1, <2>5, <2>6, <2>8 DEF CommandInv
  <2>10. RestOK'
    <3>1. lost' \subseteq 1 .. Reports /\ disturbed' \in BOOLEAN
      BY <1>2, <2>5, LostNumbers
    <3>2. Len(inBuf') < InSize
      BY <2>5, Sizes
    <3> QED BY <1>2, <1>8, <2>1, <2>5, <3>1, <3>2 DEF RestOK, manager
  <2> QED BY <2>4, <2>9, <2>10 DEF SerialInv
<1> QED BY <1>9, <1>11, <1>12, <1>13, <1>14, <1>15

-----------------------------------------------------------------------------
\* openserial.c and SerialThread.java keep SerialInv: the ring, the reports on
\* their way out and the commands on their way in are as their parts above say,
\* whatever the order of prints, slots, interrupts and bytes.
THEOREM SerialInvariant == SerialSpec => []SerialInv
<1>1. SerialInit => SerialInv
  BY InvInit
<1>2. SerialInv /\ [SerialNext]_serialVars => SerialInv'
  <2> SUFFICES ASSUME SerialInv, [SerialNext]_serialVars
               PROVE  SerialInv'
    OBVIOUS
  <2>1. CASE SerialNext
    BY <2>1, SendToBufferStep, PrintReportStep, NewSlotStep, SendRequestStep, SendOutputStep,
       ReceiveStep DEF SerialNext
  <2>2. CASE UNCHANGED serialVars
    <3>1. /\ UNCHANGED <<mode, ring, iW, iR, unread, filled, reqIdx, busy, lastFlag, escaping>>
          /\ UNCHANGED <<inBuf, txPending, slot, room, readBuf, polled, got, garbled, queued>>
          /\ UNCHANGED <<line, printed, executed, lost, disturbed, missed, spoiled>>
      BY <2>2 DEF serialVars, output, input, manager, excuses
    <3>2. RingOK' /\ ReportInv'
      BY <3>1, QuietSent DEF SerialInv, output, manager, excuses
    <3>3. CommandInv'
      BY <3>1 DEF SerialInv, CommandInv
    <3>4. RestOK'
      BY <3>1 DEF SerialInv, RestOK
    <3> QED BY <3>2, <3>3, <3>4 DEF SerialInv
  <2> QED BY <2>1, <2>2
<1> QED BY <1>1, <1>2, PTL DEF SerialSpec

\* The indices of openserial.c stay in their buffers, apart by the bytes the
\* reader will still see, and no command overflows the input buffer.
THEOREM SerialType == SerialSpec => []SerialTypeOK
BY SerialInvariant, InvIsTyped, PTL

\* Each report is received once and in its turn, or is still in the ring or half
\* read, or was hit by an overrun or a request frame; each command is executed
\* once and in its turn, or is on its way, or is counted as missed, or the escape
\* of an older command has spoiled it, which it can do to one command only.
THEOREM SerialFramesAccounted == SerialSpec => []FramesAccounted
BY SerialInvariant, InvAccounts, PTL
=============================================================================
