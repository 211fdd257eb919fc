------------------------------ MODULE TimeWheel ------------------------------
(***************************************************************************)
(* SimpleTimeWheel (timewheel): tasks sit in the slots of a wheel that moves *)
(* one slot per tick; a task is ready when the wheel has passed its slot a   *)
(* computed number of times. Tasks are added, changed and deleted without a  *)
(* lock while the wheel turns, and ready tasks are handed over by a bounded  *)
(* channel.                                                                  *)
(***************************************************************************)
EXTENDS GoValues, Integers, Sequences

CONSTANTS
    WheelTasks,       \* task IDs
    SlotNum,          \* slotNum
    Intervals,        \* intervals, in ticks
    Times,            \* values of times; -1 is endless
    ReadyChan,        \* readyChan
    MaxTicks          \* bound

ASSUME SlotNumAssumption == SlotNum \in Nat \ {0}
ASSUME IntervalsAssumption == Intervals \subseteq Nat

VARIABLES
    curSlot,
    trigger,          \* [WheelTasks -> the trigger in record and slot, or None]
    adding,           \* [WheelTasks -> the call of AddTask or UpdateTask, or None]
    readyCh,          \* lists of ready tasks
    wheelUp,          \* "runs", "stopped", or "panic"
    ticks,
    born,             \* [WheelTasks -> tick of its last AddTask or UpdateTask]
    fires,            \* [WheelTasks -> ticks at which it was ready since then]
    raced             \* [WheelTasks -> the wheel moved while it was put in]

wheelVars == <<curSlot, trigger, adding, readyCh, wheelUp, ticks, born, fires, raced>>

\* Faulty variant: a task of the current slot counts as ahead.
AheadOrHere(index, cur) == IF index >= cur THEN 0 ELSE 1

\* A slot ahead of the current one is passed once more in this turn.
FirstCount(index, cur) == IF index > cur THEN 0 ELSE 1

\* AddTask and UpdateTask: where a task goes, from the slot they have read.
Placed(interval, times, cur) ==
    LET index == (interval + cur + 1) % SlotNum
    IN  [index |-> index, circle |-> (interval + cur + 1) \div SlotNum,
         count |-> FirstCount(index, cur), times |-> times, interval |-> interval]

\* AddTask refuses an interval shorter than a turn and an ID that is recorded.
AddTask(t, interval, times) ==
    /\ wheelUp = "runs" /\ adding[t] = None /\ trigger[t] = None /\ interval >= SlotNum
    /\ adding' = [adding EXCEPT ![t] = Placed(interval, times, curSlot)]
    /\ born' = [born EXCEPT ![t] = ticks] /\ raced' = [raced EXCEPT ![t] = FALSE]
    /\ UNCHANGED <<curSlot, trigger, readyCh, wheelUp, ticks, fires>>

\* UpdateTask takes a known task out of its slot first; it does not look at the interval.
UpdateTask(t, interval, times) ==
    /\ wheelUp = "runs" /\ adding[t] = None /\ trigger[t] # None
    /\ trigger' = [trigger EXCEPT ![t] = None]
    /\ adding' = [adding EXCEPT ![t] = Placed(interval, times, curSlot)]
    /\ born' = [born EXCEPT ![t] = ticks] /\ raced' = [raced EXCEPT ![t] = FALSE]
    /\ UNCHANGED <<curSlot, readyCh, wheelUp, ticks, fires>>

\* The trigger is stored in its slot.
StoreTrigger(t) ==
    /\ adding[t] # None
    /\ trigger' = [trigger EXCEPT ![t] = adding[t]] /\ adding' = [adding EXCEPT ![t] = None]
    /\ fires' = [fires EXCEPT ![t] = <<>>]
    /\ UNCHANGED <<curSlot, readyCh, wheelUp, ticks, born, raced>>

\* DelTask
DelTask(t) ==
    /\ wheelUp = "runs" /\ adding[t] = None /\ trigger[t] # None
    /\ trigger' = [trigger EXCEPT ![t] = None]
    /\ UNCHANGED <<curSlot, adding, readyCh, wheelUp, ticks, born, fires, raced>>

\* checkAndFireTrigger, one trigger of the slot: it is ready after its number of turns; one
\* whose times have come down to 0 is removed.
Fires(g) == g.count = g.circle
Passed(g) ==
    IF ~Fires(g) THEN [g EXCEPT !.count = @ + 1]
    ELSE IF g.times = 0 THEN None
    ELSE [g EXCEPT !.count = 1, !.times = IF @ > 0 THEN @ - 1 ELSE @]

\* run: a tick moves the wheel and hands the ready tasks over, or drops them when the channel
\* is full.
RunTick ==
    /\ wheelUp = "runs" /\ ticks < MaxTicks
    /\ ticks' = ticks + 1 /\ curSlot' = (curSlot + 1) % SlotNum
    /\ LET here == {t \in WheelTasks : trigger[t] # None /\ trigger[t].index = curSlot'}
           ready == {t \in here : Fires(trigger[t])}
       IN  /\ trigger' = [t \in WheelTasks |-> IF t \in here THEN Passed(trigger[t]) ELSE trigger[t]]
           /\ readyCh' = IF ready # {} /\ Len(readyCh) < ReadyChan THEN Append(readyCh, ready) ELSE readyCh
           /\ fires' = [t \in WheelTasks |-> IF t \in ready THEN Append(fires[t], ticks + 1) ELSE fires[t]]
    /\ raced' = [t \in WheelTasks |-> raced[t] \/ adding[t] # None]
    /\ UNCHANGED <<adding, wheelUp, born>>

\* Wait
WaitReady ==
    /\ readyCh # <<>> /\ readyCh' = Tail(readyCh)
    /\ UNCHANGED <<curSlot, trigger, adding, wheelUp, ticks, born, fires, raced>>

\* Stop closes both channels; a wheel that is just handing tasks over then sends into a closed
\* one.
StopWheel ==
    /\ wheelUp = "runs"
    /\ \/ wheelUp' = "stopped"
       \/ /\ \E t \in WheelTasks : trigger[t] # None /\ trigger[t].index = (curSlot + 1) % SlotNum /\ Fires(trigger[t])
          /\ wheelUp' = "panic"
    /\ UNCHANGED <<curSlot, trigger, adding, readyCh, ticks, born, fires, raced>>

------------------------------------------------------------------------------
WheelInit ==
    /\ curSlot = 0 /\ ticks = 0 /\ wheelUp = "runs" /\ readyCh = <<>>
    /\ trigger = [t \in WheelTasks |-> None] /\ adding = [t \in WheelTasks |-> None]
    /\ born = [t \in WheelTasks |-> 0] /\ fires = [t \in WheelTasks |-> <<>>]
    /\ raced = [t \in WheelTasks |-> FALSE]

WheelNext ==
    \/ RunTick \/ WaitReady \/ StopWheel
    \/ \E t \in WheelTasks : \/ StoreTrigger(t) \/ DelTask(t)
                             \/ \E i \in Intervals, n \in Times : AddTask(t, i, n) \/ UpdateTask(t, i, n)

WheelSpec == WheelInit /\ [][WheelNext]_wheelVars

------------------------------------------------------------------------------
\* Properties

\* A task that was put in between two ticks is ready for the first time on the tick after its
\* interval, wherever the wheel stood, and not before nor later.
FirstFireOnTime ==
    \A t \in WheelTasks : (trigger[t] # None /\ ~raced[t]) =>
        IF fires[t] = <<>> THEN ticks - born[t] <= trigger[t].interval
        ELSE fires[t][1] - born[t] = trigger[t].interval + 1

\* A task is ready every interval.
PeriodIsInterval ==
    \A t \in WheelTasks : (trigger[t] # None /\ Len(fires[t]) > 1) => fires[t][2] - fires[t][1] = trigger[t].interval

\* A task with a number of times is ready that many times.
TimesAreKept == \A t \in WheelTasks : trigger[t] = None => Len(fires[t]) \in Times \cup {0} \/ -1 \in Times

\* Stop does not bring the process down.
StopIsSafe == wheelUp # "panic"
=============================================================================
