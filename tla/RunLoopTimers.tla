---------------------------- MODULE RunLoopTimers ----------------------------
(***************************************************************************)
(* The timers of BTstack's run loop (btstack_run_loop.c and the FreeRTOS   *)
(* port of it): a list in the order of the timeouts, which are times of a  *)
(* clock that wraps around.  The handlers of timers, packets and callbacks *)
(* arm and disarm timers; all of them run in the run loop's task, while    *)
(* the clock goes on.                                                      *)
(***************************************************************************)
EXTENDS Integers, Sequences, SequencesExt

CONSTANTS
  Timers,
  Timeouts,      \* milliseconds that timers are set for
  MaxLate,       \* bound: milliseconds that a timer is overdue
  Width          \* 2^32: the milliseconds after which hal_time_ms starts again

(* Times are compared by the sign of their difference: everything that is  *)
(* pending has to lie in half a turn of the clock.                         *)
ASSUME TimerConstants ==
    /\ Timeouts \subseteq Nat /\ MaxLate \in Nat /\ Width \in Nat /\ 2 * MaxLate < Width
    /\ \A ms \in Timeouts : 2 * (ms + 1 + MaxLate) < Width

VARIABLES
  timers,        \* btstack_run_loop_base_timers
  timeout,       \* the time that each timer is set for
  clock,         \* hal_time_ms()
  now,           \* the time that the run loop has read
  place,         \* "run", "timers" or "wait"
  sleep,         \* what is left of the time that the loop waits for, or never
  fired          \* observer: the timer that was called, if nothing has happened since

timerVars == <<timers, timeout, clock, now, place, sleep, fired>>
listVars == <<timers, timeout, fired>>
nobody == "nobody"
never == -1

(* The difference as a signed number of as many bits. *)
btstack_time_delta(a, b) ==
    LET d == (a - b) % Width IN IF 2 * d < Width THEN d ELSE d - Width

TimersInit ==
    /\ timers = <<>> /\ timeout = [t \in Timers |-> 0]
    /\ clock \in 0 .. Width - 1 /\ now = 0
    /\ place = "run" /\ sleep = never /\ fired = nobody

listed(t) == t \in Range(timers)

(* Faulty: the times are compared as numbers. *)
addByNumber(t, at) ==
    LET n == CHOOSE n \in 0 .. Len(timers) :
                /\ \A i \in 1 .. n : at >= timeout[timers[i]]
                /\ n < Len(timers) => at < timeout[timers[n + 1]]
    IN  InsertAt(timers, n + 1, t)

(* The list with timer t, set for time at, before the first timer that is  *)
(* due after it.                                                           *)
btstack_run_loop_base_add_timer(t, at) ==
    LET n == CHOOSE n \in 0 .. Len(timers) :
                /\ \A i \in 1 .. n : btstack_time_delta(at, timeout[timers[i]]) >= 0
                /\ n < Len(timers) => btstack_time_delta(at, timeout[timers[n + 1]]) < 0
    IN  InsertAt(timers, n + 1, t)

(* A handler sets a timer (..._freertos_set_timer) and adds it.  It may do *)
(* so for a timer that is not on the list, see the assertion in            *)
(* btstack_run_loop_base_add_timer.                                        *)
setAndAdd(t, ms) ==
    /\ place # "wait" /\ ~listed(t)
    /\ LET at == (clock + ms + 1) % Width
       IN  /\ timers' = btstack_run_loop_base_add_timer(t, at)
           /\ timeout' = [timeout EXCEPT ![t] = at]
    /\ fired' = nobody
    /\ UNCHANGED <<clock, now, place, sleep>>

btstack_run_loop_base_remove_timer(t) ==
    /\ place # "wait" /\ listed(t)
    /\ \E i \in DOMAIN timers : timers[i] = t /\ timers' = RemoveAt(timers, i)
    /\ fired' = nobody
    /\ UNCHANGED <<timeout, clock, now, place, sleep>>

-----------------------------------------------------------------------------
(* The run loop: after packets and callbacks it reads the time, ... *)
readTime ==
    /\ place = "run"
    /\ now' = clock /\ place' = "timers"
    /\ UNCHANGED <<listVars, clock, sleep>>

due == timers # <<>> /\ btstack_time_delta(timeout[timers[1]], now) <= 0

(* Faulty: the timer stays on the list. *)
processKeeping ==
    /\ place = "timers" /\ due
    /\ timers' = Append(timers, Head(timers)) /\ fired' = Head(timers)
    /\ UNCHANGED <<timeout, clock, now, place, sleep>>

(* ... takes timers off the list and calls them as long as they are due at *)
(* that time, ...                                                          *)
btstack_run_loop_base_process_timers ==
    /\ place = "timers" /\ due
    /\ timers' = Tail(timers) /\ fired' = Head(timers)
    /\ UNCHANGED <<timeout, clock, now, place, sleep>>

btstack_run_loop_base_get_time_until_timeout ==
    IF timers = <<>> THEN never
    ELSE LET delta == btstack_time_delta(timeout[timers[1]], now) IN IF delta < 0 THEN 0 ELSE delta

(* Faulty: the wait has no end. *)
waitForEver ==
    /\ place = "timers" /\ ~due
    /\ sleep' = never
    /\ place' = "wait" /\ now' = 0
    /\ UNCHANGED <<listVars, clock>>

(* ... and waits for the next one or for a notification. *)
xTaskNotifyWait ==
    /\ place = "timers" /\ ~due
    /\ sleep' = btstack_run_loop_base_get_time_until_timeout
    /\ place' = "wait"
    /\ now' = 0                      \* a local variable: not used again
    /\ UNCHANGED <<listVars, clock>>

timedOut ==
    /\ place = "wait" /\ sleep = 0
    /\ place' = "run" /\ sleep' = never
    /\ UNCHANGED <<listVars, clock, now>>

notification ==
    /\ place = "wait" /\ sleep # 0
    /\ place' = "run" /\ sleep' = never
    /\ UNCHANGED <<listVars, clock, now>>

(* A millisecond goes by, as long as no timer is too late. *)
tick ==
    /\ \A i \in DOMAIN timers : btstack_time_delta(timeout[timers[i]], clock) > 0 - MaxLate
    /\ place = "timers" => btstack_time_delta(clock, now) < MaxLate
    /\ clock' = (clock + 1) % Width
    /\ sleep' = IF sleep > 0 THEN sleep - 1 ELSE sleep
    /\ fired' = nobody
    /\ UNCHANGED <<timers, timeout, now, place>>

timersTurn ==
    readTime \/ btstack_run_loop_base_process_timers \/ xTaskNotifyWait \/ timedOut

TimersNext ==
    \/ \E t \in Timers : (\E ms \in Timeouts : setAndAdd(t, ms)) \/ btstack_run_loop_base_remove_timer(t)
    \/ timersTurn
    \/ notification
    \/ tick

TimersSpec == TimersInit /\ [][TimersNext]_timerVars

(* Time goes on and so does the run loop; nobody has to notify it. *)
TimersFairSpec == TimersSpec /\ WF_timerVars(timersTurn) /\ WF_timerVars(tick)

-----------------------------------------------------------------------------
(* A timer is on the list once at most. *)
TimersTypeOK ==
    /\ timers \in Seq(Timers) /\ IsInjective(timers)
    /\ timeout \in [Timers -> 0 .. Width - 1]
    /\ clock \in 0 .. Width - 1 /\ now \in 0 .. Width - 1
    /\ place \in {"run", "timers", "wait"}
    /\ sleep \in Nat \cup {never}
    /\ fired \in Timers \cup {nobody}

(* Across the wrap of the clock, and with handlers that arm and disarm     *)
(* timers while the list is being processed with a time read before: no    *)
(* timer fires early, twice, after it was removed or out of order.         *)
Service == INSTANCE TimerService
              WITH left <- [t \in Range(timers) |-> btstack_time_delta(timeout[t], clock)]
ImplementsTimers == Service!Spec

(* A timer that was added fires or is removed: the loop never waits past   *)
(* the timer that is due first, although it has read the time before the   *)
(* handlers ran.                                                           *)
TimersFire == \A t \in Timers : []<>~listed(t)
=============================================================================
