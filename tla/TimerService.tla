---------------------------- MODULE TimerService ----------------------------
(***************************************************************************)
(* What BTstack's run loop promises about timers: each is armed for a      *)
(* number of milliseconds, fires at most once and not before they are      *)
(* over, and timers fire in the order in which they are due.               *)
(***************************************************************************)
EXTENDS Integers

CONSTANTS
  Timers,
  Timeouts,        \* milliseconds that timers are armed for
  MaxLate          \* bound: milliseconds that a timer is overdue

VARIABLES
  left,            \* milliseconds until each armed timer is due
  fired            \* the timer whose handler was called last, if nothing has happened since

nobody == "nobody"

armed == DOMAIN left

Init == left = <<>> /\ fired = nobody

(* The current millisecond may be over at once: one more is counted. *)
Arm(t, ms) ==
    /\ t \notin armed
    /\ left' = [u \in armed \cup {t} |-> IF u = t THEN ms + 1 ELSE left[u]]
    /\ fired' = nobody

Disarm(t) ==
    /\ t \in armed
    /\ left' = [u \in armed \ {t} |-> left[u]]
    /\ fired' = nobody

Tick ==
    /\ \A t \in armed : left[t] > 0 - MaxLate
    /\ left' = [t \in armed |-> left[t] - 1]
    /\ fired' = nobody

Fire(t) ==
    /\ t \in armed /\ left[t] <= 0
    /\ \A u \in armed : left[t] <= left[u]
    /\ left' = [u \in armed \ {t} |-> left[u]]
    /\ fired' = t

Next ==
    \/ \E t \in Timers : (\E ms \in Timeouts : Arm(t, ms)) \/ Disarm(t) \/ Fire(t)
    \/ Tick

Spec == Init /\ [][Next]_<<left, fired>>
=============================================================================
