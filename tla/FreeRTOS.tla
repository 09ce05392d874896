------------------------------ MODULE FreeRTOS ------------------------------
(***************************************************************************)
(* The FreeRTOS objects the firmware shares between its tasks, as values:  *)
(* a bounded queue sent to without waiting, and a mutex.  The kernel is    *)
(* not part of the repository; the operators state what its callers in     *)
(* src/src rely on.                                                        *)
(***************************************************************************)
EXTENDS Naturals, Sequences

(* xQueueSend with a timeout of 0: when the queue is full the item is      *)
(* dropped (errQUEUE_FULL, which no caller in the firmware looks at).      *)
QueueHasRoom(q, length) == Len(q) < length
QueueSend(q, length, item) ==
    IF QueueHasRoom(q, length) THEN Append(q, item) ELSE q

(***************************************************************************)
(* A mutex is its holder and the recursive call count.  The count is only  *)
(* used by the recursive calls; xSemaphoreCreateMutex makes an object on   *)
(* which both families of calls work, and the firmware mixes them.         *)
(***************************************************************************)
NoTask == "none"
FreeMutex == [holder |-> NoTask, calls |-> 0]

(* xSemaphoreTake and xSemaphoreGive. *)
CanTake(m) == m.holder = NoTask
Take(m, task) == [m EXCEPT !.holder = task]
Give(m) == [m EXCEPT !.holder = NoTask]

(* xSemaphoreTakeRecursive: the holder takes again without waiting. *)
CanTakeRecursive(m, task) == m.holder \in {NoTask, task}
TakeRecursive(m, task) == [holder |-> task, calls |-> m.calls + 1]

(* xSemaphoreGiveRecursive: fails, without effect, for a task that is not  *)
(* the holder; the mutex is free again when every take has been given back.*)
GiveRecursive(m, task) ==
    IF m.holder # task THEN m
    ELSE [holder |-> IF m.calls = 1 THEN NoTask ELSE task,
          calls  |-> m.calls - 1]
=============================================================================
