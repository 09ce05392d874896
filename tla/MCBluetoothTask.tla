-------------------------- MODULE MCBluetoothTask --------------------------
(***************************************************************************)
(* Instances of the parts of the Bluetooth task that share no state:       *)
(* the transport with the run loop, the ring buffer, the timers and the    *)
(* outgoing reports of a device.  A behaviour is one of a single part,     *)
(* while the variables of the others rest in an initial state.             *)
(***************************************************************************)
EXTENDS HciTransport, RingBuffer, RunLoopTimers, OutgoingReports

CONSTANTS x0, x1          \* bytes
VARIABLE part

allVars == <<part, vars, ringVars, timerVars, reportVars>>

TaskInit ==
    /\ part \in {"transport", "ring", "timers", "reports"}
    /\ Init /\ RingInit /\ TimersInit /\ ReportsInit
    /\ part # "ring" => storage = [i \in 0 .. Size - 1 |-> x0]
    /\ part # "timers" => clock = 0

TaskNext ==
    /\ UNCHANGED part
    /\ \/ part = "transport" /\ Next /\ UNCHANGED <<ringVars, timerVars, reportVars>>
       \/ part = "ring" /\ RingNext /\ UNCHANGED <<vars, timerVars, reportVars>>
       \/ part = "timers" /\ TimersNext /\ UNCHANGED <<vars, ringVars, reportVars>>
       \/ part = "reports" /\ ReportsNext /\ UNCHANGED <<vars, ringVars, timerVars>>

(* The fairness of each part, in that part. *)
TaskFairness ==
    /\ WF_vars(part = "transport" /\ ~garbled /\ controller)
    /\ WF_vars(part = "transport" /\ ~garbled /\ runLoop)
    /\ \A t \in Tasks : WF_vars(part = "transport" /\ ~garbled /\ calling(t))
    /\ WF_timerVars(part = "timers" /\ timersTurn)
    /\ WF_timerVars(part = "timers" /\ tick)
    /\ WF_reportVars(part = "reports" /\ l2cap_notify_channel_can_send)
    /\ WF_reportVars(part = "reports" /\ controllerReady)
    /\ WF_reportVars(part = "reports" /\ packetSent)

TaskSpec == TaskInit /\ [][TaskNext]_allVars /\ TaskFairness

-----------------------------------------------------------------------------
(* The state of each part: no overrun of a ring, of its indices or of the  *)
(* list of timers, and a full ring is told from an empty one.              *)
TypesOK == TypeOK /\ RingTypeOK /\ TimersTypeOK /\ ReportsTypeOK

(* Packets that the storage was sized for are neither dropped nor cut. *)
PacketsIntact == NothingDropped /\ PacketsWhole

(* What the task is given to do gets done: packets are delivered, the      *)
(* callback of another task runs, timers are called, reports are sent.     *)
WorkIsDone == Delivered /\ CallbackRuns /\ TimersFire /\ QueuedLeaves

-----------------------------------------------------------------------------
(* Blocks of all lengths up to the whole buffer and one more. *)
MCBlocks == UNION {[1 .. n -> Byte] : n \in 0 .. Size + 1}
=============================================================================
