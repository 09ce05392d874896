---------------------------- MODULE StateManager ----------------------------
(***************************************************************************)
(* The StateManager class: a bounded queue of status messages filled by    *)
(* the other tasks, the task that drains it and shows the status on the    *)
(* front LEDs, and the mutex accept_user_drive_coordinates by which that   *)
(* task shuts the user out during a party and after an update.             *)
(*                                                                         *)
(* Every call of a public setter is an action of the environment.  The     *)
(* loop task appears as the one client of the public mutex.                *)
(***************************************************************************)
EXTENDS Naturals, Sequences, FreeRTOS

CONSTANTS
  QUEUE_LENGTH,  \* capacity of the status queue
  Reports,       \* Reports[s]: the values callers report for subject s
  MaxCalls       \* bound: nothing is reported once the mutex was taken
                 \* MaxCalls times over (the device restarts soon after)

(* enum WifiState, enum OtaState, enum BluetoothState *)
WIFI_STATE_DISCONNECTED == 0
WIFI_STATE_CONNECTING   == 1
WIFI_STATE_GETTING_IP   == 2
WIFI_STATE_CONNECTED    == 3
WIFI_STATE_ERROR        == 4

OTA_STATE_OFF      == 0
OTA_STATE_IDLE     == 1
OTA_STATE_ERROR    == 2
OTA_STATE_UPDATING == 3
OTA_STATE_SUCCESS  == 4

BLUETOOTH_STATE_CONNECTED    == 0
BLUETOOTH_STATE_DISCONNECTED == 1

(* The members of StateComponent that some caller sends.  FRONT_BUMP,      *)
(* BIN_REMOVED, LIFTED, WIIMOTE_CONNECTED and BATTERY have no sender.      *)
Subjects == {"WIFI", "OTA", "OTA_PROGRESS", "BLUETOOTH"}

ASSUME ConstantsAssumption ==
    /\ QUEUE_LENGTH \in Nat \ {0}
    /\ MaxCalls \in Nat
    /\ DOMAIN Reports = Subjects
    /\ \A s \in Subjects : Reports[s] \subseteq Nat

(* struct StateMessage *)
StateMessage == [subject : Subjects \cup {"PARTY"}, value : Nat]

VARIABLES
  queue,     \* xStatusQueueHandle
  states,    \* _states: wifi, ota, ota_progress, bluetooth
  partying,  \* _states.partying
  mutex,     \* accept_user_drive_coordinates
  leds,      \* what each segment of _front_leds shows
  statePc,   \* where the state task is
  drivePc,   \* whether the loop task is between its take and its give
  reported,  \* auxiliary: the last value handed to each setter
  lost       \* auxiliary: subjects whose last report found the queue full

vars == <<queue, states, partying, mutex, leds, statePc, drivePc,
          reported, lost>>

-----------------------------------------------------------------------------
(* The LED segments.  resetSegments drops all of them.                     *)
Off == [ALL |-> "off", WIFI |-> "off", BTN |-> "off"]

wifiLed(wifi) ==
    CASE wifi = WIFI_STATE_CONNECTED -> "green"
      [] wifi = WIFI_STATE_ERROR     -> "red"
      [] OTHER                       -> "yellow"

(* Faulty variant: yellow only while OTA is idle. *)
buttonLedIdleOnly(st, shown) ==
    CASE /\ st["BLUETOOTH"] = BLUETOOTH_STATE_CONNECTED
         /\ st["OTA"] \in {OTA_STATE_IDLE, OTA_STATE_SUCCESS} -> "green"
      [] /\ st["OTA"] = OTA_STATE_ERROR -> "red"
      [] /\ st["OTA"] = OTA_STATE_IDLE
         /\ st["BLUETOOTH"] = BLUETOOTH_STATE_DISCONNECTED -> "yellow"
      [] OTHER -> shown

(* The button segment keeps what it showed when no branch applies: with a  *)
(* controller connected while OTA is off or an update is running.          *)
buttonLed(st, shown) ==
    CASE /\ st["BLUETOOTH"] = BLUETOOTH_STATE_CONNECTED
         /\ st["OTA"] \in {OTA_STATE_IDLE, OTA_STATE_SUCCESS} -> "green"
      [] /\ st["OTA"] = OTA_STATE_ERROR -> "red"
      [] /\ st["OTA"] # OTA_STATE_ERROR
         /\ st["BLUETOOTH"] = BLUETOOTH_STATE_DISCONNECTED -> "yellow"
      [] OTHER -> shown

statusLeds(st, shown) ==
    [shown EXCEPT !.WIFI = wifiLed(st["WIFI"]),
                  !.BTN  = buttonLed(st, shown.BTN)]

(* struct States *)
InitStates ==
    [s \in Subjects |->
       CASE s = "WIFI"         -> WIFI_STATE_DISCONNECTED
         [] s = "OTA"          -> OTA_STATE_OFF
         [] s = "OTA_PROGRESS" -> 0
         [] s = "BLUETOOTH"    -> BLUETOOTH_STATE_DISCONNECTED]

(* The constructor and begin(), which shows the initial status before the  *)
(* mutex exists and then starts the task.                                  *)
Init ==
    /\ queue = <<>>
    /\ states = InitStates
    /\ partying = FALSE
    /\ leds = statusLeds(InitStates, Off)
    /\ mutex = FreeMutex
    /\ statePc = "receive"
    /\ drivePc = "wait"
    /\ reported = InitStates
    /\ lost = {}

-----------------------------------------------------------------------------
(* Faulty variants: a queue without a capacity; xQueueSendToFront. *)
postUnbounded(subject, value) ==
    queue' = Append(queue, [subject |-> subject, value |-> value])
postToFront(subject, value) ==
    queue' = IF QueueHasRoom(queue, QUEUE_LENGTH)
             THEN <<[subject |-> subject, value |-> value]>> \o queue
             ELSE queue

(* The setters: fill in a message and send it without waiting. *)
post(subject, value) ==
    queue' = QueueSend(queue, QUEUE_LENGTH, [subject |-> subject, value |-> value])

(* setWifiState, setOtaState, setOtaProgress, setBluetoothState *)
report(s, v) ==
    /\ post(s, v)
    /\ reported' = [reported EXCEPT ![s] = v]
    /\ lost' = IF QueueHasRoom(queue, QUEUE_LENGTH) THEN lost \ {s} ELSE lost \cup {s}
    /\ UNCHANGED <<states, partying, mutex, leds, statePc, drivePc>>

startParty ==
    /\ post("PARTY", 1)
    /\ UNCHANGED <<states, partying, mutex, leds, statePc, drivePc, reported, lost>>

(* Faulty variant: the BLUETOOTH case is missing from the switch. *)
storedWithoutBluetooth(m) ==
    IF m.subject \in {"PARTY", "BLUETOOTH"} THEN states
    ELSE [states EXCEPT ![m.subject] = m.value]

(* The switch of _state_task. *)
stored(m) ==
    IF m.subject = "PARTY" THEN states ELSE [states EXCEPT ![m.subject] = m.value]

(* _state_task waits for a message and stores it. *)
receive ==
    /\ statePc = "receive"
    /\ queue # <<>>
    /\ states' = stored(Head(queue))
    /\ partying' = (partying \/ Head(queue).subject = "PARTY")
    /\ queue' = Tail(queue)
    /\ statePc' = "lock_for_ota"
    /\ UNCHANGED <<mutex, leds, drivePc, reported, lost>>

(* Faulty variant: a take that does not wait and whose result is ignored.  *)
takeDriveNoWait ==
    mutex' = IF CanTakeRecursive(mutex, "state") THEN TakeRecursive(mutex, "state")
             ELSE mutex

(* xSemaphoreTakeRecursive with portMAX_DELAY, twice in _determineMode.    *)
takeDrive ==
    /\ CanTakeRecursive(mutex, "state")
    /\ mutex' = TakeRecursive(mutex, "state")

(* Faulty variant: the test the log message in that branch suggests.       *)
otaLocksWhileUpdating == states["OTA"] = OTA_STATE_UPDATING

otaLocks == states["OTA"] > OTA_STATE_UPDATING

(* _determineMode, up to the first wait: after an update the mutex is      *)
(* taken and never given back.                                             *)
lockForOta ==
    /\ statePc = "lock_for_ota"
    /\ IF otaLocks THEN takeDrive ELSE UNCHANGED mutex
    /\ statePc' = "party_or_status"
    /\ UNCHANGED <<queue, states, partying, leds, drivePc, reported, lost>>

(* _determineMode, partying: take the mutex, light everything and sleep.   *)
partyBegin ==
    /\ statePc = "party_or_status"
    /\ partying
    /\ takeDrive
    /\ leds' = [Off EXCEPT !.ALL = "rainbow"]
    /\ statePc' = "party"
    /\ UNCHANGED <<queue, states, partying, drivePc, reported, lost>>

(* Faulty variants of partyEnd: partying is not cleared; a plain give of   *)
(* the recursively taken mutex.                                            *)
partyEndStillPartying ==
    /\ statePc = "party"
    /\ mutex' = GiveRecursive(mutex, "state")
    /\ leds' = Off
    /\ statePc' = "lock_for_ota"
    /\ UNCHANGED <<queue, states, partying, drivePc, reported, lost>>
partyEndPlainGive ==
    /\ statePc = "party"
    /\ partying' = FALSE
    /\ mutex' = Give(mutex)
    /\ leds' = Off
    /\ statePc' = "lock_for_ota"
    /\ UNCHANGED <<queue, states, drivePc, reported, lost>>

(* _determineMode after the party's delay; it calls itself in last place.  *)
partyEnd ==
    /\ statePc = "party"
    /\ partying' = FALSE
    /\ mutex' = GiveRecursive(mutex, "state")
    /\ leds' = Off
    /\ statePc' = "lock_for_ota"
    /\ UNCHANGED <<queue, states, drivePc, reported, lost>>

(* _determineMode, not partying: show the status, and back to the queue.   *)
showStatus ==
    /\ statePc = "party_or_status"
    /\ ~partying
    /\ leds' = statusLeds(states, leds)
    /\ statePc' = "receive"
    /\ UNCHANGED <<queue, states, partying, mutex, drivePc, reported, lost>>

(* The loop task takes the mutex, drives, and gives it back. *)
driveTake ==
    /\ drivePc = "wait"
    /\ CanTake(mutex)
    /\ mutex' = Take(mutex, "loop")
    /\ drivePc' = "drive"
    /\ UNCHANGED <<queue, states, partying, leds, statePc, reported, lost>>

(* Faulty variant: a pass that returns early, before its give. *)
driveReturn ==
    /\ drivePc = "drive"
    /\ drivePc' = "wait"
    /\ UNCHANGED <<queue, states, partying, mutex, leds, statePc, reported, lost>>

driveGive ==
    /\ drivePc = "drive"
    /\ mutex' = Give(mutex)
    /\ drivePc' = "wait"
    /\ UNCHANGED <<queue, states, partying, leds, statePc, reported, lost>>

(* Setters may be called at any time; the bound only ends the enumeration. *)
Environment ==
    /\ mutex.calls < MaxCalls
    /\ \/ \E s \in Subjects : \E v \in Reports[s] : report(s, v)
       \/ startParty

StateTask == receive \/ lockForOta \/ partyBegin \/ partyEnd \/ showStatus

Next == Environment \/ StateTask \/ driveTake \/ driveGive

(* The state task never stops running.  It waits for the mutex at a higher *)
(* priority than the loop task and the loop sleeps 50 ms after each give,  *)
(* so a take that is enabled again and again happens; the state task in    *)
(* turn sleeps 100 ms per message, which lets the loop task in.            *)
Fairness ==
    /\ SF_vars(StateTask)
    /\ SF_vars(driveTake)
    /\ WF_vars(driveGive)

Spec == Init /\ [][Next]_vars
FairSpec == Spec /\ Fairness

-----------------------------------------------------------------------------
(* The types of the fields of struct States, the queue never longer than   *)
(* its capacity, and the mutex held by one of its two clients.             *)
TypeOK ==
    /\ queue \in Seq(StateMessage)
    /\ Len(queue) <= QUEUE_LENGTH
    /\ states \in [Subjects -> Nat]
    /\ partying \in BOOLEAN
    /\ mutex \in [holder : {NoTask, "state", "loop"}, calls : Nat]
    /\ leds \in [ALL : {"off", "rainbow"}, WIFI : {"off", "green", "red", "yellow"},
                 BTN : {"off", "green", "red", "yellow"}]
    /\ statePc \in {"receive", "lock_for_ota", "party_or_status", "party"}
    /\ drivePc \in {"wait", "drive"}
    /\ reported \in [Subjects -> Nat]
    /\ lost \subseteq Subjects

(* The state task holds the mutex beyond what the running party took.      *)
OtaLocked ==
    /\ mutex.holder = "state"
    /\ mutex.calls > IF statePc = "party" THEN 1 ELSE 0

(* The user does not drive during a party, nor after a finished update:    *)
(* the state task's recursive takes exclude the loop's plain take although *)
(* the two use different calls on one mutex.                               *)
DriveShutOut == (statePc = "party" \/ OtaLocked) => drivePc = "wait"

(* Once a successful update has been seen, by the time _determineMode is   *)
(* past its first test the mutex is held on the update's account, also if  *)
(* the message came in the middle of parties.                              *)
SuccessLocks ==
    states["OTA"] = OTA_STATE_SUCCESS /\ statePc # "lock_for_ota" => OtaLocked

(* "We never give this back": no step, the end of a party included, gives  *)
(* up the mutex taken for an update (state_manager.cpp:193).               *)
OtaLockPermanent == [][OtaLocked => OtaLocked']_vars

(* The gate that the mutex and the state task make. *)
Mode == IF OtaLocked THEN "locked" ELSE IF statePc = "party" THEN "party" ELSE "open"
Gate == INSTANCE DriveGate WITH mode <- Mode, driving <- drivePc = "drive"

(* To the loop, takes and gives of both kinds, messages and nested parties *)
(* come to no more than a gate that closes for parties and, once and for   *)
(* all, for an update, and never while somebody is on his way through.     *)
ImplementsGate == Gate!Spec

(* Whenever the state task waits for news, the LEDs show neither a party   *)
(* nor a controller that is not there, and the Wi-Fi LED is up to date,    *)
(* whatever resets and half updates happened before.                       *)
LedsTruthful ==
    statePc = "receive" =>
        /\ leds.ALL = "off"
        /\ leds.WIFI = wifiLed(states["WIFI"])
        /\ leds.BTN = "green" => states["BLUETOOTH"] # BLUETOOTH_STATE_DISCONNECTED

(* Reports of one subject are never reordered or dropped on the way, only  *)
(* at a full queue: with none of them waiting, the state is the one last   *)
(* reported, unless that report found the queue full.                      *)
Waiting(s) == \E i \in DOMAIN queue : queue[i].subject = s
LastReportWins ==
    \A s \in Subjects \ lost : Waiting(s) \/ states[s] = reported[s]

(* Parties, those after an update included, and passes of the loop end,    *)
(* and the user gets to drive again and again unless an update locks the   *)
(* robot: parties alone never starve the loop task.                        *)
GateLives == Gate!Liveness /\ []<>~partying

(* A report that was not lost and not superseded is eventually acted on.   *)
ReportsArrive ==
    \A s \in Subjects : \A v \in Reports[s] :
        []<>(states[s] = v \/ reported[s] # v \/ s \in lost)

(* What the comment at state_manager.cpp:193 says of a failed update as    *)
(* well as of a successful one: driving stays locked until a reset.        *)
FinishedUpdateLocks ==
    states["OTA"] \in {OTA_STATE_ERROR, OTA_STATE_SUCCESS} /\ statePc = "receive"
        => OtaLocked
=============================================================================
