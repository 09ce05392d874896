------------------------------ MODULE Roombii ------------------------------
(***************************************************************************)
(* The firmware as a whole: one pass of loop() on one CPU, cut where the   *)
(* tasks of the other can get in between, together with the state task of  *)
(* StateManager and the motor task of MotorControl.                        *)
(*                                                                         *)
(* In a pass the loop takes the drive mutex, lets Bluepad32 bring its      *)
(* controllers up to date, ticks the push button, sends one drive command  *)
(* per connected controller and gives the mutex back.  A click is handled  *)
(* where it is recognised: in the middle of a pass, or in the interrupt of *)
(* the button's pin, which ticks the button as well.                       *)
(*                                                                         *)
(* How controllers come, go and are polled is the subject of Gamepads, and *)
(* what is reported about Wi-Fi that of WifiManager; here both may do      *)
(* whatever they like.                                                     *)
(***************************************************************************)
EXTENDS Integers, Sequences

CONSTANTS
  Slots,         \* number of slots of myGamepads (BP32_MAX_GAMEPADS)
  Sticks,        \* <<axisX, axisY, b>>: the readings of a controller
  QUEUE_LENGTH, Reports, MaxCalls,   \* of StateManager
  Garbage                            \* of MotorControl

None == <<>>                         \* the reading of an empty slot

VARIABLES
  loopPc,        \* where loop() is: "take", "update", "tick", "twirl", "drive", "give"
  slot,          \* the slot that update() or the drive commands have come to
  pads,          \* the reading of the controller in each slot, or None
  queue, states, partying, mutex, leds, statePc, reported, lost,
  shield, pending, value, motors, pc, move, last

loopVars == <<loopPc, slot, pads>>
stateVars == <<queue, states, partying, mutex, leds, statePc, reported, lost>>
motorVars == <<shield, pending, value, motors, pc, move, last>>
vars == <<loopVars, stateVars, motorVars>>

T == INSTANCE Throttle

(* What loop() passes to motor_control for a reading. *)
coordinates(r) == <<T!x_pos(r[1]), T!y_pos(r[2]), r[3]>>

M == INSTANCE MotorControl WITH Inputs <- {coordinates(r) : r \in Sticks}

(* The state manager sees of the loop whether it is inside the mutex. *)
G == INSTANCE StateManager WITH drivePc <- IF loopPc = "take" THEN "wait" ELSE "drive"

(* Axes are reported from -512 to 511 and bytes are signed; among what is  *)
(* reported is what the callbacks report, and the bound on reports lets    *)
(* the first ones through.                                                 *)
ASSUME RoombiiConstants ==
    /\ Slots \in Nat \ {0}
    /\ Sticks \subseteq (-512 .. 511) \X (-512 .. 511) \X BOOLEAN
    /\ Garbage \subseteq -128 .. 127
    /\ G!ConstantsAssumption
    /\ MaxCalls # 0
    /\ {G!BLUETOOTH_STATE_CONNECTED, G!BLUETOOTH_STATE_DISCONNECTED} \subseteq Reports["BLUETOOTH"]

Init ==
    /\ loopPc = "take" /\ slot = 1
    /\ pads = [i \in 1 .. Slots |-> None]
    /\ G!Init
    /\ M!Init

Connected == {i \in 1 .. Slots : pads[i] # None}

-----------------------------------------------------------------------------
(* delay(50), then xSemaphoreTake with portMAX_DELAY. *)
take ==
    /\ loopPc = "take" /\ loopPc' = "update"
    /\ slot' = 1
    /\ UNCHANGED pads
    /\ G!driveTake
    /\ UNCHANGED motorVars

(* From one slot to the next, and after the last to what loop() does then. *)
nextSlot(pcAfter) ==
    IF slot < Slots THEN slot' = slot + 1 /\ UNCHANGED loopPc
    ELSE slot' = 1 /\ loopPc' = pcAfter

(* BP32.update(), slot by slot: a new reading, or a controller that came   *)
(* or went, whose callback reports whether any is connected now.           *)
update ==
    /\ loopPc = "update"
    /\ nextSlot("tick")
    /\ \E r \in Sticks \cup {None} :
         /\ pads' = [pads EXCEPT ![slot] = r]
         /\ IF (r = None) # (pads[slot] = None)
            THEN G!report("BLUETOOTH", IF \E i \in 1 .. Slots : pads'[i] # None
                                       THEN G!BLUETOOTH_STATE_CONNECTED
                                       ELSE G!BLUETOOTH_STATE_DISCONNECTED)
            ELSE UNCHANGED stateVars
    /\ UNCHANGED motorVars

(* top_button.tick() recognises a click or does not: handleClick starts a  *)
(* party ...                                                               *)
tick ==
    /\ loopPc = "tick"
    /\ \/ loopPc' = "twirl" /\ G!startParty
       \/ loopPc' = "drive" /\ UNCHANGED stateVars
    /\ UNCHANGED <<slot, pads, motorVars>>

(* ... and then sends the twirl. *)
twirl ==
    /\ loopPc = "twirl" /\ loopPc' = "drive"
    /\ M!twirl
    /\ UNCHANGED <<slot, pads, stateVars>>

(* Faulty variant: the mutex is given back before the drive commands. *)
driveAfterGive ==
    /\ loopPc = "drive"
    /\ slot = 1 => mutex' = [mutex EXCEPT !.holder = "none"]
    /\ slot # 1 => UNCHANGED mutex
    /\ nextSlot("give")
    /\ IF pads[slot] = None THEN UNCHANGED motorVars
       ELSE LET c == coordinates(pads[slot]) IN M!motor_control(c[1], c[2], c[3])
    /\ UNCHANGED <<pads, queue, states, partying, leds, statePc, reported, lost>>

(* Faulty variant: a command is only sent for a stick that is pushed. *)
driveUnlessReleased ==
    /\ loopPc = "drive"
    /\ nextSlot("give")
    /\ IF pads[slot] = None \/ coordinates(pads[slot]) = <<0, 0, FALSE>> THEN UNCHANGED motorVars
       ELSE LET c == coordinates(pads[slot]) IN M!motor_control(c[1], c[2], c[3])
    /\ UNCHANGED <<pads, stateVars>>

(* Faulty variant: an empty slot sends a stop. *)
driveEverySlot ==
    /\ loopPc = "drive"
    /\ nextSlot("give")
    /\ LET c == IF pads[slot] = None THEN <<0, 0, FALSE>> ELSE coordinates(pads[slot])
       IN  M!motor_control(c[1], c[2], c[3])
    /\ UNCHANGED <<pads, stateVars>>

(* The drive command of one slot. *)
drive ==
    /\ loopPc = "drive"
    /\ nextSlot("give")
    /\ IF pads[slot] = None THEN UNCHANGED motorVars
       ELSE LET c == coordinates(pads[slot]) IN M!motor_control(c[1], c[2], c[3])
    /\ UNCHANGED <<pads, stateVars>>

give ==
    /\ loopPc = "give" /\ loopPc' = "take"
    /\ UNCHANGED <<slot, pads>>
    /\ G!driveGive
    /\ UNCHANGED motorVars

(* checkTicks: the interrupt recognises the click, whatever loop() is      *)
(* doing.  The calls handleClick makes are not meant for interrupts: they  *)
(* work, as here, or abort, which ends the behaviour.                      *)
checkTicks ==
    /\ mutex.calls < MaxCalls
    /\ UNCHANGED loopVars
    /\ G!startParty
    /\ M!twirl

(* The Wi-Fi task and the event task report. *)
wifiReports ==
    /\ mutex.calls < MaxCalls
    /\ UNCHANGED loopVars
    /\ \E s \in {"WIFI", "OTA", "OTA_PROGRESS"} : \E v \in Reports[s] : G!report(s, v)
    /\ UNCHANGED motorVars

StateTask == UNCHANGED loopVars /\ G!StateTask /\ UNCHANGED motorVars
MotorTask == M!MotorTask /\ UNCHANGED <<loopVars, stateVars>>

InPass == update \/ tick \/ twirl \/ drive \/ give

Next == take \/ InPass \/ checkTicks \/ wifiReports \/ StateTask \/ MotorTask

(* As in StateManager and MotorControl; a pass that has begun goes on. *)
Fairness ==
    /\ SF_vars(StateTask)
    /\ SF_vars(take)
    /\ WF_vars(InPass)
    /\ WF_vars(MotorTask)

Spec == Init /\ [][Next]_vars
FairSpec == Spec /\ Fairness

-----------------------------------------------------------------------------
(* Where loop() is, and a reading or None in each slot; the rest has the   *)
(* types of the two components.                                            *)
TypeOK ==
    /\ loopPc \in {"take", "update", "tick", "twirl", "drive", "give"}
    /\ slot \in 1 .. Slots
    /\ pads \in [1 .. Slots -> Sticks \cup {None}]
    /\ G!TypeOK
    /\ M!TypeOK

(* The two components, with this loop and this button around them, behave  *)
(* as specified: what is shown of StateManager and MotorControl holds of   *)
(* the firmware.  It is G!Spec /\ M!Spec, with the stuttering first, which  *)
(* is most steps for either component.                                     *)
ComponentsHold ==
    /\ G!Init /\ M!Init
    /\ [][UNCHANGED G!vars \/ G!Next]_vars
    /\ [][UNCHANGED M!vars \/ M!Next]_vars

(* While the drive mutex is the state task's, for a party or an update,    *)
(* the only command that reaches the motor task is the twirl of a click:   *)
(* no pass of the loop that began before goes on to drive.                 *)
LockedOutMeansNoDriving ==
    [][(statePc = "party" \/ G!OtaLocked) /\ last' # last => last'.actions = M!ACTION_PARTY]_vars

(* A twirl that waits for the motor task is danced, or else gives way to   *)
(* the drive command of a controller that is connected: neither parties    *)
(* nor empty slots nor another click take the dance away.                  *)
DanceOnlyGivesWay ==
    [][/\ pending /\ value.actions = M!ACTION_PARTY
       /\ ~(pending' /\ value'.actions = M!ACTION_PARTY)
       => pc' = "dance" \/ (loopPc = "drive" /\ pads[slot] # None)]_vars

(* What the motors may do on the command of each reading. *)
Obedience ==
    [r \in Sticks |->
        LET c == coordinates(r)
        IN  {M!driveMotors(M!driveNotification(t, c[3])) : t \in M!convert_xy_to_throttles(c[1], c[2])}]
Obeys(r) == motors \in Obedience[r]

(* The robot follows the stick: if all controllers that are connected stay *)
(* in one position and nobody clicks any more, the motors end up doing     *)
(* what that position says and stay there, through parties, dances and     *)
(* overwritten commands, unless an update has locked driving.              *)
FollowsStick ==
    \A r \in Sticks :
        /\ <>[](Connected # {} /\ \A i \in Connected : pads[i] = r)
        /\ <>[](last.actions # M!ACTION_PARTY)
        => <>[](shield => Obeys(r)) \/ <>[]G!OtaLocked

-----------------------------------------------------------------------------
(* What a comment says, and the code does not do. *)

(* "Short press; dance!" (arduino_main.cpp:78): a click that is handled in *)
(* a pass of the loop makes the robot dance.                               *)
ClickDances == (loopPc = "twirl" /\ shield) ~> (pc = "dance" \/ pc = "begin")
=============================================================================
