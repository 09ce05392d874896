--------------------------- MODULE RoombiiProofs ---------------------------
(***************************************************************************)
(* Proofs about Roombii for every number of controllers, all their sticks, *)
(* every queue length and all garbage in the bytes of a notification.      *)
(*                                                                         *)
(* The proofs about the state manager and about the motor task hold in the *)
(* firmware, because it refines both: GP and MP are those proofs with the  *)
(* firmware's state for the components' own.                               *)
(***************************************************************************)
EXTENDS Roombii, TLAPS

GP == INSTANCE StateManagerProofs WITH drivePc <- IF loopPc = "take" THEN "wait" ELSE "drive"

(* MotionProofs has a stick of its own beside the motor task.  Here it is  *)
(* left alone: what loop() makes of the sticks are the Inputs.             *)
MP == INSTANCE MotionProofs WITH
        Inputs <- {coordinates(r) : r \in Sticks},
        Axis <- {0}, Step <- 0, Parts <- {}, part <- "commands",
        axisX <- 0, axisY <- 0, b <- FALSE,
        throttles <- [left |-> 0, right |-> 0], driven <- [left |-> 0, right |-> 0]

(* Where loop() is. *)
LoopTypeOK ==
    /\ loopPc \in {"take", "update", "tick", "twirl", "drive", "give"}
    /\ slot \in 1 .. Slots
    /\ pads \in [1 .. Slots -> Sticks \cup {None}]

-----------------------------------------------------------------------------
(* What loop() makes of a reading is what motor_control expects. *)
LEMMA CoordinatesType ==
    \A r \in Sticks : coordinates(r) \in (-512 .. 512) \X (-512 .. 512) \X BOOLEAN
<1>. TAKE r \in Sticks
<1>. DEFINE ax == r[1]
            ay == r[2]
            btn == r[3]
<1>0. btn \in BOOLEAN
    BY RoombiiConstants
<1>1. ax \in -512 .. 511 /\ ay \in -512 .. 511
    BY RoombiiConstants
<1>2. coordinates(r) = <<T!deadZone(ax), -T!deadZone(ay), btn>>
    BY DEF coordinates, T!x_pos, T!y_pos
<1>. HIDE DEF ax, ay, btn
<1>3. \A a \in -512 .. 511 : T!deadZone(a) \in -512 .. 511
    BY DEF T!deadZone
<1>. DEFINE u == T!deadZone(ax)
            v == T!deadZone(ay)
            range == -512 .. 511
<1>4. u \in range /\ v \in range
  <2>1. ax \in range /\ ay \in range /\ \A a \in range : T!deadZone(a) \in range
      BY <1>1, <1>3
  <2>. HIDE DEF range
  <2>. QED
      BY <2>1, Zenon
<1>5. coordinates(r) = <<u, -v, btn>>
    BY <1>2
<1>. HIDE DEF u, v
<1>. DEFINE w == -v
<1>6. u \in -512 .. 512 /\ w \in -512 .. 512
    BY <1>4
<1>7. coordinates(r) = <<u, w, btn>>
    BY <1>5
<1>. HIDE DEF w
<1>8. <<u, w, btn>> \in (-512 .. 512) \X (-512 .. 512) \X BOOLEAN
  <2>. DEFINE S == -512 .. 512
  <2>1. u \in S /\ w \in S
      BY <1>6
  <2>. HIDE DEF S
  <2>2. <<u, w, btn>> \in S \X S \X BOOLEAN
      BY <1>0, <2>1
  <2>. QED
      BY <2>2 DEF S
<1>. QED
    BY <1>7, <1>8

(* The constants of the firmware suit its parts. *)
LEMMA ComponentConstants == GP!ConstantsAssumption /\ MP!InputsAssumption /\ MP!AxisAssumption
<1>1. GP!ConstantsAssumption
    BY RoombiiConstants, Zenon
    DEF G!ConstantsAssumption, GP!ConstantsAssumption, G!Subjects, GP!Subjects
<1>2. MP!InputsAssumption
    BY RoombiiConstants, CoordinatesType DEF MP!InputsAssumption, MP!Int8
<1>3. MP!AxisAssumption
    BY DEF MP!AxisAssumption
<1>. QED
    BY <1>1, <1>2, <1>3

(* The arithmetic of driving is the same in all parts.  One wheel:         *)
LEMMA SameWheel ==
    ASSUME NEW x, NEW y, NEW k
    PROVE  M!WheelThrottles(x, y, k) = MP!WheelThrottles(x, y, k)
    BY DEF M!WheelThrottles, MP!WheelThrottles, M!SquaredThrottle, MP!SquaredThrottle,
        M!deflection, MP!deflection, M!Abs, MP!Abs, M!Sign, MP!Sign,
        M!TURN_DAMPING_FACTOR, MP!TURN_DAMPING_FACTOR

(* Both wheels. *)
LEMMA SameThrottles ==
    ASSUME NEW x, NEW y
    PROVE  M!convert_xy_to_throttles(x, y) = MP!convert_xy_to_throttles(x, y)
    BY SameWheel, Zenon
    DEF M!convert_xy_to_throttles, MP!convert_xy_to_throttles, M!TURN_DAMPING_FACTOR,
        MP!TURN_DAMPING_FACTOR

(* The state manager of the firmware is the one of its proofs. *)
LEMMA SameStateManager ==
    /\ G!Init => GP!Init
    /\ G!Next => GP!Next
    /\ UNCHANGED G!vars => UNCHANGED GP!vars
<1>1. G!Init => GP!Init
    BY Zenon
    DEF G!Init, GP!Init, G!FreeMutex, GP!FreeMutex, G!NoTask, GP!NoTask, G!InitStates,
        GP!InitStates, G!Off, GP!Off, G!statusLeds, GP!statusLeds, G!wifiLed,
        GP!wifiLed, G!buttonLed, GP!buttonLed, G!Subjects, GP!Subjects,
        G!WIFI_STATE_DISCONNECTED, GP!WIFI_STATE_DISCONNECTED, G!WIFI_STATE_CONNECTED,
        GP!WIFI_STATE_CONNECTED, G!WIFI_STATE_ERROR, GP!WIFI_STATE_ERROR,
        G!OTA_STATE_OFF, GP!OTA_STATE_OFF, G!OTA_STATE_IDLE, GP!OTA_STATE_IDLE,
        G!OTA_STATE_SUCCESS, GP!OTA_STATE_SUCCESS, G!OTA_STATE_ERROR,
        GP!OTA_STATE_ERROR, G!BLUETOOTH_STATE_CONNECTED, GP!BLUETOOTH_STATE_CONNECTED,
        G!BLUETOOTH_STATE_DISCONNECTED, GP!BLUETOOTH_STATE_DISCONNECTED
<1>2. G!Environment => GP!Environment
    BY Zenon
    DEF G!Environment, GP!Environment, G!Subjects, GP!Subjects, G!report, GP!report,
        G!startParty, GP!startParty, G!post, GP!post, G!QueueSend, GP!QueueSend,
        G!QueueHasRoom, GP!QueueHasRoom
<1>3. G!StateTask => GP!StateTask
  <2>1. G!receive => GP!receive
      BY Zenon DEF G!receive, GP!receive, G!stored, GP!stored
  <2>2. G!lockForOta => GP!lockForOta
      BY Zenon
      DEF G!lockForOta, GP!lockForOta, G!otaLocks, GP!otaLocks, G!OTA_STATE_UPDATING,
          GP!OTA_STATE_UPDATING, G!takeDrive, GP!takeDrive, G!CanTakeRecursive,
          GP!CanTakeRecursive, G!TakeRecursive, GP!TakeRecursive, G!NoTask, GP!NoTask
  <2>3. G!partyBegin => GP!partyBegin
      BY Zenon
      DEF G!partyBegin, GP!partyBegin, G!takeDrive, GP!takeDrive, G!CanTakeRecursive,
          GP!CanTakeRecursive, G!TakeRecursive, GP!TakeRecursive, G!NoTask, GP!NoTask,
          G!Off, GP!Off
  <2>4. G!partyEnd => GP!partyEnd
      BY Zenon
      DEF G!partyEnd, GP!partyEnd, G!GiveRecursive, GP!GiveRecursive, G!NoTask,
          GP!NoTask, G!Off, GP!Off
  <2>5. G!showStatus => GP!showStatus
      BY Zenon
      DEF G!showStatus, GP!showStatus, G!statusLeds, GP!statusLeds, G!wifiLed,
          GP!wifiLed, G!buttonLed, GP!buttonLed, G!WIFI_STATE_CONNECTED,
          GP!WIFI_STATE_CONNECTED, G!WIFI_STATE_ERROR, GP!WIFI_STATE_ERROR,
          G!OTA_STATE_IDLE, GP!OTA_STATE_IDLE, G!OTA_STATE_SUCCESS,
          GP!OTA_STATE_SUCCESS, G!OTA_STATE_ERROR, GP!OTA_STATE_ERROR,
          G!BLUETOOTH_STATE_CONNECTED, GP!BLUETOOTH_STATE_CONNECTED,
          G!BLUETOOTH_STATE_DISCONNECTED, GP!BLUETOOTH_STATE_DISCONNECTED
  <2>. QED
      BY <2>1, <2>2, <2>3, <2>4, <2>5, Zenon DEF G!StateTask, GP!StateTask
<1>4. (G!driveTake => GP!driveTake) /\ (G!driveGive => GP!driveGive)
    BY Zenon
    DEF G!driveTake, GP!driveTake, G!driveGive, GP!driveGive, G!CanTake, GP!CanTake,
        G!Take, GP!Take, G!Give, GP!Give, G!NoTask, GP!NoTask
<1>5. UNCHANGED G!vars => UNCHANGED GP!vars
    BY Zenon DEF G!vars, GP!vars
<1>. QED
    BY <1>1, <1>2, <1>3, <1>4, <1>5, Zenon DEF G!Next, GP!Next

(* So is the motor task. *)
LEMMA SameMotorTask ==
    /\ M!Init => MP!Init
    /\ M!Next => MP!Next
    /\ UNCHANGED M!vars => UNCHANGED MP!vars
<1>1. M!Init => MP!Init
    BY Zenon
    DEF M!Init, MP!Init, M!Stop, MP!Stop, M!ACTION_NONE, MP!ACTION_NONE, M!Released,
        MP!Released, M!RELEASE, MP!RELEASE
<1>2. ASSUME NEW n
      PROVE  M!notify(n) => MP!notify(n)
    BY Zenon DEF M!notify, MP!notify
<1>3. M!Callers => MP!Callers
  <2>1. ASSUME NEW x, NEW y, NEW btn, M!motor_control(x, y, btn)
        PROVE  MP!motor_control(x, y, btn)
    <3>1. PICK t \in M!convert_xy_to_throttles(x, y) : M!notify(M!driveNotification(t, btn))
        BY <2>1, Zenon DEF M!motor_control
    <3>2. M!driveNotification(t, btn) = MP!driveNotification(t, btn)
        BY Zenon
        DEF M!driveNotification, MP!driveNotification, M!ToInt8, MP!ToInt8, M!TruncDiv,
            MP!TruncDiv, M!Sign, MP!Sign, M!Abs, MP!Abs, M!ACTION_NONE, MP!ACTION_NONE
    <3>. QED
        BY <1>2, <3>1, <3>2, SameThrottles, Zenon DEF MP!motor_control
  <2>2. ASSUME NEW a, M!send_drive_action(a)
        PROVE  MP!send_drive_action(a)
      BY <1>2, <2>2, Zenon DEF M!send_drive_action, MP!send_drive_action
  <2>. QED
      BY <2>1, <2>2, Zenon
      DEF M!Callers, MP!Callers, M!twirl, MP!twirl, M!brake, MP!brake, M!ACTION_PARTY,
          MP!ACTION_PARTY, M!ACTION_BRAKE, MP!ACTION_BRAKE
<1>4. M!MotorTask => MP!MotorTask
  <2>1. (M!begin => MP!begin) /\ (M!rest => MP!rest)
      BY Zenon
      DEF M!begin, MP!begin, M!rest, MP!rest, M!Released, MP!Released, M!RELEASE,
          MP!RELEASE
  <2>2. M!receive => MP!receive
      BY
      DEF M!receive, MP!receive, M!carriedOut, MP!carriedOut, M!driveMotors,
          MP!driveMotors, M!set_motor, MP!set_motor, M!Sign, MP!Sign, M!Abs, MP!Abs,
          M!Stop, MP!Stop, M!Braked, MP!Braked, M!BRAKE, MP!BRAKE, M!ACTION_PARTY,
          MP!ACTION_PARTY, M!ACTION_BRAKE, MP!ACTION_BRAKE, M!ACTION_NONE,
          MP!ACTION_NONE
  <2>3. ASSUME M!dance
        PROVE  MP!dance
    <3>1. M!danceX(move + 1) = MP!danceX(move + 1)
        BY Zenon DEF M!danceX, MP!danceX
    <3>2. PICK t \in M!convert_xy_to_throttles(M!danceX(move + 1), 0) :
                 motors' = M!coordsMotors(t, FALSE)
        BY <2>3, Zenon DEF M!dance
    <3>3. M!coordsMotors(t, FALSE) = MP!coordsMotors(t, FALSE)
        BY Zenon
        DEF M!coordsMotors, MP!coordsMotors, M!set_motor, MP!set_motor, M!Sign, MP!Sign,
            M!Abs, MP!Abs
    <3>4. t \in MP!convert_xy_to_throttles(MP!danceX(move + 1), 0)
        BY <3>1, <3>2, SameThrottles, Zenon
    <3>. QED
        BY <2>3, <3>2, <3>3, <3>4, Zenon DEF M!dance, MP!dance, M!danceMoves, MP!danceMoves
  <2>. QED
      BY <2>1, <2>2, <2>3, Zenon DEF M!MotorTask, MP!MotorTask
<1>5. UNCHANGED M!vars => UNCHANGED MP!vars
    BY Zenon DEF M!vars, MP!vars
<1>. QED
    BY <1>1, <1>3, <1>4, <1>5, Zenon DEF M!Next, MP!Next

-----------------------------------------------------------------------------
(* The loop keeps its place, and a slot holds a reading or nothing. *)
LEMMA LoopType == Spec => []LoopTypeOK
<1>1. Init => LoopTypeOK
    BY RoombiiConstants DEF Init, LoopTypeOK, None
<1>2. LoopTypeOK /\ [Next]_vars => LoopTypeOK'
  <2>. SUFFICES ASSUME LoopTypeOK, [Next]_vars PROVE LoopTypeOK'
      OBVIOUS
  <2>1. CASE take
      BY <2>1, RoombiiConstants DEF take, LoopTypeOK
  <2>2. ASSUME NEW to \in {"tick", "give"}, nextSlot(to)
        PROVE  /\ loopPc' \in {"take", "update", "tick", "twirl", "drive", "give"}
               /\ slot' \in 1 .. Slots
      BY <2>2, RoombiiConstants DEF nextSlot, LoopTypeOK
  <2>3. CASE update
    <3>1. pads' \in [1 .. Slots -> Sticks \cup {None}]
        BY <2>3 DEF update, LoopTypeOK
    <3>. QED
        BY <2>2, <2>3, <3>1 DEF update, LoopTypeOK
  <2>4. CASE tick \/ twirl
      BY <2>4 DEF tick, twirl, LoopTypeOK
  <2>5. CASE drive
      BY <2>2, <2>5 DEF drive, LoopTypeOK
  <2>6. CASE give
      BY <2>6 DEF give, LoopTypeOK
  <2>7. CASE UNCHANGED loopVars
      BY <2>7 DEF loopVars, LoopTypeOK
  <2>. QED
      BY <2>1, <2>3, <2>4, <2>5, <2>6, <2>7
      DEF Next, InPass, checkTicks, wifiReports, StateTask, MotorTask, vars
<1>. QED
    BY <1>1, <1>2, PTL DEF Spec

(* Inside the mutex nothing is counted, so the bound on what is reported   *)
(* leaves the loop alone.                                                  *)
LEMMA InsideNothingCounts ==
    ASSUME GP!TypeOK, GP!LockInv, loopPc # "take"
    PROVE  mutex.calls < MaxCalls
<1>1. mutex.holder = "loop"
    BY DEF GP!LockInv
<1>2. mutex.calls = 0
    BY <1>1 DEF GP!LockInv, GP!TypeOK
<1>3. MaxCalls \in Nat /\ MaxCalls # 0
    BY RoombiiConstants DEF G!ConstantsAssumption
<1>. QED
    BY <1>2, <1>3

(* Every step of the firmware is one of the state manager and its clients, *)
(* or none of its business.                                                *)
LEMMA StateManagerStep ==
    LoopTypeOK /\ GP!TypeOK /\ GP!LockInv /\ [Next]_vars => UNCHANGED G!vars \/ G!Next
<1>. SUFFICES ASSUME LoopTypeOK, GP!TypeOK, GP!LockInv, [Next]_vars
              PROVE  UNCHANGED G!vars \/ G!Next
    OBVIOUS
<1>. DEFINE inside == IF loopPc = "take" THEN "wait" ELSE "drive"
<1>0. ASSUME UNCHANGED stateVars, inside' = inside
      PROVE  UNCHANGED G!vars
    BY <1>0 DEF stateVars, G!vars
<1>1. CASE take
    BY <1>1, Zenon DEF take, G!Next
<1>2. CASE update
  <2>1. inside' = inside
      BY <1>2 DEF update, nextSlot
  <2>2. ASSUME NEW v \in {G!BLUETOOTH_STATE_CONNECTED, G!BLUETOOTH_STATE_DISCONNECTED},
               G!report("BLUETOOTH", v)
        PROVE  G!Next
    <3>1. v \in Reports["BLUETOOTH"] /\ "BLUETOOTH" \in G!Subjects
        BY RoombiiConstants DEF G!Subjects
    <3>2. mutex.calls < MaxCalls
        BY <1>2, InsideNothingCounts DEF update
    <3>. QED
        BY <2>2, <3>1, <3>2, Zenon DEF G!Next, G!Environment
  <2>. QED
      BY <1>0, <1>2, <2>1, <2>2, Zenon DEF update
<1>3. CASE tick
  <2>1. mutex.calls < MaxCalls
      BY <1>3, InsideNothingCounts DEF tick
  <2>2. CASE G!startParty
      BY <2>1, <2>2, Zenon DEF G!Next, G!Environment
  <2>3. CASE UNCHANGED stateVars
      BY <1>0, <1>3, <2>3 DEF tick
  <2>. QED
      BY <1>3, <2>2, <2>3, Zenon DEF tick
<1>4. CASE twirl
    BY <1>0, <1>4 DEF twirl
<1>5. CASE drive
  <2>1. inside' = inside
      BY <1>5 DEF drive, nextSlot
  <2>. QED
      BY <1>0, <1>5, <2>1 DEF drive
<1>6. CASE give
    BY <1>6, Zenon DEF give, G!Next
<1>7. CASE checkTicks
    BY <1>7, Zenon DEF checkTicks, G!Next, G!Environment
<1>8. CASE wifiReports
  <2>1. PICK s \in {"WIFI", "OTA", "OTA_PROGRESS"} : \E v \in Reports[s] : G!report(s, v)
      BY <1>8, Zenon DEF wifiReports
  <2>2. s \in G!Subjects
      BY DEF G!Subjects
  <2>. QED
      BY <1>8, <2>1, <2>2, Zenon DEF wifiReports, G!Next, G!Environment
<1>9. CASE StateTask
    BY <1>9, Zenon DEF StateTask, G!Next
<1>10. CASE MotorTask
    BY <1>0, <1>10 DEF MotorTask, loopVars
<1>11. CASE UNCHANGED vars
    BY <1>0, <1>11 DEF vars, loopVars
<1>. QED
    BY <1>1, <1>2, <1>3, <1>4, <1>5, <1>6, <1>7, <1>8, <1>9, <1>10, <1>11, Zenon
    DEF Next, InPass

(* And every step is one of the motor task and its callers, or none of its *)
(* business.                                                               *)
LEMMA MotorStep == LoopTypeOK /\ [Next]_vars => UNCHANGED M!vars \/ M!Next
<1>. SUFFICES ASSUME LoopTypeOK, [Next]_vars PROVE UNCHANGED M!vars \/ M!Next
    OBVIOUS
<1>0. UNCHANGED motorVars => UNCHANGED M!vars
    BY DEF motorVars, M!vars
<1>1. CASE take \/ update \/ tick \/ give \/ wifiReports \/ StateTask
    BY <1>0, <1>1, Zenon DEF take, update, tick, give, wifiReports, StateTask
<1>2. CASE twirl \/ checkTicks
    BY <1>2, Zenon DEF twirl, checkTicks, M!Next, M!Callers
<1>3. CASE drive
  <2>1. CASE pads[slot] = None
      BY <1>0, <1>3, <2>1, Zenon DEF drive
  <2>2. CASE pads[slot] # None
    <3>1. pads[slot] \in Sticks
        BY <2>2 DEF LoopTypeOK
    <3>2. M!motor_control(coordinates(pads[slot])[1], coordinates(pads[slot])[2],
                          coordinates(pads[slot])[3])
        BY <1>3, <2>2, Zenon DEF drive
    <3>. QED
        BY <3>1, <3>2, Zenon DEF M!Next, M!Callers
  <2>. QED
      BY <2>1, <2>2
<1>4. CASE MotorTask
    BY <1>4, Zenon DEF MotorTask, M!Next
<1>5. CASE UNCHANGED vars
    BY <1>0, <1>5 DEF vars
<1>. QED
    BY <1>1, <1>2, <1>3, <1>4, <1>5, Zenon DEF Next, InPass

-----------------------------------------------------------------------------
(* What the step of a component takes for granted, in the firmware. *)
FirmwareInv == LoopTypeOK /\ GP!TypeOK /\ GP!LockInv

(* The types of the state manager and the relation between its mutex and   *)
(* its tasks hold with this loop for its client.                           *)
LEMMA FirmwareInvariant == Spec => []FirmwareInv
<1>1. Init => GP!TypeOK /\ GP!LockInv
  <2>1. GP!Init => GP!TypeOK
      BY ComponentConstants, GP!TypeInit
  <2>2. GP!Init => GP!LockInv
      BY DEF GP!Init, GP!LockInv, GP!FreeMutex, GP!NoTask
  <2>. QED
      BY <2>1, <2>2, SameStateManager DEF Init
<1>2. FirmwareInv /\ LoopTypeOK' /\ [Next]_vars => FirmwareInv'
  <2>. SUFFICES ASSUME FirmwareInv, LoopTypeOK', [Next]_vars PROVE FirmwareInv'
      OBVIOUS
  <2>1. [GP!Next]_GP!vars
      BY StateManagerStep, SameStateManager DEF FirmwareInv
  <2>2. GP!TypeOK' /\ GP!LockInv'
      BY <2>1, ComponentConstants, GP!TypeStep, GP!LockStep DEF FirmwareInv
  <2>. QED
      BY <2>2 DEF FirmwareInv
<1>3. LoopTypeOK /\ GP!TypeOK /\ GP!LockInv => FirmwareInv
    BY DEF FirmwareInv
<1>. QED
    BY <1>1, <1>2, <1>3, LoopType, PTL DEF Spec

(* The firmware refines its components: whatever the loop and the button   *)
(* do, the state manager and the motor task see only what their own        *)
(* specifications let callers do (arduino_main.cpp:60-135).                *)
THEOREM ComponentsAreIntact == Spec => ComponentsHold
<1>1. Init => G!Init /\ M!Init
    BY DEF Init
<1>2. FirmwareInv /\ [Next]_vars => [UNCHANGED G!vars \/ G!Next]_vars
    BY StateManagerStep DEF FirmwareInv
<1>3. FirmwareInv /\ [Next]_vars => [UNCHANGED M!vars \/ M!Next]_vars
    BY MotorStep DEF FirmwareInv
<1>. QED
    BY <1>1, <1>2, <1>3, FirmwareInvariant, PTL DEF Spec, ComponentsHold

(* The state manager's behaviour in the firmware is one of its own. *)
LEMMA StateManagerRuns == Spec => GP!Spec
<1>1. Init => GP!Init
    BY SameStateManager DEF Init
<1>2. FirmwareInv /\ [Next]_vars => [GP!Next]_GP!vars
    BY StateManagerStep, SameStateManager DEF FirmwareInv
<1>. QED
    BY <1>1, <1>2, FirmwareInvariant, PTL DEF Spec, GP!Spec

(* And so is the motor task's. *)
LEMMA MotorTaskRuns == Spec => MP!Spec
<1>1. Init => MP!Init
    BY SameMotorTask DEF Init
<1>2. FirmwareInv /\ [Next]_vars => [MP!Next]_MP!vars
    BY MotorStep, SameMotorTask DEF FirmwareInv
<1>. QED
    BY <1>1, <1>2, FirmwareInvariant, PTL DEF Spec, MP!Spec

(* What was proved of the parts on their own holds of the robot: after an  *)
(* update driving is locked, reports arrive in order, the LEDs tell the    *)
(* truth, the last command is the one that counts and a dance stays on its *)
(* spot.                                                                   *)
Promises ==
    /\ G!SuccessLocks /\ G!LastReportWins /\ G!LedsTruthful
    /\ M!LastCommandHolds /\ M!DanceInPlace

(* These hold of the firmware, by its refinement of both components        *)
(* (state_manager.cpp:60-215, motor_control.cpp:119-245).                  *)
THEOREM PromisesAreKept == Spec => []Promises
<1>1. GP!SuccessLocks => G!SuccessLocks
    BY Zenon
    DEF G!SuccessLocks, GP!SuccessLocks, G!OtaLocked, GP!OtaLocked, G!OTA_STATE_SUCCESS,
        GP!OTA_STATE_SUCCESS
<1>2. GP!LastReportWins => G!LastReportWins
    BY Zenon
    DEF G!LastReportWins, GP!LastReportWins, G!Subjects, GP!Subjects, G!Waiting,
        GP!Waiting
<1>3. GP!LedsTruthful => G!LedsTruthful
    BY Zenon
    DEF G!LedsTruthful, GP!LedsTruthful, G!wifiLed, GP!wifiLed, G!WIFI_STATE_CONNECTED,
        GP!WIFI_STATE_CONNECTED, G!WIFI_STATE_ERROR, GP!WIFI_STATE_ERROR,
        G!BLUETOOTH_STATE_DISCONNECTED, GP!BLUETOOTH_STATE_DISCONNECTED
<1>4. MP!LastCommandHolds => M!LastCommandHolds
  <2>1. M!Effect(last) = MP!Effect(last)
      BY
      DEF M!Effect, MP!Effect, M!driveMotors, MP!driveMotors, M!set_motor, MP!set_motor,
          M!Sign, MP!Sign, M!Abs, MP!Abs, M!Braked, MP!Braked, M!Released, MP!Released,
          M!RELEASE, MP!RELEASE, M!BRAKE, MP!BRAKE, M!ACTION_PARTY, MP!ACTION_PARTY,
          M!ACTION_BRAKE, MP!ACTION_BRAKE
  <2>. QED
      BY <2>1, Zenon DEF M!LastCommandHolds, MP!LastCommandHolds
<1>5. MP!DanceInv => M!DanceInPlace
    BY DEF MP!DanceInv, MP!DanceInPlace, M!DanceInPlace, M!RELEASE, MP!RELEASE
<1>10. /\ G!SuccessLocks /\ G!LastReportWins /\ G!LedsTruthful
       /\ M!LastCommandHolds /\ M!DanceInPlace
       => Promises
    BY DEF Promises
<1>6. Spec => []GP!SuccessLocks
    BY StateManagerRuns, ComponentConstants, GP!UpdateLocksDriving, PTL
<1>7. Spec => []GP!LastReportWins
    BY StateManagerRuns, ComponentConstants, GP!ReportsStayInOrder, PTL
<1>8. Spec => []GP!LedsTruthful
    BY StateManagerRuns, ComponentConstants, GP!LedsAreTruthful, PTL
<1>9. Spec => []MP!LastCommandHolds
    BY MotorTaskRuns, ComponentConstants, MP!LastCommandIsKept, PTL
<1>11. Spec => []MP!DanceInv
    BY MotorTaskRuns, ComponentConstants, MP!DancesInPlace, PTL
<1>. QED
    BY <1>1, <1>2, <1>3, <1>4, <1>5, <1>6, <1>7, <1>8, <1>9, <1>10, <1>11, PTL

-----------------------------------------------------------------------------
(* A twirl is announced by its action. *)
LEMMA TwirlIsParty ==
    ASSUME M!twirl
    PROVE  /\ pending' = TRUE
           /\ value'.actions = M!ACTION_PARTY
           /\ last'.actions = M!ACTION_PARTY
    BY DEF M!twirl, M!send_drive_action, M!notify

(* The motor task leaves the last command sent alone, and takes a waiting  *)
(* one only to carry it out.                                               *)
LEMMA MotorTaskObeys ==
    ASSUME M!MotorTask
    PROVE  /\ UNCHANGED last
           /\ \/ UNCHANGED <<pending, value>>
              \/ value.actions = M!ACTION_PARTY => pc' = "dance"
    BY DEF M!MotorTask, M!begin, M!receive, M!dance, M!rest

(* While the state task keeps the drive mutex for a party or an update no  *)
(* pass of the loop is under way, so that only the interrupt's click can   *)
(* still send a command (arduino_main.cpp:71-79, 112-135,                  *)
(* state_manager.cpp:186-215).                                             *)
THEOREM LockedOutIsLockedOut == Spec => LockedOutMeansNoDriving
<1>. DEFINE Step ==
         (statePc = "party" \/ G!OtaLocked) /\ last' # last => last'.actions = M!ACTION_PARTY
<1>1. FirmwareInv /\ [Next]_vars => [Step]_vars
  <2>. SUFFICES ASSUME FirmwareInv, Next, statePc = "party" \/ G!OtaLocked, last' # last
                PROVE  last'.actions = M!ACTION_PARTY
      OBVIOUS
  <2>1. loopPc = "take"
      BY DEF FirmwareInv, GP!LockInv, G!OtaLocked
  <2>2. CASE take \/ wifiReports \/ StateTask
      BY <2>2 DEF take, wifiReports, StateTask, motorVars
  <2>3. CASE InPass
      BY <2>1, <2>3 DEF InPass, update, tick, twirl, drive, give
  <2>4. CASE checkTicks
      BY <2>4, TwirlIsParty DEF checkTicks
  <2>5. CASE MotorTask
      BY <2>5, MotorTaskObeys DEF MotorTask
  <2>. QED
      BY <2>2, <2>3, <2>4, <2>5 DEF Next
<1>. QED
    BY <1>1, FirmwareInvariant, PTL DEF Spec, LockedOutMeansNoDriving

(* A dance that waits for the motor task is danced unless a connected      *)
(* controller's command takes its place: no other step touches it          *)
(* (arduino_main.cpp:71-79, 112-135, motor_control.cpp:119-171).           *)
THEOREM DancesGiveWayToDriversOnly == Spec => DanceOnlyGivesWay
<1>. DEFINE Step ==
         pending /\ value.actions = M!ACTION_PARTY /\ ~(pending' /\ value'.actions = M!ACTION_PARTY)
         => pc' = "dance" \/ (loopPc = "drive" /\ pads[slot] # None)
<1>1. [Next]_vars => [Step]_vars
  <2>. SUFFICES ASSUME Next, pending, value.actions = M!ACTION_PARTY,
                       ~(pending' /\ value'.actions = M!ACTION_PARTY)
                PROVE  pc' = "dance" \/ (loopPc = "drive" /\ pads[slot] # None)
      OBVIOUS
  <2>1. CASE take \/ update \/ tick \/ give \/ wifiReports \/ StateTask
      BY <2>1 DEF take, update, tick, give, wifiReports, StateTask, motorVars
  <2>2. CASE twirl \/ checkTicks
      BY <2>2, TwirlIsParty DEF twirl, checkTicks
  <2>3. CASE drive
      BY <2>3 DEF drive, motorVars
  <2>4. CASE MotorTask
      BY <2>4, MotorTaskObeys DEF MotorTask
  <2>. QED
      BY <2>1, <2>2, <2>3, <2>4 DEF Next, InPass
<1>. QED
    BY <1>1, PTL DEF Spec, DanceOnlyGivesWay
=============================================================================
