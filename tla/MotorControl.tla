---------------------------- MODULE MotorControl ----------------------------
(***************************************************************************)
(* The MotorControl class: callers in other tasks leave commands in the    *)
(* motor task's one notification value, each overwriting the one before,   *)
(* and the motor task carries out what it finds there, a dance taking      *)
(* several seconds.                                                        *)
(***************************************************************************)
EXTENDS Throttle

CONSTANTS
  Inputs,   \* <<x, y, button>>: what callers pass to motor_control
  Garbage   \* what the bytes send_drive_action leaves unset may hold

Int8 == -128 .. 127

(* The joystick coordinates of motor_control's documentation. *)
ASSUME InputsAssumption ==
    /\ Inputs \subseteq (-512 .. 512) \X (-512 .. 512) \X BOOLEAN
    /\ Garbage \subseteq Int8

(* motor_notification_t, of four signed bytes. *)
Notification ==
    [brush_spd : Int8, wheel_left_spd : Int8, wheel_right_spd : Int8,
     actions : {ACTION_NONE, ACTION_PARTY, ACTION_BRAKE}]

(* A motor's speed is in -255 .. 255; BRAKE is the fourth run mode.        *)
BRAKE == 256
Braked == [left |-> BRAKE, right |-> BRAKE, leftBrush |-> BRAKE, rightBrush |-> BRAKE]
Setting == -255 .. BRAKE
Motors == [left : Setting, right : Setting, leftBrush : Setting, rightBrush : Setting]

VARIABLES
  shield,   \* whether the motor shield answers
  pending,  \* whether a notification is waiting for the task
  value,    \* the task's notification value
  motors,   \* what each motor is set to
  pc,       \* where the motor task is
  move,     \* the step of the dance
  last      \* auxiliary: the last command sent

vars == <<shield, pending, value, motors, pc, move, last>>

Stop == [brush_spd |-> 0, wheel_left_spd |-> 0, wheel_right_spd |-> 0, actions |-> ACTION_NONE]

(* After begin(), before the motor task first runs. *)
Init ==
    /\ shield \in BOOLEAN
    /\ pending = FALSE
    /\ value = Stop
    /\ motors = Released
    /\ pc = "begin"
    /\ move = 0
    /\ last = Stop

-----------------------------------------------------------------------------
(* Faulty variant: eSetValueWithoutOverwrite. *)
notifyWithoutOverwrite(n) ==
    /\ pending' = TRUE
    /\ value' = IF pending THEN value ELSE n
    /\ last' = n
    /\ UNCHANGED <<shield, motors, pc, move>>

(* xTaskNotify with eSetValueWithOverwrite, from any task. *)
notify(n) ==
    /\ pending' = TRUE
    /\ value' = n
    /\ last' = n
    /\ UNCHANGED <<shield, motors, pc, move>>

motor_control(x, y, brush_btn) ==
    \E t \in convert_xy_to_throttles(x, y) : notify(driveNotification(t, brush_btn))

(* Only the action is set; the other bytes are whatever the stack held.    *)
send_drive_action(action) ==
    \E brush \in Garbage, left \in Garbage, right \in Garbage :
        notify([brush_spd |-> brush, wheel_left_spd |-> left,
                wheel_right_spd |-> right, actions |-> action])

twirl == send_drive_action(ACTION_PARTY)
brake == send_drive_action(ACTION_BRAKE)

-----------------------------------------------------------------------------
(* _motor_task looks for the shield and, without one, does nothing more.   *)
begin ==
    /\ pc = "begin"
    /\ pc' = IF shield THEN "wait" ELSE "no_shield"
    /\ motors' = Released
    /\ UNCHANGED <<shield, pending, value, move, last>>

(* What the motors are set to at once when a command is taken up.          *)
carriedOut(n) ==
    CASE n.actions = ACTION_PARTY -> motors
      [] n.actions = ACTION_BRAKE -> Braked
      [] OTHER                    -> driveMotors(n)

(* xTaskNotifyWait, clearing the value on exit.  A dance begins with a     *)
(* delay, the other commands end with one.                                 *)
receive ==
    /\ pc = "wait"
    /\ pending
    /\ pending' = FALSE
    /\ value' = Stop
    /\ motors' = carriedOut(value)
    /\ pc' = IF value.actions = ACTION_PARTY THEN "dance" ELSE "rest"
    /\ UNCHANGED <<shield, move, last>>

(* Faulty variant: the dance does not end with a stop. *)
danceMovesNoStop == 6
danceMoves == 7

(* The coordinates of the dance's moves: right and left three times, stop. *)
danceX(i) == IF i = 7 THEN 0 ELSE IF i % 2 = 1 THEN 255 ELSE -255

dance ==
    /\ pc = "dance"
    /\ \E t \in convert_xy_to_throttles(danceX(move + 1), 0) :
         motors' = coordsMotors(t, FALSE)
    /\ IF move + 1 = danceMoves
       THEN move' = 0 /\ pc' = "rest"
       ELSE move' = move + 1 /\ UNCHANGED pc
    /\ UNCHANGED <<shield, pending, value, last>>

(* vTaskDelay(10) at the end of the loop. *)
rest ==
    /\ pc = "rest"
    /\ pc' = "wait"
    /\ UNCHANGED <<shield, pending, value, motors, move, last>>

Callers ==
    \/ \E in \in Inputs : motor_control(in[1], in[2], in[3])
    \/ twirl
    \/ brake

MotorTask == begin \/ receive \/ dance \/ rest

Next == Callers \/ MotorTask

(* The motor task waits for nothing but notifications and time, and every  *)
(* task of a higher priority on its core sleeps in each of its turns.      *)
Fairness == WF_vars(MotorTask)

Spec == Init /\ [][Next]_vars
FairSpec == Spec /\ Fairness

-----------------------------------------------------------------------------
(* The notification's bytes, the motors' speeds within what setSpeed takes *)
(* after the doubling of a byte, and the moves of the dance.               *)
TypeOK ==
    /\ shield \in BOOLEAN
    /\ pending \in BOOLEAN
    /\ value \in Notification
    /\ motors \in Motors
    /\ pc \in {"begin", "no_shield", "wait", "rest", "dance"}
    /\ move \in 0 .. 6
    /\ last \in Notification

(* What a command comes to in the end. *)
Effect(n) ==
    CASE n.actions = ACTION_PARTY -> Released
      [] n.actions = ACTION_BRAKE -> Braked
      [] OTHER                    -> driveMotors(n)

(* Commands overwrite one another, and those sent during a dance wait for  *)
(* its end, but the last one sent is never the one that gets lost: when    *)
(* the motor task has nothing to do the motors are as it says, and never   *)
(* as the bytes a twirl or a brake leaves unset say.                       *)
LastCommandHolds == pc = "wait" /\ ~pending => motors = Effect(last)

(* During a dance the robot turns on the spot: after the first move, and   *)
(* whatever is sent meanwhile, the wheels run in opposite directions at    *)
(* the same speed with the brushes off.                                    *)
DanceInPlace ==
    pc = "dance" /\ move > 0 =>
        /\ motors.left = -motors.right /\ motors.left # 0
        /\ motors.leftBrush = RELEASE /\ motors.rightBrush = RELEASE

(* When no more commands come, the motors settle to what the last one      *)
(* says, if there is a shield: neither the dance nor the coalescing of     *)
(* notifications swallows a last stop.                                     *)
SilenceSettles ==
    <>[][MotorTask]_vars => <>[](shield => motors = Effect(last))
=============================================================================
