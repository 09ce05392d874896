------------------------------ MODULE Steering ------------------------------
(***************************************************************************)
(* The data path from a controller's stick to the motors: loop() samples   *)
(* the axes and applies the dead zone, motor_control computes throttles    *)
(* and packs them into the bytes of a notification, the motor task unpacks *)
(* them and sets the motors.  One step is one pass of the loop whose       *)
(* notification the motor task handles before the next pass; what happens  *)
(* when it does not is MotorControl's subject.                             *)
(***************************************************************************)
EXTENDS Throttle

CONSTANTS
  Axis,  \* the positions of a stick axis that are sampled
  Step   \* how far an axis moves at most between two samples

(* Bluepad32 reports axes from -512 to 511. *)
ASSUME AxisAssumption == Axis \subseteq -512 .. 511 /\ 0 \in Axis /\ Step \in Nat

VARIABLES
  axisX, axisY, b,  \* the controller's state when sampled
  throttles,        \* the throttles computed from it
  driven            \* the speed and direction each motor is set to

steeringVars == <<axisX, axisY, b, throttles, driven>>

SteeringInit ==
    /\ axisX = 0 /\ axisY = 0 /\ b = FALSE
    /\ throttles = [left |-> 0, right |-> 0]
    /\ driven = Released

(* One pass of the loop for a connected controller. *)
drive(ax, ay, btn) ==
    /\ axisX' = ax /\ axisY' = ay /\ b' = btn
    /\ \E t \in convert_xy_to_throttles(x_pos(ax), y_pos(ay)) :
         /\ throttles' = t
         /\ driven' = driveMotors(driveNotification(t, btn))

Near(a, c) == Abs(a - c) <= Step

SteeringNext ==
    \E ax \in Axis, ay \in Axis, btn \in BOOLEAN :
        Near(ax, axisX) /\ Near(ay, axisY) /\ drive(ax, ay, btn)

SteeringSpec == SteeringInit /\ [][SteeringNext]_steeringVars

-----------------------------------------------------------------------------
(* "Wheel values should represent throttle values" (motor_control.cpp:114):*)
(* packed into a byte and unpacked, a throttle keeps its direction, and    *)
(* its size up to the rounding of the division and the clamp at 255.       *)
WheelFollows(motor, throttle) ==
    /\ motor * throttle >= 0
    /\ LET lag == Abs(throttle) - 2 * Abs(motor) IN lag \in 0 .. 4
WheelsRepresentThrottles ==
    /\ WheelFollows(driven.left, throttles.left)
    /\ WheelFollows(driven.right, throttles.right)

(* A stick moved a little between two passes changes no wheel's speed by   *)
(* more than half as much again plus the dead zone and rounding: no        *)
(* direction of the polar conversion makes the robot lurch.                *)
MaxLurch == 2 + (3 * Step) \div 2
NoLurch ==
    [][/\ Abs(driven'.left - driven.left) <= MaxLurch
       /\ Abs(driven'.right - driven.right) <= MaxLurch]_steeringVars

(* Pushed straight ahead or back the robot drives straight, up to one unit *)
(* of throttle lost to the rounding of the polar conversion, and never     *)
(* turns on the spot.                                                      *)
Straight ==
    x_pos(axisX) = 0 =>
        /\ Abs(throttles.left - throttles.right) <= 1
        /\ driven.left * driven.right >= 0

(* Pushed sideways the robot turns on the spot: the wheels run in opposite *)
(* directions at the same speed, to within one unit of throttle.           *)
Pivots ==
    y_pos(axisY) = 0 =>
        /\ Abs(throttles.left + throttles.right) <= 1
        /\ driven.left * driven.right <= 0

(* Full stop: with the stick released and the button not pressed all four  *)
(* motors are released, and the brushes run whenever a wheel does.         *)
BrushesFollow ==
    /\ x_pos(axisX) = 0 /\ y_pos(axisY) = 0 /\ ~b => driven = Released
    /\ driven.left # 0 \/ driven.right # 0 => driven.leftBrush > 0 /\ driven.rightBrush > 0
=============================================================================
