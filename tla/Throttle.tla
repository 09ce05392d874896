------------------------------ MODULE Throttle ------------------------------
(***************************************************************************)
(* The arithmetic of driving: from a stick's axes to the coordinates that  *)
(* loop() hands to MotorControl, from those to wheel throttles, from       *)
(* throttles to the bytes of a notification, and from those to what a      *)
(* motor is told.  C's int8_t, int32_t and / are modelled with their width *)
(* and their truncation towards zero.                                      *)
(***************************************************************************)
EXTENDS Integers

TURN_DAMPING_FACTOR == 2

Abs(n) == IF n < 0 THEN -n ELSE n
Sign(n) == IF n > 0 THEN 1 ELSE IF n < 0 THEN -1 ELSE 0

(* C's division and the conversion of an int to int8_t. *)
TruncDiv(n, d) == Sign(n) * (Abs(n) \div d)
ToInt8(n) == ((n + 128) % 256) - 128

-----------------------------------------------------------------------------
(* The dead zone, and the y-axis turned so that forward is positive. *)
deadZone(a) == IF -5 < a /\ a < 5 THEN 0 ELSE a
x_pos(ax) == deadZone(ax)
y_pos(ay) == -deadZone(ay)

-----------------------------------------------------------------------------
(***************************************************************************)
(* _convert_xy_to_throttles.  With D the damping factor, r the distance    *)
(* and M the larger of |x| and |y| ("magnitude", r / r_max), the code      *)
(* computes                                                                *)
(*     left  = M * (sin(theta) + cos(theta) / D) = M * (D*y + x) / (D * r) *)
(*     right = M * (sin(theta) - cos(theta) / D) = M * (D*y - x) / (D * r) *)
(* for the negated coordinates, in single precision, and truncates.        *)
(* SquaredThrottle is the square of that, rounded down; it divides twice   *)
(* so that TLC's 32-bit integers suffice for |x|, |y| <= 512.              *)
(***************************************************************************)
deflection(x, y) == IF Abs(x) > Abs(y) THEN Abs(x) ELSE Abs(y)

SquaredThrottle(M, k, r2) ==
    LET C == TURN_DAMPING_FACTOR * TURN_DAMPING_FACTOR * r2
        p == M * k * k
    IN  M * (p \div C) + (M * (p % C)) \div C

(* The values that truncating the rounded product can give.  The absolute  *)
(* error of theta, its sine and the magnitude in single precision stays    *)
(* below 1/3 in the square, so the result n satisfies n^2 <= q + 1 and     *)
(* q <= (n+1)^2: one value in general, two next to an exact integer.       *)
(* R holds them all, because M <= r < 3 M / 2.  (With a set for q TLC      *)
(* computes it only once.)                                                 *)
WheelThrottles(x, y, k) ==
    IF k = 0 THEN {0}
    ELSE LET M == deflection(x, y)
             R == (Abs(k) \div 4) .. (Abs(k) \div TURN_DAMPING_FACTOR + 1)
             truncations(q) == {i \in R : i * i <= q + 1 /\ q <= (i + 1) * (i + 1)}
         IN  {Sign(k) * n :
                n \in UNION {truncations(q) : q \in {SquaredThrottle(M, k, x * x + y * y)}}}

(* Faulty variants: cos(theta) with the same sign for both wheels; the     *)
(* arguments of atan2 swapped.                                             *)
convertSameSign(x, y) ==
    [left  : WheelThrottles(x, y, -(TURN_DAMPING_FACTOR * y + x)),
     right : WheelThrottles(x, y, -(TURN_DAMPING_FACTOR * y + x))]

convertSwapped(x, y) ==
    [left  : WheelThrottles(x, y, -(TURN_DAMPING_FACTOR * x + y)),
     right : WheelThrottles(x, y, y - TURN_DAMPING_FACTOR * x)]

convert_xy_to_throttles(x, y) ==
    [left  : WheelThrottles(x, y, -(TURN_DAMPING_FACTOR * y + x)),
     right : WheelThrottles(x, y, x - TURN_DAMPING_FACTOR * y)]

-----------------------------------------------------------------------------
(* motor_notification_t, as motor_control fills it in. *)
ACTION_NONE  == 0
ACTION_PARTY == 1
ACTION_BRAKE == 2

(* Faulty variants: throttles halved, as the comment at                    *)
(* motor_control.cpp:232 has it; brushes on the button alone.              *)
driveNotificationHalved(throttles, brush_btn) ==
    [brush_spd       |-> IF brush_btn \/ throttles.left # 0 \/ throttles.right # 0 THEN 127 ELSE 0,
     wheel_left_spd  |-> ToInt8(TruncDiv(throttles.left, 2)),
     wheel_right_spd |-> ToInt8(TruncDiv(throttles.right, 2)),
     actions         |-> ACTION_NONE]
driveNotificationButtonOnly(throttles, brush_btn) ==
    [brush_spd       |-> IF brush_btn THEN 127 ELSE 0,
     wheel_left_spd  |-> ToInt8(TruncDiv(throttles.left, 4)),
     wheel_right_spd |-> ToInt8(TruncDiv(throttles.right, 4)),
     actions         |-> ACTION_NONE]

driveNotification(throttles, brush_btn) ==
    [brush_spd       |-> IF brush_btn \/ throttles.left # 0 \/ throttles.right # 0 THEN 127 ELSE 0,
     wheel_left_spd  |-> ToInt8(TruncDiv(throttles.left, 4)),
     wheel_right_spd |-> ToInt8(TruncDiv(throttles.right, 4)),
     actions         |-> ACTION_NONE]

(* _set_motor: a motor runs at a speed, forward (positive) or backward, or *)
(* is released (0).  setSpeed takes a byte, which the clamp guarantees.    *)
RELEASE == 0

set_motor(throttle) ==
    Sign(throttle) * IF Abs(throttle) > 255 THEN 255 ELSE Abs(throttle)

(* The four motors in normal mode, on a notification's bytes. *)
driveMotors(n) ==
    [left       |-> set_motor(n.wheel_left_spd * 2),
     right      |-> set_motor(n.wheel_right_spd * 2),
     leftBrush  |-> set_motor(n.brush_spd * 2),
     rightBrush |-> set_motor(n.brush_spd * 2)]

(* _drive_from_joystick_coords, which does not go through a notification.  *)
coordsMotors(throttles, brush) ==
    [left       |-> set_motor(throttles.left),
     right      |-> set_motor(throttles.right),
     leftBrush  |-> set_motor(IF brush THEN 255 ELSE 0),
     rightBrush |-> set_motor(IF brush THEN 255 ELSE 0)]

Released == [left |-> RELEASE, right |-> RELEASE, leftBrush |-> RELEASE, rightBrush |-> RELEASE]
=============================================================================
