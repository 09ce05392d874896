---------------------------- MODULE MotionProofs ----------------------------
(***************************************************************************)
(* Proofs about the way the robot moves, for every set of joystick inputs  *)
(* and of stick positions and every content of the bytes that              *)
(* send_drive_action leaves unset: what the motor task does with commands  *)
(* (MotorControl), what comes of a stick's position (Steering), and the    *)
(* manoeuvres of MCMotion.                                                 *)
(***************************************************************************)
EXTENDS MCMotion, TLAPS

-----------------------------------------------------------------------------
(* A waiting command is the last one sent; without one the motors are as   *)
(* it says, or a dance is under way that will leave them so.               *)
CommandInv ==
    /\ pending => value = last
    /\ ~pending /\ pc \in {"wait", "rest"} => motors = Effect(last)
    /\ ~pending /\ pc = "dance" => last.actions = ACTION_PARTY
    /\ ~pending /\ pc = "begin" => last = Stop

-----------------------------------------------------------------------------
(* Throttles are integers, and those of the centre are 0.                  *)
LEMMA ThrottleType ==
    ASSUME NEW x \in Int, NEW y \in Int, NEW t \in convert_xy_to_throttles(x, y)
    PROVE  t.left \in Int /\ t.right \in Int
<1>. DEFINE kl == -(TURN_DAMPING_FACTOR * y + x)
            kr == x - TURN_DAMPING_FACTOR * y
<1>1. kl \in Int /\ kr \in Int
    BY DEF TURN_DAMPING_FACTOR
<1>2. ASSUME NEW k \in Int, NEW w \in WheelThrottles(x, y, k)
      PROVE  w \in Int
  <2>1. CASE k = 0
      BY <1>2, <2>1 DEF WheelThrottles
  <2>2. CASE k # 0
    <3>1. Abs(k) \div 4 \in Int /\ Abs(k) \div TURN_DAMPING_FACTOR + 1 \in Int
        BY DEF Abs, TURN_DAMPING_FACTOR
    <3>2. PICK n \in (Abs(k) \div 4) .. (Abs(k) \div TURN_DAMPING_FACTOR + 1) : w = Sign(k) * n
        BY <1>2, <2>2 DEF WheelThrottles
    <3>. QED
        BY <3>1, <3>2 DEF Sign
  <2>. QED
      BY <2>1, <2>2
<1>3. t.left \in WheelThrottles(x, y, kl) /\ t.right \in WheelThrottles(x, y, kr)
    BY DEF convert_xy_to_throttles
<1>. QED
  <2>. HIDE DEF kl, kr
  <2>. QED
      BY <1>1, <1>2, <1>3

(* A stick in the centre gives no throttle. *)
LEMMA CentreThrottles ==
    ASSUME NEW t \in convert_xy_to_throttles(0, 0)
    PROVE  t.left = 0 /\ t.right = 0
<1>1. \A n \in Int : n >= 0 /\ n <= 0 => -n = 0
    OBVIOUS
<1>2. /\ TURN_DAMPING_FACTOR * 0 + 0 \in Int
      /\ TURN_DAMPING_FACTOR * 0 + 0 >= 0
      /\ TURN_DAMPING_FACTOR * 0 + 0 <= 0
      /\ 0 - TURN_DAMPING_FACTOR * 0 = 0
    BY DEF TURN_DAMPING_FACTOR
<1>3. WheelThrottles(0, 0, 0) = {0}
    BY DEF WheelThrottles
<1>4. t.left \in WheelThrottles(0, 0, -(TURN_DAMPING_FACTOR * 0 + 0))
      /\ t.right \in WheelThrottles(0, 0, 0 - TURN_DAMPING_FACTOR * 0)
    BY DEF convert_xy_to_throttles
<1>5. t.left \in WheelThrottles(0, 0, 0) /\ t.right \in WheelThrottles(0, 0, 0)
    BY <1>1, <1>2, <1>4, Zenon
<1>. QED
    BY <1>3, <1>5, Zenon

(* Coordinates 0, 0 release every motor: how a dance ends. *)
LEMMA CentreStops ==
    ASSUME NEW t \in convert_xy_to_throttles(0, 0)
    PROVE  coordsMotors(t, FALSE) = Released
<1>1. t.left = 0 /\ t.right = 0
    BY CentreThrottles
<1>2. set_motor(0) = 0
    BY DEF set_motor, Sign, Abs
<1>. QED
    BY <1>1, <1>2 DEF coordsMotors, Released, RELEASE

(* The clamp keeps every motor within a byte, whatever the throttle.       *)
LEMMA SetMotorType ==
    ASSUME NEW t \in Int
    PROVE  set_motor(t) \in Setting
    BY DEF set_motor, Sign, Abs, Setting, BRAKE

(* A quarter of a throttle, converted, is a signed byte. *)
LEMMA ToInt8Type ==
    ASSUME NEW t \in Int
    PROVE  ToInt8(TruncDiv(t, 4)) \in Int8
<1>1. TruncDiv(t, 4) \in Int
    BY DEF TruncDiv, Sign, Abs
<1>2. \A n \in Int : ToInt8(n) \in Int8
    BY DEF ToInt8, Int8
<1>. QED
    BY <1>1, <1>2

(* motor_control fills in every field of the notification. *)
LEMMA NotificationType ==
    ASSUME NEW x \in Int, NEW y \in Int, NEW btn \in BOOLEAN,
           NEW t \in convert_xy_to_throttles(x, y)
    PROVE  driveNotification(t, btn) \in Notification
<1>1. ToInt8(TruncDiv(t.left, 4)) \in Int8 /\ ToInt8(TruncDiv(t.right, 4)) \in Int8
    BY ThrottleType, ToInt8Type
<1>2. 127 \in Int8 /\ 0 \in Int8
    BY DEF Int8
<1>. QED
    BY <1>1, <1>2 DEF driveNotification, Notification, ACTION_NONE, ACTION_PARTY, ACTION_BRAKE

(* Any notification gives settings a motor can take. *)
LEMMA DriveMotorsType ==
    ASSUME NEW n \in Notification
    PROVE  driveMotors(n) \in Motors
<1>1. n.brush_spd * 2 \in Int /\ n.wheel_left_spd * 2 \in Int /\ n.wheel_right_spd * 2 \in Int
    BY DEF Notification, Int8
<1>. QED
    BY <1>1, SetMotorType DEF driveMotors, Motors

(* So do joystick coordinates used directly. *)
LEMMA CoordsMotorsType ==
    ASSUME NEW x \in Int, NEW y \in Int, NEW t \in convert_xy_to_throttles(x, y)
    PROVE  coordsMotors(t, FALSE) \in Motors
<1>1. t.left \in Int /\ t.right \in Int
    BY ThrottleType
<1>. QED
    BY <1>1, SetMotorType DEF coordsMotors, Motors

(* The fixed settings and the stop command are well typed. *)
LEMMA ReleasedType == Released \in Motors /\ Braked \in Motors /\ Stop \in Notification
    BY DEF Released, RELEASE, Braked, Motors, Setting, BRAKE, Stop, Notification, Int8,
           ACTION_NONE, ACTION_PARTY, ACTION_BRAKE

(* Every command a caller sends is a notification. *)
LEMMA CallersNotify ==
    ASSUME Callers
    PROVE  \E n \in Notification : notify(n)
<1>1. ASSUME NEW in \in Inputs, motor_control(in[1], in[2], in[3])
      PROVE  \E n \in Notification : notify(n)
  <2>1. in[1] \in Int /\ in[2] \in Int /\ in[3] \in BOOLEAN
      BY InputsAssumption
  <2>2. PICK t \in convert_xy_to_throttles(in[1], in[2]) : notify(driveNotification(t, in[3]))
      BY <1>1 DEF motor_control
  <2>3. driveNotification(t, in[3]) \in Notification
      BY <2>1, <2>2, NotificationType
  <2>. QED
      BY <2>2, <2>3
<1>2. ASSUME NEW action \in {ACTION_PARTY, ACTION_BRAKE}, send_drive_action(action)
      PROVE  \E n \in Notification : notify(n)
  <2>1. PICK brush \in Garbage, left \in Garbage, right \in Garbage :
            notify([brush_spd |-> brush, wheel_left_spd |-> left,
                    wheel_right_spd |-> right, actions |-> action])
      BY <1>2 DEF send_drive_action
  <2>2. [brush_spd |-> brush, wheel_left_spd |-> left,
         wheel_right_spd |-> right, actions |-> action] \in Notification
      BY InputsAssumption DEF Notification
  <2>. QED
      BY <2>1, <2>2
<1>. QED
    BY <1>1, <1>2 DEF Callers, twirl, brake

-----------------------------------------------------------------------------
(* Type correctness: in particular no motor is ever set beyond what        *)
(* setSpeed takes, although a byte is doubled (motor_control.cpp:190-194). *)
THEOREM TypeCorrect == Spec => []TypeOK
<1>1. Init => TypeOK
  <2>. SUFFICES ASSUME Init PROVE TypeOK
      OBVIOUS
  <2>1. shield \in BOOLEAN /\ pending \in BOOLEAN
      BY DEF Init
  <2>2. move \in 0 .. 6
      BY DEF Init
  <2>. QED
      BY <2>1, <2>2, ReleasedType DEF Init, TypeOK
<1>2. TypeOK /\ [Next]_vars => TypeOK'
  <2>. SUFFICES ASSUME TypeOK, [Next]_vars PROVE TypeOK'
      OBVIOUS
  <2>1. CASE Callers
    <3>1. PICK n \in Notification : notify(n)
        BY <2>1, CallersNotify
    <3>. QED
        BY <3>1 DEF notify, TypeOK
  <2>2. CASE begin
      BY <2>2, ReleasedType DEF begin, TypeOK
  <2>3. CASE receive
    <3>1. carriedOut(value) \in Motors
        BY ReleasedType, DriveMotorsType DEF carriedOut, TypeOK
    <3>. QED
        BY <2>3, <3>1, ReleasedType DEF receive, TypeOK
  <2>4. CASE dance
    <3>1. danceX(move + 1) \in Int
        BY DEF danceX
    <3>2. motors' \in Motors
      <4>1. PICK t \in convert_xy_to_throttles(danceX(move + 1), 0) :
                motors' = coordsMotors(t, FALSE)
          BY <2>4 DEF dance
      <4>. QED
          BY <3>1, <4>1, 0 \in Int, CoordsMotorsType, Zenon
    <3>3. move' \in 0 .. 6 /\ pc' \in {"dance", "rest"}
        BY <2>4 DEF dance, danceMoves, TypeOK
    <3>. QED
        BY <2>4, <3>2, <3>3 DEF dance, TypeOK
  <2>5. CASE rest
      BY <2>5 DEF rest, TypeOK
  <2>6. CASE UNCHANGED vars
      BY <2>6 DEF vars, TypeOK
  <2>. QED
      BY <2>1, <2>2, <2>3, <2>4, <2>5, <2>6 DEF Next, MotorTask
<1>. QED
    BY <1>1, <1>2, PTL DEF Spec

(* Coalescing never loses the last command, for any commands sent at any   *)
(* time and any content of the unset bytes.                                *)
THEOREM LastCommandIsKept == Spec => []LastCommandHolds
<1>1. Init => CommandInv
    BY DEF Init, CommandInv
<1>2. TypeOK /\ CommandInv /\ [Next]_vars => CommandInv'
  <2>. SUFFICES ASSUME TypeOK, CommandInv, [Next]_vars PROVE CommandInv'
      OBVIOUS
  <2>1. CASE Callers
    <3>1. PICK n \in Notification : notify(n)
        BY <2>1, CallersNotify
    <3>. QED
        BY <3>1 DEF notify, CommandInv
  <2>2. CASE begin
    <3>1. Effect(Stop) = Released
        BY DEF Effect, Stop, driveMotors, set_motor, Sign, Abs, Released, RELEASE,
               ACTION_NONE, ACTION_PARTY, ACTION_BRAKE
    <3>. QED
        BY <2>2, <3>1 DEF begin, CommandInv, Effect
  <2>3. CASE receive
    <3>1. value = last /\ pending
        BY <2>3 DEF receive, CommandInv
    <3>2. CASE last.actions = ACTION_PARTY
        BY <2>3, <3>1, <3>2 DEF receive, CommandInv
    <3>3. CASE last.actions # ACTION_PARTY
      <4>1. carriedOut(last) = Effect(last)
          BY <3>3 DEF carriedOut, Effect
      <4>. QED
          BY <2>3, <3>1, <3>3, <4>1 DEF receive, CommandInv, Effect
    <3>. QED
        BY <3>2, <3>3
  <2>4. CASE dance
    <3>1. CASE move + 1 = danceMoves
      <4>1. danceX(move + 1) = 0
          BY <3>1 DEF danceX, danceMoves
      <4>2. motors' = Released
          BY <2>4, <4>1, CentreStops DEF dance
      <4>3. last.actions = ACTION_PARTY => Effect(last) = Released
          BY DEF Effect, ACTION_PARTY, ACTION_BRAKE
      <4>4. Effect(last)' = Effect(last)
          BY <2>4 DEF dance, Effect
      <4>. QED
          BY <2>4, <3>1, <4>2, <4>3, <4>4 DEF dance, CommandInv
    <3>2. CASE move + 1 # danceMoves
        BY <2>4, <3>2 DEF dance, CommandInv
    <3>. QED
        BY <3>1, <3>2
  <2>5. CASE rest
      BY <2>5 DEF rest, CommandInv, Effect
  <2>6. CASE UNCHANGED vars
      BY <2>6 DEF vars, CommandInv, Effect
  <2>. QED
      BY <2>1, <2>2, <2>3, <2>4, <2>5, <2>6 DEF Next, MotorTask
<1>3. CommandInv => LastCommandHolds
    BY DEF CommandInv, LastCommandHolds
<1>. QED
    BY <1>1, <1>2, <1>3, TypeCorrect, PTL DEF Spec

-----------------------------------------------------------------------------
(* Stick positions, and the throttles they can give. *)
SafeRange == -457 .. 457
ByteRange == -510 .. 510

(* Dividing twice rounds down no less than dividing once: C*q <= M^2*k^2.  *)
LEMMA SquaredThrottleBound ==
    ASSUME NEW M \in Nat, NEW k \in Int, NEW r2 \in Nat \ {0}
    PROVE  /\ SquaredThrottle(M, k, r2) \in Int
           /\ 4 * r2 * SquaredThrottle(M, k, r2) <= M * (M * k * k)
<1>. DEFINE C == 4 * r2
            p == M * k * k
            u == p \div C
            w == p % C
            v == (M * w) \div C
<1>1. C \in Nat \ {0}
    OBVIOUS
<1>2. k * k \in Nat
    OBVIOUS
<1>3. p \in Int
    OBVIOUS
<1>4. u \in Int /\ w \in 0 .. C - 1 /\ p = C * u + w
  <2>. HIDE DEF C, p
  <2>. QED
      BY <1>1, <1>3
<1>5. M * w \in Int
    BY <1>4
<1>6. v \in Int /\ C * v <= M * w
  <2>. DEFINE z == M * w
  <2>1. z \in Int /\ C \in Nat \ {0}
      BY <1>1, <1>5
  <2>. HIDE DEF z, C
  <2>2. z \div C \in Int /\ C * (z \div C) <= z
      BY <2>1
  <2>. QED
      BY <2>2 DEF z
<1>7. SquaredThrottle(M, k, r2) = M * u + v
    BY DEF SquaredThrottle, TURN_DAMPING_FACTOR
<1>8. C * (M * u + v) <= M * p
  <2>. HIDE DEF C, p, u, w, v
  <2>1. C * (M * u + v) = M * (C * u) + C * v
      BY <1>1, <1>4, <1>6
  <2>2. M * p = M * (C * u) + M * w
      BY <1>1, <1>4
  <2>3. M * (C * u) \in Int /\ C * v \in Int /\ M * w \in Int
      BY <1>1, <1>4, <1>5, <1>6
  <2>. QED
      BY <2>1, <2>2, <2>3, <1>6
<1>. QED
  <2>1. M * u + v \in Int
    <3>. HIDE DEF C, p, u, v, w
    <3>. QED
        BY <1>4, <1>6
  <2>. QED
      BY <1>7, <1>8, <2>1

(* The two numerators of the conversion are at most sqrt(5) times the      *)
(* distance: the remainder is a square.                                    *)
LEMMA NumeratorBound ==
    ASSUME NEW x \in Int, NEW y \in Int, NEW k \in {2 * y + x, -(2 * y + x), x - 2 * y}
    PROVE  k \in Int /\ k * k <= 5 * (x * x + y * y)
<1>1. \A a \in Int : a * a >= 0
    OBVIOUS
<1>2. (2 * x - y) * (2 * x - y) >= 0 /\ (2 * x + y) * (2 * x + y) >= 0
    BY <1>1
<1>3. CASE k = 2 * y + x \/ k = -(2 * y + x)
  <2>1. 5 * (x * x + y * y) - k * k = (2 * x - y) * (2 * x - y)
      BY <1>3
  <2>. QED
      BY <2>1, <1>2, <1>3
<1>4. CASE k = x - 2 * y
  <2>1. 5 * (x * x + y * y) - k * k = (2 * x + y) * (2 * x + y)
      BY <1>4
  <2>. QED
      BY <2>1, <1>2, <1>4
<1>. QED
    BY <1>3, <1>4

(* The largest square a throttle can have in terms of the deflection.      *)
LEMMA SquareBound ==
    ASSUME NEW M \in Nat, NEW k \in Int, NEW r2 \in Nat \ {0}, k * k <= 5 * r2,
           NEW q \in Int, 4 * r2 * q <= M * (M * k * k)
    PROVE  4 * q <= 5 * (M * M)
<1>. DEFINE s == M * M
            kk == k * k
<1>1. s \in Nat /\ kk \in Nat
    OBVIOUS
<1>2. M * (M * k * k) = s * kk
    OBVIOUS
<1>. HIDE DEF s, kk
<1>3. s * kk <= s * (5 * r2)
    BY <1>1 DEF kk
<1>4. r2 * (4 * q) <= r2 * (5 * s)
    BY <1>1, <1>2, <1>3
<1>5. 4 * q \in Int /\ 5 * s \in Int
    BY <1>1
<1>6. \A a, b_, c \in Int : c > 0 /\ c * a <= c * b_ => a <= b_
    OBVIOUS
<1>. QED
    BY <1>4, <1>5, <1>6 DEF s

(* No throttle within the safe range exceeds 510. *)
LEMMA ThrottleBound ==
    ASSUME NEW x \in SafeRange, NEW y \in SafeRange,
           NEW k \in {2 * y + x, -(2 * y + x), x - 2 * y},
           NEW t \in WheelThrottles(x, y, k)
    PROVE  t \in ByteRange
<1>. x \in Int /\ y \in Int
    BY DEF SafeRange
<1>1. CASE k = 0
    BY <1>1 DEF WheelThrottles, ByteRange
<1>2. CASE k # 0
  <2>. DEFINE M == deflection(x, y)
              r2 == x * x + y * y
              q == SquaredThrottle(M, k, r2)
  <2>1. M \in 0 .. 457
      BY DEF deflection, Abs, SafeRange
  <2>2. k \in Int /\ k * k <= 5 * r2
      BY NumeratorBound
  <2>3. r2 \in Nat \ {0}
    <3>1. x * x \in Nat /\ y * y \in Nat
        OBVIOUS
    <3>2. x # 0 => x * x # 0
        OBVIOUS
    <3>3. y # 0 => y * y # 0
        OBVIOUS
    <3>4. x # 0 \/ y # 0
        BY <1>2
    <3>. QED
        BY <3>1, <3>2, <3>3, <3>4
  <2>4. q \in Int /\ 4 * r2 * q <= M * (M * k * k)
    <3>. HIDE DEF M, r2
    <3>. QED
        BY <2>1, <2>2, <2>3, SquaredThrottleBound
  <2>5. 4 * q <= 5 * (M * M)
    <3>1. M \in Nat
        BY <2>1
    <3>. HIDE DEF M, r2, q
    <3>. QED
        BY <2>2, <2>3, <2>4, <3>1, SquareBound, Zenon
  <2>6. PICK n \in (Abs(k) \div 4) .. (Abs(k) \div 2 + 1) : t = Sign(k) * n /\ n * n <= q + 1
      BY <1>2 DEF WheelThrottles, TURN_DAMPING_FACTOR
  <2>7. M * M <= 208849
    <3>. HIDE DEF M
    <3>. QED
        BY <2>1
  <2>8. n * n < 261121
    <3>1. M * M \in Int /\ n * n \in Int
      <4>. HIDE DEF M
      <4>. QED
        BY <2>1, <2>6
    <3>. HIDE DEF M, q
    <3>. QED
        BY <2>4, <2>5, <2>6, <2>7, <3>1
  <2>9. n \in Nat /\ n <= 510
    <3>1. n \in Nat
      <4>1. Abs(k) \in Nat
          BY <2>2 DEF Abs
      <4>2. Abs(k) \div 4 \in Nat /\ Abs(k) \div 2 + 1 \in Nat
          BY <4>1
      <4>. QED
          BY <2>6, <4>2
    <3>2. n >= 511 => n * n >= 511 * 511
        BY <3>1
    <3>. QED
        BY <2>8, <3>1, <3>2
  <2>. QED
      BY <2>2, <2>6, <2>9 DEF Sign, ByteRange
<1>. QED
    BY <1>1, <1>2

(* A throttle of at most 510 survives the byte it is sent in. *)
LEMMA ByteFaithful ==
    ASSUME NEW t \in ByteRange
    PROVE  WheelFollows(set_motor(ToInt8(TruncDiv(t, 4)) * 2), t)
<1>. DEFINE h == Abs(t) \div 4
<1>. t \in -510 .. 510
    BY DEF ByteRange
<1>1. h \in 0 .. 127 /\ Abs(t) - 4 * h \in 0 .. 3
    BY DEF Abs
<1>2. TruncDiv(t, 4) = Sign(t) * h
    BY DEF TruncDiv
<1>. HIDE DEF h
<1>3. ToInt8(Sign(t) * h) = Sign(t) * h
    BY <1>1 DEF ToInt8, Sign
<1>4. set_motor(Sign(t) * h * 2) = Sign(t) * (2 * h)
    BY <1>1 DEF set_motor, Sign, Abs
<1>5. Abs(Sign(t) * (2 * h)) = IF t = 0 THEN 0 ELSE 2 * h
    BY <1>1 DEF Abs, Sign
<1>6. Sign(t) * (2 * h) * t >= 0
    BY <1>1 DEF Sign
<1>7. t = 0 => Abs(t) = 0
    BY DEF Abs
<1>. QED
    BY <1>1, <1>2, <1>3, <1>4, <1>5, <1>6, <1>7 DEF WheelFollows

(* The dead zone does not leave the safe range. *)
LEMMA DeadZoneRange ==
    ASSUME NEW a \in SafeRange
    PROVE  x_pos(a) \in SafeRange /\ y_pos(a) \in SafeRange
<1>1. deadZone(a) \in SafeRange
    BY DEF deadZone, SafeRange
<1>2. x_pos(a) = deadZone(a) /\ y_pos(a) = -deadZone(a)
    BY DEF x_pos, y_pos
<1>. QED
    BY <1>1, <1>2 DEF SafeRange

(* Both wheels follow their throttles. *)
LEMMA NotificationFaithful ==
    ASSUME NEW px \in SafeRange, NEW py \in SafeRange, NEW btn,
           NEW th \in convert_xy_to_throttles(px, py)
    PROVE  LET m == driveMotors(driveNotification(th, btn))
           IN  WheelFollows(m.left, th.left) /\ WheelFollows(m.right, th.right)
<1>. DEFINE kl == -(2 * py + px)
            kr == px - 2 * py
<1>1. th.left \in WheelThrottles(px, py, kl) /\ th.right \in WheelThrottles(px, py, kr)
    BY DEF convert_xy_to_throttles, TURN_DAMPING_FACTOR
<1>. px \in Int /\ py \in Int
    BY DEF SafeRange
<1>2. kl \in {2 * py + px, -(2 * py + px), px - 2 * py} /\ kr \in {2 * py + px, -(2 * py + px), px - 2 * py}
    OBVIOUS
<1>3. th.left \in ByteRange
  <2>. HIDE DEF kl
  <2>. QED
      BY <1>1, <1>2, ThrottleBound
<1>4. th.right \in ByteRange
  <2>. HIDE DEF kr
  <2>. QED
      BY <1>1, <1>2, ThrottleBound
<1>5. WheelFollows(set_motor(ToInt8(TruncDiv(th.left, 4)) * 2), th.left)
    BY <1>3, ByteFaithful
<1>6. WheelFollows(set_motor(ToInt8(TruncDiv(th.right, 4)) * 2), th.right)
    BY <1>4, ByteFaithful
<1>. QED
    BY <1>5, <1>6 DEF driveMotors, driveNotification

-----------------------------------------------------------------------------
(* Within 457 of the centre the motors do what the throttles say, in       *)
(* direction and size, for every controller input: the narrowing of        *)
(* throttles to int8_t in motor_control (motor_control.cpp:237-238) loses  *)
(* nothing there.  Beyond it, it does: see SteeringFull.cfg.               *)
THEOREM SafeStickIsFaithful ==
    ASSUME Axis \subseteq SafeRange
    PROVE  SteeringSpec => []WheelsRepresentThrottles
<1>1. SteeringInit => WheelsRepresentThrottles
    BY DEF SteeringInit, Released, RELEASE, WheelsRepresentThrottles, WheelFollows, Abs
<1>2. WheelsRepresentThrottles /\ [SteeringNext]_steeringVars => WheelsRepresentThrottles'
  <2>. SUFFICES ASSUME WheelsRepresentThrottles, [SteeringNext]_steeringVars
                PROVE  WheelsRepresentThrottles'
      OBVIOUS
  <2>1. CASE UNCHANGED steeringVars
      BY <2>1 DEF steeringVars, WheelsRepresentThrottles, WheelFollows
  <2>2. ASSUME NEW ax \in Axis, NEW ay \in Axis, NEW btn \in BOOLEAN, drive(ax, ay, btn)
        PROVE  WheelsRepresentThrottles'
    <3>1. x_pos(ax) \in SafeRange /\ y_pos(ay) \in SafeRange
        BY DeadZoneRange
    <3>2. PICK t \in convert_xy_to_throttles(x_pos(ax), y_pos(ay)) :
              throttles' = t /\ driven' = driveMotors(driveNotification(t, btn))
        BY <2>2 DEF drive
    <3>. QED
        BY <3>1, <3>2, NotificationFaithful DEF WheelsRepresentThrottles
  <2>. QED
      BY <2>1, <2>2 DEF SteeringNext
<1>. QED
    BY <1>1, <1>2, PTL DEF SteeringSpec

-----------------------------------------------------------------------------
(* The sizes a throttle of numerator k may have: the truncations of        *)
(* WheelThrottles.                                                         *)
Truncated(n, k, q) ==
    /\ n \in (Abs(k) \div 4) .. (Abs(k) \div 2 + 1)
    /\ n * n <= q + 1
    /\ q <= (n + 1) * (n + 1)

(* A throttle is one of them, with the sign of its numerator. *)
LEMMA ThrottleIsTruncated ==
    ASSUME NEW px \in Int, NEW py \in Int, NEW k \in Int, k # 0,
           NEW t \in WheelThrottles(px, py, k)
    PROVE  \E n \in Nat :
              /\ t = Sign(k) * n
              /\ Truncated(n, k, SquaredThrottle(deflection(px, py), k, px * px + py * py))
<1>. DEFINE q == SquaredThrottle(deflection(px, py), k, px * px + py * py)
<1>1. PICK n \in (Abs(k) \div 4) .. (Abs(k) \div 2 + 1) :
          t = Sign(k) * n /\ n * n <= q + 1 /\ q <= (n + 1) * (n + 1)
    BY DEF WheelThrottles, TURN_DAMPING_FACTOR
<1>2. n \in Nat
  <2>1. Abs(k) \in Nat
      BY DEF Abs
  <2>2. Abs(k) \div 4 \in Nat /\ Abs(k) \div 2 + 1 \in Nat
      BY <2>1
  <2>. QED
      BY <1>1, <2>2
<1>3. Truncated(n, k, q)
    BY <1>1 DEF Truncated
<1>. QED
    BY <1>1, <1>2, <1>3

(* Two truncations of one number differ by at most 1. *)
LEMMA TruncationsAgree ==
    ASSUME NEW q \in Int, NEW m \in Nat, NEW n \in Nat,
           m * m <= q + 1, q <= (n + 1) * (n + 1)
    PROVE  m <= n + 1
<1>. SUFFICES ASSUME m >= n + 2 PROVE FALSE
    OBVIOUS
<1>1. (n + 2) * (n + 2) <= m * m
  <2>. PICK d \in Nat : m = n + 2 + d
    <3>1. m - (n + 2) \in Nat /\ m = n + 2 + (m - (n + 2))
        OBVIOUS
    <3>. QED
        BY <3>1
  <2>1. m * m = (n + 2) * (n + 2) + (2 * n * d + 4 * d + d * d)
      OBVIOUS
  <2>2. 2 * n * d + 4 * d + d * d \in Nat
      OBVIOUS
  <2>. QED
      BY <2>1, <2>2
<1>2. (n + 2) * (n + 2) = (n + 1) * (n + 1) + (2 * n + 3)
    OBVIOUS
<1>3. (n + 1) * (n + 1) \in Int /\ (n + 2) * (n + 2) \in Int /\ m * m \in Int
    OBVIOUS
<1>. QED
    BY <1>1, <1>2, <1>3

(* Less nothing is nothing. *)
LEMMA MinusNothing == \A n \in Int : n = 0 => -n = 0
<1>. TAKE n \in Int
<1>1. n >= 0 /\ n <= 0 => -n = 0
    OBVIOUS
<1>. QED
    BY <1>1

(* Away from the centre the square of a throttle is a number. *)
LEMMA SquareType ==
    ASSUME NEW px \in Int, NEW py \in Int, NEW k \in Int, px # 0 \/ py # 0
    PROVE  SquaredThrottle(deflection(px, py), k, px * px + py * py) \in Int
<1>1. deflection(px, py) \in Nat
    BY DEF deflection, Abs
<1>2. px * px + py * py \in Nat \ {0}
  <2>1. px * px \in Nat /\ py * py \in Nat
      OBVIOUS
  <2>2. px # 0 => px * px # 0
      OBVIOUS
  <2>3. py # 0 => py * py # 0
      OBVIOUS
  <2>. QED
      BY <2>1, <2>2, <2>3
<1>. QED
  <2>. DEFINE M == deflection(px, py)
              r2 == px * px + py * py
  <2>. HIDE DEF M, r2
  <2>. QED
      BY <1>1, <1>2, SquaredThrottleBound DEF M, r2

(* A throttle within reach of a byte keeps its direction. *)
LEMMA ByteKeepsDirection ==
    ASSUME NEW t \in -512 .. 511
    PROVE  /\ set_motor(ToInt8(TruncDiv(t, 4)) * 2) \in Int
           /\ t >= 0 => set_motor(ToInt8(TruncDiv(t, 4)) * 2) >= 0
           /\ t <= 0 => set_motor(ToInt8(TruncDiv(t, 4)) * 2) <= 0
<1>. DEFINE h == Abs(t) \div 4
<1>1. h \in 0 .. 128 /\ (t >= 0 => h \in 0 .. 127)
    BY DEF Abs
<1>2. TruncDiv(t, 4) = Sign(t) * h
    BY DEF TruncDiv
<1>. HIDE DEF h
<1>3. ToInt8(Sign(t) * h) = Sign(t) * h
    BY <1>1 DEF ToInt8, Sign
<1>4. set_motor(Sign(t) * h * 2) \in Int
    BY <1>1 DEF set_motor, Sign, Abs
<1>5. t >= 0 => set_motor(Sign(t) * h * 2) >= 0
    BY <1>1 DEF set_motor, Sign, Abs
<1>6. t <= 0 => set_motor(Sign(t) * h * 2) <= 0
    BY <1>1 DEF set_motor, Sign, Abs
<1>. QED
    BY <1>2, <1>3, <1>4, <1>5, <1>6

(* Straight ahead or back a throttle is at most the stick's deflection:    *)
(* the square is y^2, which one more exceeds.                              *)
LEMMA StraightThrottle ==
    ASSUME NEW py \in -511 .. 512, NEW t \in WheelThrottles(0, py, -(2 * py))
    PROVE  t \in -512 .. 511
<1>1. CASE py = 0
  <2>1. 2 * py = 0 /\ 2 * py \in Int
      BY <1>1
  <2>2. -(2 * py) = 0
      BY <2>1, MinusNothing
  <2>. QED
      BY <2>2 DEF WheelThrottles
<1>2. CASE py # 0
  <2>. DEFINE k == -(2 * py)
              M == deflection(0, py)
              r2 == 0 * 0 + py * py
              q == SquaredThrottle(M, k, r2)
  <2>1. k \in Int /\ k # 0
      BY <1>2
  <2>2. PICK n \in Nat : t = Sign(k) * n /\ Truncated(n, k, q)
      BY <2>1, ThrottleIsTruncated
  <2>3. M \in Nat /\ M = Abs(py) /\ M <= 512 /\ M # 0
      BY <1>2 DEF deflection, Abs
  <2>4. r2 \in Nat \ {0} /\ r2 = M * M
    <3>1. py * py \in Nat /\ py * py # 0
        BY <1>2
    <3>2. 0 * 0 = 0
        OBVIOUS
    <3>3. M * M = py * py
        BY <2>3 DEF Abs
    <3>. QED
        BY <3>1, <3>2, <3>3
  <2>5. q \in Int /\ 4 * r2 * q <= M * (M * k * k)
    <3>. HIDE DEF M, r2, k
    <3>. QED
        BY <2>1, <2>3, <2>4, SquaredThrottleBound
  <2>6. M * (M * k * k) = r2 * (4 * (M * M))
    <3>1. k * k = 4 * (M * M)
        BY <2>3 DEF Abs
    <3>2. M * (M * k * k) = (M * M) * (k * k)
      <4>. HIDE DEF M, k
      <4>. QED
          BY <2>1, <2>3
    <3>. QED
        BY <3>1, <3>2, <2>4
  <2>7. q <= M * M
    <3>1. M * M \in Int
        BY <2>3
    <3>. DEFINE s == M * M
    <3>2. s \in Int
        BY <3>1
    <3>. HIDE DEF M, r2, q, s
    <3>3. r2 * (4 * q) <= r2 * (4 * s)
      <4>1. 4 * r2 * q = r2 * (4 * q)
          BY <2>4, <2>5
      <4>. QED
          BY <4>1, <2>5, <2>6 DEF s
    <3>4. \A a, c, d \in Int : c > 0 /\ c * a <= c * d => a <= d
        OBVIOUS
    <3>5. 4 * q <= 4 * s
        BY <3>2, <3>3, <3>4, <2>4, <2>5
    <3>. QED
        BY <3>2, <3>5, <2>5 DEF s
  <2>8. n <= M
    <3>. SUFFICES ASSUME n >= M + 1 PROVE FALSE
        BY <2>2, <2>3
    <3>1. n * n <= q + 1
        BY <2>2 DEF Truncated
    <3>. HIDE DEF M, q
    <3>2. (M + 1) * (M + 1) <= n * n
      <4>. PICK d \in Nat : n = M + 1 + d
        <5>1. n - (M + 1) \in Nat /\ n = M + 1 + (n - (M + 1))
            BY <2>3
        <5>. QED
            BY <5>1
      <4>1. n * n = (M + 1) * (M + 1) + (2 * M * d + 2 * d + d * d)
          BY <2>3
      <4>2. 2 * M * d + 2 * d + d * d \in Nat
          BY <2>3
      <4>. QED
          BY <4>1, <4>2, <2>3
    <3>3. (M + 1) * (M + 1) = M * M + (2 * M + 1)
        BY <2>3
    <3>4. M * M \in Int /\ n * n \in Int /\ 2 * M + 1 \in Int /\ 2 * M + 1 >= 3
        BY <2>3
    <3>5. q \in Int
        BY <2>5
    <3>. DEFINE mm == M * M
                nn == n * n
                d == 2 * M + 1
    <3>6. mm + d <= nn /\ nn <= q + 1 /\ q <= mm /\ d >= 3
        BY <3>1, <3>2, <3>3, <3>4, <2>7
    <3>. HIDE DEF mm, nn, d
    <3>. QED
        BY <3>4, <3>5, <3>6 DEF mm, nn, d
  <2>9. CASE py > 0
    <3>1. Sign(k) = -1
        BY <2>9 DEF Sign
    <3>2. n <= 512
      <4>. HIDE DEF M
      <4>. QED
          BY <2>3, <2>8
    <3>. QED
        BY <2>2, <3>1, <3>2
  <2>10. CASE py < 0
    <3>1. Sign(k) = 1
        BY <2>10 DEF Sign
    <3>2. M <= 511
        BY <2>3, <2>10 DEF Abs
    <3>3. n <= 511
      <4>. HIDE DEF M
      <4>. QED
          BY <2>3, <2>8, <3>2
    <3>. QED
        BY <2>2, <3>1, <3>3
  <2>. QED
      BY <1>2, <2>9, <2>10
<1>. QED
    BY <1>1, <1>2

(* Both wheels, straight ahead or back. *)
LEMMA StraightAhead ==
    ASSUME NEW py \in -511 .. 512, NEW t \in convert_xy_to_throttles(0, py), NEW btn
    PROVE  LET m == driveMotors(driveNotification(t, btn))
           IN  Abs(t.left - t.right) <= 1 /\ m.left * m.right >= 0
<1>. DEFINE k == -(2 * py)
            q == SquaredThrottle(deflection(0, py), k, 0 * 0 + py * py)
            ml == set_motor(ToInt8(TruncDiv(t.left, 4)) * 2)
            mr == set_motor(ToInt8(TruncDiv(t.right, 4)) * 2)
<1>1. t.left \in WheelThrottles(0, py, k) /\ t.right \in WheelThrottles(0, py, k)
  <2>1. -(TURN_DAMPING_FACTOR * py + 0) = k /\ 0 - TURN_DAMPING_FACTOR * py = k
      BY DEF TURN_DAMPING_FACTOR
  <2>2. /\ t.left \in WheelThrottles(0, py, -(TURN_DAMPING_FACTOR * py + 0))
        /\ t.right \in WheelThrottles(0, py, 0 - TURN_DAMPING_FACTOR * py)
      BY DEF convert_xy_to_throttles
  <2>. HIDE DEF k
  <2>. QED
      BY <2>1, <2>2, Zenon
<1>2. t.left \in -512 .. 511 /\ t.right \in -512 .. 511
  <2>1. \A u \in WheelThrottles(0, py, -(2 * py)) : u \in -512 .. 511
      BY StraightThrottle
  <2>. QED
      BY <1>1, <2>1, Zenon
<1>3. /\ ml \in Int /\ (t.left >= 0 => ml >= 0) /\ (t.left <= 0 => ml <= 0)
      /\ mr \in Int /\ (t.right >= 0 => mr >= 0) /\ (t.right <= 0 => mr <= 0)
    BY <1>2, ByteKeepsDirection
<1>4. Abs(t.left - t.right) <= 1 /\ ((t.left >= 0 /\ t.right >= 0) \/ (t.left <= 0 /\ t.right <= 0))
  <2>1. CASE k = 0
    <3>1. t.left = 0 /\ t.right = 0
        BY <1>1, <2>1 DEF WheelThrottles
    <3>. QED
        BY <3>1 DEF Abs
  <2>2. CASE k # 0
    <3>1. k \in Int /\ 0 \in Int /\ py \in Int
        OBVIOUS
    <3>. HIDE DEF k
    <3>2. PICK a \in Nat : t.left = Sign(k) * a /\ Truncated(a, k, q)
        BY <1>1, <2>2, <3>1, ThrottleIsTruncated
    <3>3. PICK c \in Nat : t.right = Sign(k) * c /\ Truncated(c, k, q)
        BY <1>1, <2>2, <3>1, ThrottleIsTruncated
    <3>4. q \in Int
      <4>1. py # 0
        <5>1. py = 0 => 2 * py = 0 /\ 2 * py \in Int
            BY <3>1
        <5>. QED
            BY <2>2, <5>1, MinusNothing DEF k
      <4>. QED
          BY <3>1, <4>1, SquareType
    <3>5. a <= c + 1 /\ c <= a + 1
      <4>. HIDE DEF q
      <4>. QED
          BY <3>2, <3>3, <3>4, TruncationsAgree DEF Truncated
    <3>6. Sign(k) = 1 \/ Sign(k) = -1
        BY <2>2, <3>1 DEF Sign
    <3>. QED
        BY <3>2, <3>3, <3>5, <3>6 DEF Abs
  <2>. QED
      BY <2>1, <2>2
<1>5. ml * mr >= 0
  <2>. HIDE DEF ml, mr
  <2>1. \A a, c \in Int : ((a >= 0 /\ c >= 0) \/ (a <= 0 /\ c <= 0)) => a * c >= 0
      OBVIOUS
  <2>2. (ml >= 0 /\ mr >= 0) \/ (ml <= 0 /\ mr <= 0)
      BY <1>3, <1>4
  <2>. QED
      BY <1>3, <2>1, <2>2
<1>. QED
    BY <1>4, <1>5 DEF driveMotors, driveNotification

(* Both wheels, sideways: their numerators are opposite, so they run       *)
(* against each other on truncations of the same square.                   *)
LEMMA SidewaysThrottles ==
    ASSUME NEW px \in Int, px # 0, NEW t \in convert_xy_to_throttles(px, 0)
    PROVE  \E a, c \in Nat :
              LET q == SquaredThrottle(deflection(px, 0), px, px * px + 0 * 0)
              IN  /\ t.left = -(Sign(px) * a) /\ t.right = Sign(px) * c
                  /\ Truncated(a, px, q) /\ Truncated(c, px, q)
<1>. DEFINE M == deflection(px, 0)
            r2 == px * px + 0 * 0
<1>1. t.left \in WheelThrottles(px, 0, -px) /\ t.right \in WheelThrottles(px, 0, px)
  <2>1. -(TURN_DAMPING_FACTOR * 0 + px) = -px /\ px - TURN_DAMPING_FACTOR * 0 = px
      BY DEF TURN_DAMPING_FACTOR
  <2>2. /\ t.left \in WheelThrottles(px, 0, -(TURN_DAMPING_FACTOR * 0 + px))
        /\ t.right \in WheelThrottles(px, 0, px - TURN_DAMPING_FACTOR * 0)
      BY DEF convert_xy_to_throttles
  <2>. QED
      BY <2>1, <2>2, Zenon
<1>2. -px \in Int /\ -px # 0 /\ 0 \in Int
    OBVIOUS
<1>3. SquaredThrottle(M, -px, r2) = SquaredThrottle(M, px, r2)
  <2>1. M \in Int
      BY DEF deflection, Abs
  <2>. HIDE DEF M, r2
  <2>2. M * (-px) * (-px) = M * px * px
      BY <2>1
  <2>. QED
      BY <2>2 DEF SquaredThrottle
<1>4. PICK a \in Nat : t.left = Sign(-px) * a /\ Truncated(a, -px, SquaredThrottle(M, -px, r2))
    BY <1>1, <1>2, ThrottleIsTruncated
<1>5. PICK c \in Nat : t.right = Sign(px) * c /\ Truncated(c, px, SquaredThrottle(M, px, r2))
    BY <1>1, <1>2, ThrottleIsTruncated
<1>6. Sign(-px) * a = -(Sign(px) * a) /\ Abs(-px) = Abs(px)
    BY DEF Sign, Abs
<1>7. Truncated(a, px, SquaredThrottle(M, px, r2))
    BY <1>3, <1>4, <1>6 DEF Truncated
<1>. QED
    BY <1>4, <1>5, <1>6, <1>7

(* Turning on the spot, in what the motors are set to. *)
LEMMA PivotsOnTheSpot ==
    ASSUME NEW px \in -512 .. 511, NEW t \in convert_xy_to_throttles(px, 0), NEW btn
    PROVE  LET m == driveMotors(driveNotification(t, btn))
           IN  Abs(t.left + t.right) <= 1 /\ m.left * m.right <= 0
<1>. DEFINE ml == set_motor(ToInt8(TruncDiv(t.left, 4)) * 2)
            mr == set_motor(ToInt8(TruncDiv(t.right, 4)) * 2)
            q == SquaredThrottle(deflection(px, 0), px, px * px + 0 * 0)
<1>1. /\ t.left \in -512 .. 511 /\ t.right \in -512 .. 511
      /\ Abs(t.left + t.right) <= 1
      /\ (t.left >= 0 /\ t.right <= 0) \/ (t.left <= 0 /\ t.right >= 0)
  <2>1. CASE px = 0
    <3>1. t.left = 0 /\ t.right = 0
      <4>. QED
          BY <2>1, CentreThrottles
    <3>. QED
        BY <3>1 DEF Abs
  <2>2. CASE px # 0
    <3>0. PICK a, c \in Nat : /\ t.left = -(Sign(px) * a) /\ t.right = Sign(px) * c
                              /\ Truncated(a, px, q) /\ Truncated(c, px, q)
        BY <2>2, SidewaysThrottles
    <3>1. q \in Int
        BY <2>2, 0 \in Int, SquareType
    <3>2. a <= c + 1 /\ c <= a + 1
      <4>. HIDE DEF q
      <4>. QED
          BY <3>0, <3>1, TruncationsAgree DEF Truncated
    <3>3. a <= 257 /\ c <= 257
        BY <3>0 DEF Truncated, Abs
    <3>4. Sign(px) = 1 \/ Sign(px) = -1
        BY <2>2 DEF Sign
    <3>. QED
        BY <3>0, <3>2, <3>3, <3>4 DEF Abs
  <2>. QED
      BY <2>1, <2>2
<1>2. /\ ml \in Int /\ (t.left >= 0 => ml >= 0) /\ (t.left <= 0 => ml <= 0)
      /\ mr \in Int /\ (t.right >= 0 => mr >= 0) /\ (t.right <= 0 => mr <= 0)
    BY <1>1, ByteKeepsDirection
<1>3. ml * mr <= 0
  <2>. HIDE DEF ml, mr
  <2>1. \A i, j \in Int : ((i >= 0 /\ j <= 0) \/ (i <= 0 /\ j >= 0)) => i * j <= 0
      OBVIOUS
  <2>2. (ml >= 0 /\ mr <= 0) \/ (ml <= 0 /\ mr >= 0)
      BY <1>1, <1>2
  <2>. QED
      BY <1>2, <2>1, <2>2
<1>. QED
    BY <1>1, <1>3 DEF driveMotors, driveNotification

(* A wheel that turns has a throttle, and a throttle starts the brushes.   *)
LEMMA BrushesTurnToo ==
    ASSUME NEW t, NEW btn \in BOOLEAN
    PROVE  LET m == driveMotors(driveNotification(t, btn))
           IN  /\ t.left = 0 /\ t.right = 0 /\ ~btn => m = Released
               /\ m.left # 0 \/ m.right # 0 => m.leftBrush > 0 /\ m.rightBrush > 0
<1>1. set_motor(ToInt8(TruncDiv(0, 4)) * 2) = 0 /\ set_motor(0 * 2) = 0 /\ set_motor(127 * 2) = 254
  <2>1. TruncDiv(0, 4) = 0
      BY DEF TruncDiv, Sign, Abs
  <2>2. ToInt8(0) = 0
      BY DEF ToInt8
  <2>. QED
      BY <2>1, <2>2 DEF set_motor, Sign, Abs
<1>. DEFINE m == driveMotors(driveNotification(t, btn))
<1>2. t.left = 0 /\ t.right = 0 /\ ~btn => m = Released
    BY <1>1 DEF driveMotors, driveNotification, Released, RELEASE
<1>3. m.left # 0 \/ m.right # 0 => t.left # 0 \/ t.right # 0
    BY <1>1 DEF driveMotors, driveNotification
<1>4. t.left # 0 \/ t.right # 0 => m.leftBrush = 254 /\ m.rightBrush = 254
    BY <1>1 DEF driveMotors, driveNotification
<1>. QED
    BY <1>2, <1>3, <1>4

(* A turn on the spot, and the brushes released. *)
OnTheSpot(m) == m.left = -m.right /\ m.left # 0 /\ m.leftBrush = RELEASE /\ m.rightBrush = RELEASE

(* A move of the dance: 127^2 <= 16257 and 16256 <= 128^2 leave the size   *)
(* of both throttles no choice but 127.                                    *)
LEMMA DanceMove ==
    ASSUME NEW px \in {255, -255}, NEW t \in convert_xy_to_throttles(px, 0)
    PROVE  OnTheSpot(coordsMotors(t, FALSE))
<1>. DEFINE q == SquaredThrottle(deflection(px, 0), px, px * px + 0 * 0)
<1>0. PICK a, c \in Nat : /\ t.left = -(Sign(px) * a) /\ t.right = Sign(px) * c
                          /\ Truncated(a, px, q) /\ Truncated(c, px, q)
    BY SidewaysThrottles
<1>1. q = 16256
  <2>1. deflection(px, 0) = 255 /\ px * px + 0 * 0 = 65025 /\ 255 * px * px = 16581375
      BY DEF deflection, Abs
  <2>2. TURN_DAMPING_FACTOR * TURN_DAMPING_FACTOR * 65025 = 260100
      BY DEF TURN_DAMPING_FACTOR
  <2>3. 16581375 \div 260100 = 63 /\ 16581375 % 260100 = 195075
      OBVIOUS
  <2>4. 255 * 195075 = 49744125 /\ 49744125 \div 260100 = 191 /\ 255 * 63 + 191 = 16256
      OBVIOUS
  <2>. QED
      BY <2>1, <2>2, <2>3, <2>4 DEF SquaredThrottle
<1>2. \A n \in Nat : Truncated(n, px, q) => n = 127
  <2>. TAKE n \in Nat
  <2>. HAVE Truncated(n, px, q)
  <2>1. n \in 0 .. 128 /\ n * n <= 16257 /\ 16256 <= (n + 1) * (n + 1)
      BY <1>1 DEF Truncated, Abs
  <2>2. n >= 128 => n * n >= 128 * 128
      OBVIOUS
  <2>3. n <= 126 => (n + 1) * (n + 1) <= 127 * 127
      OBVIOUS
  <2>. QED
      BY <2>1, <2>2, <2>3
<1>3. a = 127 /\ c = 127
    BY <1>0, <1>2
<1>4. t.left \in Int /\ t.right \in -255 .. 255 /\ t.left = -t.right /\ t.right # 0
  <2>1. Sign(px) = 1 \/ Sign(px) = -1
      BY DEF Sign
  <2>. QED
      BY <1>0, <1>3, <2>1
<1>5. \A n \in -255 .. 255 : set_motor(n) = n /\ set_motor(-n) = -n
    BY DEF set_motor, Sign, Abs
<1>6. set_motor(t.right) = t.right /\ set_motor(t.left) = t.left /\ t.left # 0
    BY <1>4, <1>5
<1>7. set_motor(0) = 0
    BY DEF set_motor, Sign, Abs
<1>. QED
    BY <1>4, <1>6, <1>7 DEF coordsMotors, RELEASE, OnTheSpot

-----------------------------------------------------------------------------
(* What a position of the stick makes of the wheels and brushes. *)
StickObeyed == Straight /\ Pivots /\ BrushesFollow

(* A dance is under way only between its first command and its last move.  *)
DanceInv == DanceInPlace /\ (pc # "dance" => move = 0)

(* The dead zone keeps an axis on its scale. *)
LEMMA DeadZoneAxis ==
    ASSUME NEW a \in -512 .. 511
    PROVE  deadZone(a) \in -512 .. 511
    BY DEF deadZone

(* One pass of the loop obeys the stick, wherever it was before. *)
LEMMA DriveObeys ==
    ASSUME NEW ax \in Axis, NEW ay \in Axis, NEW btn \in BOOLEAN, drive(ax, ay, btn)
    PROVE  StickObeyed'
<1>1. x_pos(ax) \in -512 .. 511 /\ y_pos(ay) \in -511 .. 512
  <2>1. ax \in -512 .. 511 /\ ay \in -512 .. 511
      BY AxisAssumption
  <2>2. deadZone(ax) \in -512 .. 511 /\ deadZone(ay) \in -512 .. 511
      BY <2>1, DeadZoneAxis
  <2>3. \A n \in -512 .. 511 : -n \in -511 .. 512
      OBVIOUS
  <2>. QED
      BY <2>2, <2>3 DEF x_pos, y_pos
<1>2. PICK t \in convert_xy_to_throttles(x_pos(ax), y_pos(ay)) :
          throttles' = t /\ driven' = driveMotors(driveNotification(t, btn))
    BY DEF drive
<1>3. axisX' = ax /\ axisY' = ay /\ b' = btn
    BY DEF drive
<1>4. Straight'
    BY <1>1, <1>2, <1>3, StraightAhead DEF Straight
<1>5. Pivots'
    BY <1>1, <1>2, <1>3, PivotsOnTheSpot DEF Pivots
<1>6. BrushesFollow'
  <2>1. x_pos(ax) = 0 /\ y_pos(ay) = 0 => t.left = 0 /\ t.right = 0
    <3>. QED
        BY <1>2, CentreThrottles
  <2>. QED
      BY <1>2, <1>3, <2>1, BrushesTurnToo DEF BrushesFollow
<1>. QED
    BY <1>4, <1>5, <1>6 DEF StickObeyed

(* So the stick is always obeyed. *)
LEMMA StickIsObeyed == SteeringSpec => []StickObeyed
<1>1. SteeringInit => StickObeyed
  <2>. SUFFICES ASSUME SteeringInit PROVE StickObeyed
      OBVIOUS
  <2>1. throttles.left = 0 /\ throttles.right = 0 /\ driven.left = 0 /\ driven.right = 0
      BY DEF SteeringInit, Released, RELEASE
  <2>. QED
      BY <2>1 DEF SteeringInit, StickObeyed, Straight, Pivots, BrushesFollow, Abs
<1>2. StickObeyed /\ [SteeringNext]_steeringVars => StickObeyed'
  <2>. SUFFICES ASSUME StickObeyed, [SteeringNext]_steeringVars PROVE StickObeyed'
      OBVIOUS
  <2>1. CASE SteeringNext
      BY <2>1, DriveObeys DEF SteeringNext
  <2>2. CASE UNCHANGED steeringVars
      BY <2>2 DEF steeringVars, StickObeyed, Straight, Pivots, BrushesFollow
  <2>. QED
      BY <2>1, <2>2
<1>. QED
    BY <1>1, <1>2, PTL DEF SteeringSpec

(* A dance turns in place, whatever is sent meanwhile. *)
LEMMA DancesInPlace == Spec => []DanceInv
<1>1. Init => DanceInv
    BY DEF Init, DanceInv, DanceInPlace
<1>2. TypeOK /\ DanceInv /\ [Next]_vars => DanceInv'
  <2>. SUFFICES ASSUME TypeOK, DanceInv, [Next]_vars PROVE DanceInv'
      OBVIOUS
  <2>1. CASE Callers
    <3>1. PICK n \in Notification : notify(n)
        BY <2>1, CallersNotify
    <3>. QED
        BY <3>1 DEF notify, DanceInv, DanceInPlace
  <2>2. CASE begin
      BY <2>2 DEF begin, DanceInv, DanceInPlace
  <2>3. CASE receive
      BY <2>3 DEF receive, DanceInv, DanceInPlace
  <2>4. CASE dance
    <3>1. CASE move + 1 = danceMoves
        BY <2>4, <3>1 DEF dance, DanceInv, DanceInPlace
    <3>2. CASE move + 1 # danceMoves
      <4>1. danceX(move + 1) \in {255, -255}
        <5>1. move + 1 # 7
            BY <3>2 DEF danceMoves
        <5>2. \A i : i # 7 => danceX(i) \in {255, -255}
            BY Zenon DEF danceX
        <5>. QED
            BY <5>1, <5>2, Zenon
      <4>2. PICK t \in convert_xy_to_throttles(danceX(move + 1), 0) : motors' = coordsMotors(t, FALSE)
          BY <2>4 DEF dance
      <4>3. OnTheSpot(motors')
        <5>1. OnTheSpot(coordsMotors(t, FALSE))
            BY <4>1, <4>2, DanceMove, Zenon
        <5>. QED
            BY <4>2, <5>1, Zenon
      <4>4. pc' = "dance"
          BY <2>4, <3>2 DEF dance
      <4>. QED
          BY <4>3, <4>4 DEF DanceInv, DanceInPlace, OnTheSpot
    <3>. QED
        BY <3>1, <3>2
  <2>5. CASE rest
      BY <2>5 DEF rest, DanceInv, DanceInPlace
  <2>6. CASE UNCHANGED vars
      BY <2>6 DEF vars, DanceInv, DanceInPlace
  <2>. QED
      BY <2>1, <2>2, <2>3, <2>4, <2>5, <2>6 DEF Next, MotorTask
<1>. QED
    BY <1>1, <1>2, TypeCorrect, PTL DEF Spec

(* The robot moves the way it is meant to for every position a controller *)
(* can report, the ends of the axes included, where in a turn the byte of a *)
(* wheel wraps, and in a dance whatever commands arrive meanwhile          *)
(* (motor_control.cpp:23-53, 173-191, 227-245).                            *)
THEOREM ManoeuvresAreKept == MotionSpec => []Manoeuvres
<1>1. MotionInit => Init /\ SteeringInit
    BY DEF MotionInit
<1>2. [MotionNext]_allVars => [Next]_vars /\ [SteeringNext]_steeringVars
  <2>. SUFFICES ASSUME [MotionNext]_allVars PROVE [Next]_vars /\ [SteeringNext]_steeringVars
      OBVIOUS
  <2>1. CASE MotionNext
      BY <2>1 DEF MotionNext
  <2>2. CASE UNCHANGED allVars
      BY <2>2 DEF allVars
  <2>. QED
      BY <2>1, <2>2
<1>3. StickObeyed /\ DanceInv => Manoeuvres
    BY DEF StickObeyed, DanceInv, Manoeuvres
<1>4. Spec /\ SteeringSpec => []Manoeuvres
    BY <1>3, StickIsObeyed, DancesInPlace, PTL
<1>5. MotionSpec => Spec /\ SteeringSpec
    BY <1>1, <1>2, PTL DEF MotionSpec, Spec, SteeringSpec
<1>. QED
    BY <1>4, <1>5, PTL

=============================================================================
