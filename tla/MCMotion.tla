------------------------------ MODULE MCMotion ------------------------------
(***************************************************************************)
(* Instances of MotorControl and of Steering.  They share the arithmetic   *)
(* of Throttle and no state: a behaviour is one of either part, while the  *)
(* variables of the other one rest in their initial values.                *)
(***************************************************************************)
EXTENDS MotorControl, Steering

CONSTANT Parts            \* which of "commands" and "steering" to explore
VARIABLE part

allVars == <<part, vars, steeringVars>>

MotionInit == part \in Parts /\ Init /\ SteeringInit

MotionNext ==
    \/ part = "commands" /\ Next /\ UNCHANGED <<part, steeringVars>>
    \/ part = "steering" /\ SteeringNext /\ UNCHANGED <<part, vars>>

(* With the fairness of MotorControl, in the part it belongs to. *)
MotionSpec ==
    MotionInit /\ [][MotionNext]_allVars /\ WF_vars(part = "commands" /\ MotorTask)

-----------------------------------------------------------------------------
(* The robot moves the way it is meant to: straight ahead or back when the *)
(* stick says so, on the spot when it points sideways and in a dance, and  *)
(* with its brushes on while it drives and off when it does not.           *)
Manoeuvres == Straight /\ Pivots /\ BrushesFollow /\ DanceInPlace

-----------------------------------------------------------------------------
(* Stick released, forward, a turn with the brush button, and a position   *)
(* whose wheel byte is -128.                                               *)
MCInputs == {<<0, 0, FALSE>>, <<0, 400, FALSE>>, <<200, -300, TRUE>>, <<-448, 480, FALSE>>}

(* The bytes of a stack word: the extremes and a stop. *)
MCGarbage == {-128, 0, 127}

(* A grid over the stick, with the edges of the dead zone. *)
Grid(n, step) == {i * step : i \in -n .. n} \cup {-5, -4, 4, 5}

(* The positions in which no wheel byte overflows: |x|, |y| <= 457.        *)
SafeAxis == Grid(14, 32) \cup {-457, 457}

(* The whole stick. *)
FullAxis == Grid(15, 32) \cup {-512, 511}
=============================================================================
