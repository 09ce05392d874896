SPECIFICATION MotionSpec
CONSTANTS
    Parts = {"commands", "steering"}
    Inputs <- MCInputs
    Garbage <- MCGarbage
    Axis <- SafeAxis
    Step = 32
INVARIANTS
    LastCommandHolds
    WheelsRepresentThrottles
    Manoeuvres
PROPERTIES
    NoLurch
    SilenceSettles
