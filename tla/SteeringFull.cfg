SPECIFICATION MotionSpec
CONSTANTS
    Parts = {"steering"}
    Inputs <- MCInputs
    Garbage <- MCGarbage
    Axis <- FullAxis
    Step = 32
INVARIANTS
    WheelsRepresentThrottles
