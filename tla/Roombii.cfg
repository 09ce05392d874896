SPECIFICATION FairSpec
CONSTANTS
    Slots = 1
    QUEUE_LENGTH = 1
    MaxCalls = 2
    Sticks <- MCSticks
    Reports <- MCReports
    Garbage <- MCGarbage
PROPERTIES
    ComponentsHold
    LockedOutMeansNoDriving
    DanceOnlyGivesWay
    FollowsStick
\* After a successful update everything waits for the restart.
CHECK_DEADLOCK FALSE
