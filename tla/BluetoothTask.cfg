SPECIFICATION TaskSpec
CONSTANTS
    AclNum = 2
    EventNum = 1
    AclLengths = {2, 4}
    EventLengths = {3}
    EventsInFlight = 1
    MaxPackets = 3
    Tasks = {console, arduino}
    Commands = {keys}
    MaxCalls = 2
    console = console
    arduino = arduino
    keys = keys
    x0 = x0
    x1 = x1
    Size = 3
    Byte = {x0, x1}
    Blocks <- MCBlocks
    Lengths = {0, 1, 2, 3, 4}
    Timers = {t1, t2, t3}
    t1 = t1
    t2 = t2
    t3 = t3
    Timeouts = {0, 2}
    MaxLate = 1
    Width = 9
    SIZE = 3
    Channels = {control, interrupt}
    control = control
    interrupt = interrupt
    MaxReports = 5
INVARIANTS
    TypesOK
    PacketsIntact
    NoLostWakeup
    NothingStuck
    Accounted
PROPERTIES
    ImplementsQueue
    ImplementsTimers
    WorkIsDone
