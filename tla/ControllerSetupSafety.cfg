SPECIFICATION SetupSpec
CONSTANTS
    Stages = {"connection", "switch", "wii"}
    wii = wii
    pad = pad
    Addresses = {wii, pad}
    NoAddress = NoAddress
    Slots = {1}
    MaxChannels = 2
    NameOf <- MCNameOf
    Descriptor = {pad}
    Setup = {wii}
    Seats = {"LED1", "LED2"}
    LateQueries = 1
    MaxAnswers = 4
    Pads <- MCPads
    MaxPlugs = 3
INVARIANTS
    
    
    Configured
    AnswersFit
\* A damaged list of timers, or a controller that is gone, ends a behaviour.
CHECK_DEADLOCK FALSE
