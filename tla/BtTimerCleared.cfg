SPECIFICATION SetupSpec
CONSTANTS
    Stages = {"connection"}
    wii = wii
    pad = pad
    Addresses = {wii, pad}
    NoAddress = NoAddress
    Slots = {1}
    MaxChannels = 2
    NameOf <- MCNameOf
    Descriptor = {pad}
    Setup = {wii}
    Seats = {"LED1"}
    LateQueries = 0
    MaxAnswers = 4
    Pads <- MCPads
    MaxPlugs = 1
INVARIANT NoTimerOutlivesRecord
CHECK_DEADLOCK FALSE
