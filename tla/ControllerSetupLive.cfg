SPECIFICATION SetupFairSpec
CONSTANTS
    Stages = {"connection", "switch", "wii"}
    wii = wii
    pad = pad
    Addresses = {pad}
    NoAddress = NoAddress
    Slots = {1}
    MaxChannels = 2
    NameOf <- MCOneName
    Descriptor = {pad}
    Setup = {pad}
    Seats = {"LED1"}
    LateQueries = 0
    MaxAnswers = 4
    Pads <- MCPads
    MaxPlugs = 1
PROPERTIES
    SetupsEnd
    BecomesReady
CHECK_DEADLOCK FALSE
